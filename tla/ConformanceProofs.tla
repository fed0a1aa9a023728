-------------------------- MODULE ConformanceProofs --------------------------
(* What Conformance promises for every deployment, every number of catalogs   *)
(* and snapshots, every set of flaws, every loss and any number of changes.   *)
(*                                                                            *)
(* Everything rests on one strengthening, Base: what the deployment serves is *)
(* of its catalog and sequence (Deployed), a response is of its URI           *)
(* (FetchInv), and the run has fetched what its next task takes for granted   *)
(* and nothing that comes later (Place).  Each property adds an invariant of  *)
(* its own, inductive beside Base.                                            *)
EXTENDS Conformance, FiniteSetTheorems, WellFoundedInduction, TLAPS

-------------------------------------------------------------------------------
(* The deployment: every snapshot it ever shows is of its catalog, and a      *)
(* second variant, or a link to one, is the work of a provider that forked.   *)
Forked(c, k) == \E mid \in BOOLEAN : <<"forked", c, k, mid>> \in wrongs
SnapOK(c, s) ==
    /\ s \in SnapshotSet /\ s.cat = c
    /\ s.alt = 1 => Forked(c, s.seq)
    /\ s.prev # None => /\ s.prev \in Nat \X {0, 1} /\ s.prev[1] = s.seq - 1
                        /\ s.prev[2] = 1 => Forked(c, s.seq - 1)

Deployed ==
    /\ now \in Nat /\ now <= MaxTime /\ ver \in Nat /\ policy \in [Catalogs -> Nat]
    /\ chain \in [Catalogs -> Seq(SnapshotSet)]
    /\ shelf \in [Catalogs -> [1..MaxSeq -> SnapshotSet \cup {None}]]
    /\ changes \in Nat
    /\ \A c \in Catalogs :
         /\ Len(chain[c]) \in Length[c]..MaxSeq
         /\ \A k \in 1..Len(chain[c]) : chain[c][k].seq = k /\ SnapOK(c, chain[c][k])
         /\ \A k \in 1..MaxSeq : shelf[c][k] # None => k <= Len(chain[c]) /\ SnapOK(c, shelf[c][k])

LEMMA CatalogsFacts ==
    /\ \A c \in Catalogs : Length[c] \in 1..MaxSeq /\ Length[c] <= Founded
    /\ MaxSeq \in Nat /\ MaxTime \in Nat /\ Founded \in Nat /\ Founded <= MaxTime
    /\ MaxWindow \in Nat /\ ShortWindow \in Nat /\ Window \in Nat /\ Skew \in Nat /\ MaxWalk \in Nat /\ HubTime \in Nat
    /\ Window > 0 /\ MaxWalk > 0 /\ HubTime < Skew /\ Window <= ShortWindow /\ ShortWindow < MaxWindow
    /\ Busy \subseteq Catalogs
    /\ None \notin Nat /\ None \notin Nat \X {0, 1} /\ None \notin SnapshotSet
BY ConformanceAssumption, NoneAssumption

LEMMA LifeNat == ASSUME NEW c, NEW k PROVE Life(c, k) \in Nat
BY CatalogsFacts DEF Life

LEMMA TwinTyped ==
    ASSUME NEW s \in SnapshotSet
    PROVE  /\ Twin(s) \in SnapshotSet /\ Twin(s).cat = s.cat /\ Twin(s).seq = s.seq
           /\ Twin(s).prev = s.prev /\ Twin(s).exp = s.exp /\ Twin(s).gen = s.gen
BY DEF Twin, SnapshotSet

LEMMA ChainLast ==
    ASSUME Deployed, NEW c \in Catalogs
    PROVE  /\ Len(chain[c]) \in Nat \ {0} /\ Len(chain[c]) \in 1..MaxSeq
           /\ Last(chain[c]) = chain[c][Len(chain[c])]
           /\ Last(chain[c]) \in SnapshotSet /\ Last(chain[c]).seq = Len(chain[c])
           /\ SnapOK(c, Last(chain[c]))
           /\ \A k \in 1..Len(chain[c]) : chain[c][k] \in SnapshotSet /\ k \in 1..MaxSeq
<1>0. /\ Length[c] \in 1..MaxSeq /\ MaxSeq \in Nat /\ Len(chain[c]) \in Length[c]..MaxSeq
      /\ chain[c] \in Seq(SnapshotSet)
  BY CatalogsFacts DEF Deployed
<1>1. chain[c] \in Seq(SnapshotSet) /\ Len(chain[c]) \in 1..MaxSeq
  BY <1>0
<1>2. Last(chain[c]) = chain[c][Len(chain[c])] BY DEF Last
<1> QED BY <1>1, <1>2, CatalogsFacts DEF Deployed, SnapOK

(* What was done stays done.                                                  *)
LEMMA WrongsGrow ==
    ASSUME NEW c, NEW s, wrongs \subseteq wrongs'
    PROVE  /\ \A k : Forked(c, k) => Forked(c, k)'
           /\ SnapOK(c, s) => SnapOK(c, s)'
BY DEF Forked, SnapOK

LEMMA DeployedInit == Init => Deployed
<1> SUFFICES ASSUME Init PROVE Deployed OBVIOUS
<1>1. ASSUME NEW c \in Catalogs
      PROVE  /\ Founding(c) \in Seq(SnapshotSet) /\ Len(Founding(c)) = Length[c]
             /\ Length[c] \in 1..MaxSeq
             /\ \A k \in 1..Length[c] : Founding(c)[k].seq = k /\ SnapOK(c, Founding(c)[k])
  <2>1. Length[c] \in 1..MaxSeq BY CatalogsFacts
  <2>2. ASSUME NEW k \in 1..Length[c]
        PROVE  /\ Founding(c)[k] \in SnapshotSet /\ Founding(c)[k].seq = k
               /\ SnapOK(c, Founding(c)[k])
    <3> DEFINE prev == IF k = 1 THEN None ELSE <<k - 1, 0>>
               s == Founding(c)[k]
    <3>1. k \in Nat /\ k >= 1 BY <2>1, CatalogsFacts
    <3>2. prev \in (Nat \X {0, 1}) \cup {None}
      BY <3>1
    <3>3. s = Snapshot(c, k, prev, 1, k)
      BY <2>1 DEF Founding
    <3>4. s \in SnapshotSet /\ s.cat = c /\ s.seq = k /\ s.alt = 0 /\ s.prev = prev
      <4>1. Life(c, k) \in Nat BY LifeNat
      <4>2. Skew \in Nat /\ MaxTime \in Nat BY CatalogsFacts
      <4> QED BY <3>1, <3>2, <3>3, <4>1, <4>2 DEF Snapshot, SnapshotSet
    <3> QED BY <3>1, <3>4 DEF SnapOK
  <2>3. DOMAIN Founding(c) = 1..Length[c] BY DEF Founding
  <2>4. Founding(c) = [k \in 1..Length[c] |-> Founding(c)[k]] BY DEF Founding
  <2>5. Founding(c) \in [1..Length[c] -> SnapshotSet] BY <2>2, <2>4
  <2> QED BY <2>1, <2>2, <2>3, <2>5, CatalogsFacts
<1>2. chain = [c \in Catalogs |-> Founding(c)] /\ MaxSeq \in Nat
  BY CatalogsFacts DEF Init
<1>3. chain \in [Catalogs -> Seq(SnapshotSet)]
  BY <1>1, <1>2
<1>4. ASSUME NEW c \in Catalogs
      PROVE  /\ Len(chain[c]) \in Length[c]..MaxSeq
             /\ \A k \in 1..Len(chain[c]) : chain[c][k].seq = k /\ SnapOK(c, chain[c][k])
  BY <1>1, <1>2
<1>5. shelf = [c \in Catalogs |-> [k \in 1..MaxSeq |-> IF k <= Length[c] THEN chain[c][k] ELSE None]]
  BY DEF Init
<1>6. ASSUME NEW c \in Catalogs, NEW k \in 1..MaxSeq
      PROVE  /\ shelf[c][k] \in SnapshotSet \cup {None}
             /\ shelf[c][k] # None => k <= Len(chain[c]) /\ SnapOK(c, shelf[c][k])
  BY <1>1, <1>2, <1>4, <1>5 DEF SnapOK
<1>7. shelf \in [Catalogs -> [1..MaxSeq -> SnapshotSet \cup {None}]]
  BY <1>5, <1>6
<1> QED BY <1>3, <1>4, <1>6, <1>7, CatalogsFacts DEF Init, Deployed

(* What a provider's step leaves alone, and what only grows.                  *)
LEMMA ProviderKeeps ==
    ASSUME Deployed, ProviderNext
    PROVE  /\ UNCHANGED <<flaws, phase, at, doing, got, found, stopped, deadline, budget, mishaps>>
           /\ wrongs \subseteq wrongs' /\ changes' = changes + 1
           /\ phase \in {"idle", "run"} /\ (phase = "run" => doing[1] \notin {"dests", "end"})
BY DEF ProviderNext, Acts, Tick, Redeclare, Publish, Prune, Equivocate, Drop, Replace, Wrong

LEMMA RunKeeps ==
    ASSUME RunNext
    PROVE  UNCHANGED <<now, ver, policy, chain, shelf, wrongs, changes, flaws, budget>>
BY DEF RunNext, Probe, Start, Finish, GetManifest, GetManifestSig, GetPrivacy, ExamineEntries,
       GetPolicy, GetLatest, GetLatestSig, GetNewest, CheckChain, GetSibling, GetSiblingSig, GetDest,
       Running, deployment

(* How a provider's step changes a catalog's snapshots.                       *)
LEMMA ProviderSteps ==
    ASSUME Deployed, ProviderNext, NEW d \in Catalogs
    PROVE  \/ /\ UNCHANGED <<chain[d], shelf[d]>>
           \/ Publish(d) /\ d \in Busy
           \/ Prune(d) /\ d \in Busy
           \/ Equivocate(d) /\ d \in Busy
           \/ \E k \in 1..Len(chain[d]) : Drop(d, k)
           \/ \E k \in 1..Len(chain[d]) : \E s \in {Last(chain[d]), Twin(chain[d][k])} : Replace(d, k, s)
<1>1. ASSUME NEW c \in Catalogs, c # d,
             \/ Publish(c) \/ Prune(c) \/ Equivocate(c)
             \/ \E k \in 1..Len(chain[c]) :
                   Drop(c, k) \/ \E s \in {Last(chain[c]), Twin(chain[c][k])} : Replace(c, k, s)
      PROVE  UNCHANGED <<chain[d], shelf[d]>>
  BY <1>1 DEF Deployed, Publish, Prune, Equivocate, Drop, Replace
<1>2. ASSUME Tick \/ \E cs \in SUBSET Busy : Redeclare(cs)
      PROVE  UNCHANGED <<chain[d], shelf[d]>>
  BY <1>2 DEF Tick, Redeclare
<1> QED BY <1>1, <1>2, CatalogsFacts DEF ProviderNext

(* What Publish(c) adds: snapshot s as sequence n.                            *)
Published(c, n, s) ==
    /\ n = Len(chain[c]) + 1 /\ n \in 2..MaxSeq
    /\ s \in SnapshotSet /\ s.cat = c /\ s.seq = n /\ s.alt = 0 /\ s.prev = Digest(Last(chain[c]))
    /\ s.policy = policy[c] /\ s.exp = s.gen + Life(c, n)
    /\ s.gen = IF Bad(<<"snapshot", c, n>>, {"future"}) THEN MaxTime + Skew + 1 ELSE now
    /\ SnapOK(c, s)
    /\ Len(chain'[c]) = n /\ chain'[c][n] = s
    /\ \A k \in 1..Len(chain[c]) : chain'[c][k] = chain[c][k]
    /\ \A k \in 1..MaxSeq : shelf'[c][k] = IF k = n THEN s ELSE shelf[c][k]
    /\ chain' \in [Catalogs -> Seq(SnapshotSet)]
    /\ shelf' \in [Catalogs -> [1..MaxSeq -> SnapshotSet \cup {None}]]

LEMMA PublishSteps ==
    ASSUME Deployed, NEW c \in Catalogs, Publish(c)
    PROVE  \E n, s : Published(c, n, s)
<1>a. PICK n : n = Len(chain[c]) + 1 OBVIOUS
<1>b. PICK s : s = Snapshot(c, n, Digest(Last(chain[c])), policy[c], now) OBVIOUS
<1>1. n \in 2..MaxSeq /\ n \in Nat /\ MaxSeq \in Nat
  BY <1>a, ChainLast, CatalogsFacts DEF Publish
<1>2. /\ Digest(Last(chain[c])) = <<n - 1, Last(chain[c]).alt>>
      /\ Digest(Last(chain[c])) \in Nat \X {0, 1}
  <2>1. /\ Last(chain[c]).seq = n - 1 /\ Last(chain[c]) \in SnapshotSet
        /\ n - 1 \in Nat
    BY <1>a, ChainLast, <1>1
  <2>2. Last(chain[c]).alt \in {0, 1} BY <2>1 DEF SnapshotSet
  <2> QED BY <2>1, <2>2 DEF Digest
<1>3. policy[c] \in Nat /\ now \in Nat BY DEF Deployed
<1>4. /\ s \in SnapshotSet /\ s.cat = c /\ s.seq = n /\ s.alt = 0 /\ s.prev = Digest(Last(chain[c]))
      /\ s.policy = policy[c] /\ s.exp = s.gen + Life(c, n)
      /\ s.gen = IF Bad(<<"snapshot", c, n>>, {"future"}) THEN MaxTime + Skew + 1 ELSE now
  <2>1. Life(c, n) \in Nat BY LifeNat
  <2>2. Skew \in Nat /\ MaxTime \in Nat BY CatalogsFacts
  <2>3. PICK prev \in Nat \X {0, 1} : prev = Digest(Last(chain[c])) BY <1>2
  <2>4. s = Snapshot(c, n, prev, policy[c], now) BY <1>b, <2>3
  <2>5. /\ s.cat = c /\ s.seq = n /\ s.alt = 0 /\ s.prev = prev /\ s.policy = policy[c]
        /\ s.gen = IF Bad(<<"snapshot", c, n>>, {"future"}) THEN MaxTime + Skew + 1 ELSE now
        /\ s.exp = s.gen + Life(c, n)
    BY <2>4 DEF Snapshot
  <2>6. s.gen \in Nat /\ s.exp \in Nat BY <2>1, <2>2, <2>5, <1>3
  <2>7. s \in SnapshotSet
    BY <2>4, <2>5, <2>6, <1>1, <1>3 DEF Snapshot, SnapshotSet
  <2> QED BY <2>3, <2>5, <2>7
<1>5. SnapOK(c, s)
  <2>1. s.prev = <<n - 1, Last(chain[c]).alt>> /\ s.prev \in Nat \X {0, 1}
    BY <1>2, <1>4
  <2>2. Last(chain[c]).alt = 1 => Forked(c, n - 1)
    BY <1>a, ChainLast DEF SnapOK
  <2> QED BY <1>1, <1>4, <2>1, <2>2 DEF SnapOK
<1>6. chain' = [chain EXCEPT ![c] = Append(@, s)] /\ shelf' = [shelf EXCEPT ![c][n] = s]
  BY <1>a, <1>b DEF Publish
<1>7. chain[c] \in Seq(SnapshotSet) /\ chain \in [Catalogs -> Seq(SnapshotSet)]
      /\ shelf \in [Catalogs -> [1..MaxSeq -> SnapshotSet \cup {None}]]
  BY DEF Deployed
<1>8. chain'[c] = Append(chain[c], s) /\ Append(chain[c], s) \in Seq(SnapshotSet)
  BY <1>4, <1>6, <1>7
<1>9. chain' \in [Catalogs -> Seq(SnapshotSet)]
  BY <1>4, <1>6, <1>7, <1>8
<1>10. shelf' \in [Catalogs -> [1..MaxSeq -> SnapshotSet \cup {None}]]
       /\ \A k \in 1..MaxSeq : shelf'[c][k] = IF k = n THEN s ELSE shelf[c][k]
  BY <1>1, <1>4, <1>6, <1>7
<1>11. /\ Len(chain'[c]) = n /\ chain'[c][n] = s
       /\ \A k \in 1..Len(chain[c]) : chain'[c][k] = chain[c][k]
  BY <1>a, <1>7, <1>8
<1> QED BY <1>a, <1>1, <1>4, <1>5, <1>9, <1>10, <1>11 DEF Published

(* What Equivocate(c) changes: the latest, of sequence n, is t instead.       *)
Equivocated(c, n, t) ==
    /\ n = Len(chain[c]) /\ n \in Nat \ {0} /\ Len(chain'[c]) = n /\ chain'[c][n] = t
    /\ t.seq = n /\ SnapOK(c, t)' /\ t.exp = chain[c][n].exp /\ t.gen = chain[c][n].gen
    /\ \A k \in 1..(n - 1) : chain'[c][k] = chain[c][k]
    /\ chain' \in [Catalogs -> Seq(SnapshotSet)]
    /\ shelf' = shelf /\ Forked(c, n)' /\ wrongs \subseteq wrongs'

LEMMA EquivocateSteps ==
    ASSUME Deployed, NEW c \in Catalogs, Equivocate(c)
    PROVE  \E n, t : Equivocated(c, n, t)
<1>a. PICK n : n = Len(chain[c]) OBVIOUS
<1>b. PICK s : s = chain[c][n] OBVIOUS
<1>c. PICK t : t = Twin(s) OBVIOUS
<1>1. /\ n \in Nat \ {0} /\ s \in SnapshotSet /\ s.seq = n /\ SnapOK(c, s)
      /\ chain[c] \in Seq(SnapshotSet) /\ chain \in [Catalogs -> Seq(SnapshotSet)]
  BY <1>a, <1>b, ChainLast DEF Deployed
<1>2. /\ chain' = [chain EXCEPT ![c][n] = Twin(@)] /\ shelf' = shelf
      /\ wrongs' = wrongs \cup {<<"forked", c, n, phase = "run">>}
  BY <1>a, <1>b DEF Equivocate, Wrong
<1>3. Forked(c, n)' /\ wrongs \subseteq wrongs'
  <2>1. (phase = "run") \in BOOLEAN OBVIOUS
  <2>2. <<"forked", c, n, phase = "run">> \in wrongs' /\ wrongs \subseteq wrongs' BY <1>2
  <2> QED BY <2>1, <2>2, Zenon DEF Forked
<1>4. /\ t \in SnapshotSet /\ t.cat = s.cat /\ t.seq = s.seq
      /\ t.prev = s.prev /\ t.exp = s.exp /\ t.gen = s.gen
  BY <1>1, <1>c, TwinTyped
<1>5. SnapOK(c, s)'  BY <1>1, <1>3, WrongsGrow
<1>6. SnapOK(c, t)'
  BY <1>1, <1>3, <1>4, <1>5 DEF SnapOK
<1>7. chain'[c] = [chain[c] EXCEPT ![n] = t]
  BY <1>1, <1>2, <1>b, <1>c
<1>8. n \in 1..Len(chain[c]) BY <1>a, <1>1
<1>9. /\ Len(chain'[c]) = n /\ chain'[c][n] = t /\ chain'[c] \in Seq(SnapshotSet)
      /\ \A k \in 1..(n - 1) : chain'[c][k] = chain[c][k]
  BY <1>1, <1>4, <1>7, <1>8, <1>a
<1>10. chain' = [chain EXCEPT ![c] = chain'[c]]
  BY <1>1, <1>2
<1>11. chain' \in [Catalogs -> Seq(SnapshotSet)]
  BY <1>1, <1>9, <1>10
<1> QED BY <1>a, <1>b, <1>1, <1>2, <1>3, <1>4, <1>6, <1>9, <1>11 DEF Equivocated

(* A provider's step keeps what was published, in sequence, and serves        *)
(* nothing again that it no longer serves.                                    *)
Kept(d) ==
    /\ Len(chain[d]) <= Len(chain'[d]) /\ Len(chain'[d]) <= MaxSeq
    /\ \A k \in 1..Len(chain[d]) : chain'[d][k].exp = chain[d][k].exp /\ chain'[d][k].gen = chain[d][k].gen
    /\ \A k \in 1..Len(chain[d]) : shelf[d][k] = None => shelf'[d][k] = None
DeployedAt(d) ==
    /\ chain[d] \in Seq(SnapshotSet) /\ shelf[d] \in [1..MaxSeq -> SnapshotSet \cup {None}]
    /\ Len(chain[d]) \in Length[d]..MaxSeq
    /\ \A k \in 1..Len(chain[d]) : chain[d][k].seq = k /\ SnapOK(d, chain[d][k])
    /\ \A k \in 1..MaxSeq : shelf[d][k] # None => k <= Len(chain[d]) /\ SnapOK(d, shelf[d][k])

LEMMA DeployedSplit ==
    Deployed <=> /\ now \in Nat /\ now <= MaxTime /\ ver \in Nat /\ policy \in [Catalogs -> Nat]
                 /\ chain = [c \in Catalogs |-> chain[c]] /\ shelf = [c \in Catalogs |-> shelf[c]]
                 /\ changes \in Nat
                 /\ \A d \in Catalogs : DeployedAt(d)
BY DEF Deployed, DeployedAt

LEMMA ChainRange ==
    ASSUME Deployed, NEW d \in Catalogs
    PROVE  /\ Length[d] \in Nat \ {0} /\ MaxSeq \in Nat /\ Len(chain[d]) \in Nat \ {0}
           /\ Length[d] <= Len(chain[d]) /\ Len(chain[d]) <= MaxSeq
<1>1. Length[d] \in 1..MaxSeq /\ MaxSeq \in Nat BY CatalogsFacts
<1>2. Len(chain[d]) \in Length[d]..MaxSeq BY DEF Deployed
<1> QED BY <1>1, <1>2

(* A step that only changes what one catalog's files serve.                   *)
LEMMA ShelfOnly ==
    ASSUME Deployed, NEW d \in Catalogs, chain' = chain, wrongs \subseteq wrongs',
           shelf' = [shelf EXCEPT ![d] = shelf'[d]],
           shelf'[d] \in [1..MaxSeq -> SnapshotSet \cup {None}],
           \A k \in 1..MaxSeq : \/ shelf'[d][k] \in {None, shelf[d][k]}
                                \/ shelf[d][k] # None /\ SnapOK(d, shelf[d][k])'
    PROVE  Kept(d) /\ DeployedAt(d)'
<1>1. DeployedAt(d) BY DeployedSplit
<1>2. ASSUME NEW s, SnapOK(d, s) PROVE SnapOK(d, s)' BY <1>2, WrongsGrow
<1>3. Kept(d) BY ChainRange DEF Kept
<1>4. \A k \in 1..MaxSeq : shelf'[d][k] # None => k <= Len(chain[d]) /\ SnapOK(d, shelf[d][k])'
  BY <1>1, <1>2 DEF DeployedAt
<1>5. \A k \in 1..Len(chain[d]) : chain[d][k].seq = k /\ SnapOK(d, chain[d][k])'
  BY <1>1, <1>2 DEF DeployedAt
<1> QED BY <1>1, <1>3, <1>4, <1>5 DEF DeployedAt

LEMMA ProviderDeploys ==
    ASSUME Deployed, ProviderNext, NEW d \in Catalogs
    PROVE  Kept(d) /\ DeployedAt(d)'
<1>1. DeployedAt(d) /\ wrongs \subseteq wrongs' BY DeployedSplit, ProviderKeeps
<1>2. ASSUME NEW s, SnapOK(d, s) PROVE SnapOK(d, s)' BY <1>1, <1>2, WrongsGrow
<1>3. /\ Length[d] \in Nat \ {0} /\ MaxSeq \in Nat /\ Len(chain[d]) \in Nat \ {0}
      /\ Length[d] <= Len(chain[d]) /\ Len(chain[d]) <= MaxSeq
  BY ChainRange
<1>4. shelf \in [Catalogs -> [1..MaxSeq -> SnapshotSet \cup {None}]] BY DEF Deployed
<1>5. CASE UNCHANGED <<chain[d], shelf[d]>>
  BY <1>1, <1>2, <1>3, <1>5 DEF DeployedAt, Kept
<1>6. CASE Publish(d)
  <2>1. PICK n, s : Published(d, n, s) BY <1>6, PublishSteps
  <2>3. /\ n = Len(chain[d]) + 1 /\ n \in 2..MaxSeq /\ s.seq = n /\ SnapOK(d, s)
        /\ Len(chain'[d]) = n /\ chain'[d][n] = s
        /\ \A k \in 1..Len(chain[d]) : chain'[d][k] = chain[d][k]
        /\ \A k \in 1..MaxSeq : shelf'[d][k] = IF k = n THEN s ELSE shelf[d][k]
        /\ chain' \in [Catalogs -> Seq(SnapshotSet)]
        /\ shelf' \in [Catalogs -> [1..MaxSeq -> SnapshotSet \cup {None}]]
    BY <2>1 DEF Published
  <2>a. SnapOK(d, s)' BY <1>2, <2>3
  <2>b. \A k \in 1..Len(chain[d]) : k \in 1..MaxSeq /\ k # n BY <1>3, <2>3
  <2>4. Kept(d) BY <1>3, <2>3, <2>b DEF Kept
  <2>5. \A k \in 1..Len(chain'[d]) : chain'[d][k].seq = k /\ SnapOK(d, chain[d][k])'
    <3> SUFFICES ASSUME NEW k \in 1..n PROVE chain'[d][k].seq = k /\ SnapOK(d, chain[d][k])'
      BY <2>3
    <3>1. CASE k = n BY <2>3, <2>a, <3>1
    <3>2. CASE k # n
      <4>1. k \in 1..Len(chain[d]) BY <1>3, <2>3, <3>2
      <4>2. chain[d][k].seq = k /\ SnapOK(d, chain[d][k]) BY <1>1, <4>1 DEF DeployedAt
      <4>3. chain'[d][k] = chain[d][k] BY <2>3, <4>1
      <4> QED BY <1>2, <4>2, <4>3
    <3> QED BY <3>1, <3>2
  <2>6. \A k \in 1..MaxSeq : shelf'[d][k] # None => k <= Len(chain'[d]) /\ SnapOK(d, shelf[d][k])'
    <3> SUFFICES ASSUME NEW k \in 1..MaxSeq, shelf'[d][k] # None
                 PROVE  k <= n /\ SnapOK(d, shelf[d][k])'
      BY <2>3
    <3>1. CASE k = n BY <2>3, <2>a, <3>1
    <3>2. CASE k # n
      <4>1. shelf'[d][k] = shelf[d][k] BY <2>3, <3>2
      <4>2. k <= Len(chain[d]) /\ SnapOK(d, shelf[d][k]) BY <1>1, <4>1 DEF DeployedAt
      <4> QED BY <1>2, <1>3, <2>3, <4>1, <4>2
    <3> QED BY <3>1, <3>2
  <2> QED BY <1>3, <2>3, <2>4, <2>5, <2>6 DEF DeployedAt
<1>7. CASE Equivocate(d)
  <2>1. PICK n, t : Equivocated(d, n, t) BY <1>7, EquivocateSteps
  <2>4. /\ n = Len(chain[d]) /\ n \in Nat \ {0} /\ Len(chain'[d]) = n /\ chain'[d][n] = t
        /\ t.seq = n /\ SnapOK(d, t)' /\ t.exp = chain[d][n].exp /\ t.gen = chain[d][n].gen
        /\ \A k \in 1..(n - 1) : chain'[d][k] = chain[d][k]
        /\ chain' \in [Catalogs -> Seq(SnapshotSet)] /\ shelf' = shelf
    BY <2>1 DEF Equivocated
  <2>5. Kept(d) BY <1>3, <2>4 DEF Kept
  <2>6. \A k \in 1..Len(chain'[d]) : chain'[d][k].seq = k /\ SnapOK(d, chain[d][k])'
    BY <1>1, <1>2, <1>3, <2>4 DEF DeployedAt
  <2>7. \A k \in 1..MaxSeq : shelf'[d][k] # None => k <= Len(chain'[d]) /\ SnapOK(d, shelf[d][k])'
    BY <1>1, <1>2, <2>4 DEF DeployedAt
  <2> QED BY <1>1, <1>3, <2>4, <2>5, <2>6, <2>7 DEF DeployedAt
<1>8. CASE Prune(d)
  <2>1. /\ chain' = chain
        /\ shelf' = [shelf EXCEPT ![d] =
             [k \in 1..MaxSeq |->
                IF k < Len(chain[d]) /\ chain[d][k].exp <= now THEN None ELSE shelf[d][k]]]
    BY <1>8 DEF Prune
  <2>2. shelf'[d] = [k \in 1..MaxSeq |->
                IF k < Len(chain[d]) /\ chain[d][k].exp <= now THEN None ELSE shelf[d][k]]
    BY <1>4, <2>1
  <2>3. shelf'[d] \in [1..MaxSeq -> SnapshotSet \cup {None}]
    BY <1>4, <2>2
  <2>4. \A k \in 1..MaxSeq : shelf'[d][k] \in {None, shelf[d][k]}
    BY <2>2
  <2> QED BY <1>1, <2>1, <2>3, <2>4, ShelfOnly
<1>9. ASSUME NEW k \in 1..Len(chain[d]), Drop(d, k)
      PROVE  Kept(d) /\ DeployedAt(d)'
  <2>1. chain' = chain /\ shelf' = [shelf EXCEPT ![d][k] = None] BY <1>9 DEF Drop
  <2>2. /\ shelf'[d] \in [1..MaxSeq -> SnapshotSet \cup {None}]
        /\ \A j \in 1..MaxSeq : shelf'[d][j] \in {None, shelf[d][j]}
    BY <1>4, <2>1
  <2> QED BY <1>1, <2>1, <2>2, ShelfOnly
<1>10. ASSUME NEW k \in 1..Len(chain[d]), NEW s \in {Last(chain[d]), Twin(chain[d][k])}, Replace(d, k, s)
       PROVE  Kept(d) /\ DeployedAt(d)'
  <2>1. /\ chain' = chain /\ shelf' = [shelf EXCEPT ![d][k] = s] /\ shelf[d][k] # None
        /\ wrongs' = wrongs \cup {<<IF s.seq = k THEN "forked" ELSE "misplaced", d, k, phase = "run">>}
    BY <1>10 DEF Replace, Wrong
  <2>2. k \in 1..MaxSeq BY <1>3
  <2>3. SnapOK(d, s)'
    <3>1. CASE s = Last(chain[d]) BY <1>2, <3>1, ChainLast
    <3>2. CASE s = Twin(chain[d][k])
      <4>1. PICK t : t = chain[d][k] OBVIOUS
      <4>2. t.seq = k /\ SnapOK(d, t) /\ t \in SnapshotSet BY <1>1, <4>1 DEF DeployedAt, SnapOK
      <4>3. /\ s \in SnapshotSet /\ s.cat = t.cat /\ s.seq = t.seq /\ s.prev = t.prev
        BY <3>2, <4>1, <4>2, TwinTyped
      <4>4. <<"forked", d, k, phase = "run">> \in wrongs' /\ (phase = "run") \in BOOLEAN
        BY <2>1, <4>2, <4>3
      <4>5. Forked(d, k)' BY <4>4, Zenon DEF Forked
      <4>6. SnapOK(d, t)' BY <1>2, <4>2
      <4> QED BY <4>2, <4>3, <4>5, <4>6 DEF SnapOK
    <3> QED BY <3>1, <3>2
  <2>4. s \in SnapshotSet BY <2>3 DEF SnapOK
  <2>5. /\ shelf'[d] \in [1..MaxSeq -> SnapshotSet \cup {None}]
        /\ \A j \in 1..MaxSeq : shelf'[d][j] = IF j = k THEN s ELSE shelf[d][j]
    BY <1>4, <2>1, <2>2, <2>4
  <2> QED BY <1>1, <2>1, <2>3, <2>5, ShelfOnly
<1> QED BY <1>5, <1>6, <1>7, <1>8, <1>9, <1>10, ProviderSteps

LEMMA DeployedStep == Deployed /\ [Next]_vars => Deployed'
<1> SUFFICES ASSUME Deployed, [Next]_vars PROVE Deployed' OBVIOUS
<1>1. CASE UNCHANGED <<now, ver, policy, chain, shelf, wrongs, changes>>
  <2>1. ASSUME NEW c, NEW s, SnapOK(c, s) PROVE SnapOK(c, s)' BY <1>1, <2>1, WrongsGrow
  <2>2. \A d \in Catalogs : DeployedAt(d) BY DeployedSplit
  <2>3. \A d \in Catalogs : DeployedAt(d)' BY <1>1, <2>1, <2>2 DEF DeployedAt
  <2> QED BY <1>1, <2>3 DEF Deployed, DeployedAt
<1>2. CASE ProviderNext
  <2>1. \A d \in Catalogs : DeployedAt(d)' BY <1>2, ProviderDeploys
  <2>2. changes' \in Nat BY <1>2, ProviderKeeps DEF Deployed
  <2>3. /\ now' \in Nat /\ now' <= MaxTime /\ ver' \in Nat /\ policy' \in [Catalogs -> Nat]
        /\ chain' = [c \in Catalogs |-> chain'[c]] /\ shelf' = [c \in Catalogs |-> shelf'[c]]
    <3>1. CASE Tick BY <3>1, CatalogsFacts DEF Tick, Deployed
    <3>2. CASE \E cs \in SUBSET Busy : Redeclare(cs)
      BY <3>2 DEF Redeclare, Deployed
    <3>3. CASE ~Tick /\ ~\E cs \in SUBSET Busy : Redeclare(cs)
      BY <1>2, <3>3 DEF ProviderNext, Publish, Prune, Equivocate, Drop, Replace, Deployed
    <3> QED BY <3>1, <3>2, <3>3
  <2> QED BY <2>1, <2>2, <2>3 DEF Deployed, DeployedAt
<1> QED BY <1>1, <1>2, RunKeeps DEF Next, Over, vars, deployment

-------------------------------------------------------------------------------
(* Positions in the manifest's order.                                         *)
LEMMA PositionIs ==
    ASSUME NEW c \in Catalogs
    PROVE  Position(c) \in DOMAIN Order /\ Position(c) \in Nat \ {0} /\ Order[Position(c)] = c
<1>1. \E i \in DOMAIN Order : Order[i] = c
  BY DEF Catalogs, ToSet
<1>2. Order \in Seq(Catalogs) BY ConformanceAssumption
<1>3. Position(c) \in DOMAIN Order /\ Order[Position(c)] = c
  BY <1>1 DEF Position
<1>4. DOMAIN Order = 1..Len(Order) /\ Len(Order) \in Nat BY <1>2
<1> QED BY <1>3, <1>4

LEMMA LeastNat ==
    ASSUME NEW S, S \subseteq Nat, S # {}
    PROVE  \E m \in S : \A n \in S : m <= n
<1>1. IsWellFoundedOn(OpToRel(<, Nat), Nat) BY NatLessThanWellFounded
<1>2. PICK m \in S : \A n \in S : ~(<<n, m>> \in OpToRel(<, Nat))
  BY <1>1, WFMin
<1>3. \A n \in S : ~(n < m) BY <1>2 DEF OpToRel
<1> QED BY <1>3

(* The next catalog is the first public one that is left.                     *)
LEMMA FollowingIs ==
    ASSUME NEW i \in Nat
    PROVE  \/ Following(i) = <<"entries">> /\ \A e \in Public : Position(e) <= i
           \/ \E d \in Public : /\ Following(i) = <<"policy", d>> /\ Position(d) > i
                                /\ \A e \in Public : Position(e) > i => Position(d) <= Position(e)
<1> DEFINE rest == {j \in DOMAIN Order : j > i /\ Order[j] \in Public}
<1>0. DOMAIN Order \subseteq Nat
  <2>1. Order \in Seq(Catalogs) BY ConformanceAssumption
  <2> QED BY <2>1
<1>1. \A e \in Public : e \in Catalogs BY DEF Public, Decoded
<1>2. ASSUME NEW e \in Public, Position(e) > i PROVE Position(e) \in rest
  BY <1>1, <1>2, PositionIs
<1>3. CASE rest = {}
  <2>1. Following(i) = <<"entries">> BY <1>3 DEF Following
  <2>2. \A e \in Public : Position(e) <= i
    BY <1>1, <1>2, <1>3, PositionIs
  <2> QED BY <2>1, <2>2
<1>4. CASE rest # {}
  <2>1. \E j \in rest : \A l \in rest : j <= l BY <1>0, <1>4, LeastNat
  <2>2. PICK j \in rest : /\ j = CHOOSE m \in rest : \A l \in rest : m <= l
                          /\ \A l \in rest : j <= l
    BY <2>1
  <2>3. Following(i) = <<"policy", Order[j]>> BY <1>4, <2>2 DEF Following
  <2>4. Order[j] \in Public /\ j > i /\ j \in DOMAIN Order OBVIOUS
  <2>5. Position(Order[j]) = j
    <3>1. Order[Position(Order[j])] = Order[j] /\ Position(Order[j]) \in DOMAIN Order
      BY <1>1, <2>4, PositionIs
    <3> QED BY <2>4, <3>1, ConformanceAssumption
  <2>6. \A e \in Public : Position(e) > i => Position(Order[j]) <= Position(e)
    BY <1>2, <2>2, <2>5
  <2> QED BY <2>3, <2>4, <2>5, <2>6
<1> QED BY <1>3, <1>4

-------------------------------------------------------------------------------
(* What a fetch returns.                                                      *)
LEMMA StateIs ==
    ASSUME NEW r, NEW opt \in BOOLEAN
    PROVE  /\ State(r, opt) = "ok" <=> r.st = "200"
           /\ State(r, opt) = "unknown" <=> r.st \in {"lost", "spent", "5xx", "off-policy"}
           /\ State(r, opt) \in {"ok", "unknown", "absent", "refused"}
           /\ State(r, FALSE) = "absent" <=> r.st = "404"
           /\ State(r, TRUE) = "absent" <=> r.st \in {"404", "403"}
BY DEF State

LEMMA GetIs ==
    ASSUME NEW u, NEW r, Get(u, r)
    PROVE  /\ DOMAIN got' = DOMAIN got \cup {u} /\ got'[u] = r
           /\ \A v \in DOMAIN got : got'[v] = got[v]
           /\ u \notin DOMAIN got =>
                \/ r = Served(u) /\ ~Late
                \/ r \in {Answer("lost"), Answer("spent")}
BY DEF Get

LEMMA ServedIs ==
    ASSUME NEW u
    PROVE  \/ \E st \in Statuses : <<u, st>> \in flaws /\ Served(u) = Answer(st)
           \/ /\ ~Bad(u, Statuses)
              /\ u = M => Served(u) = Ok([ver |-> ver, policy |-> policy])
              /\ u = <<"manifest.sig">> => Served(u) = Ok(ver)
              /\ u = <<"privacy">> => Served(u) = Ok(None)
              /\ \A c : u = <<"policy", c>> => Served(u) = Ok(policy[c])
              /\ \A c : u = <<"latest", c>> => Served(u) = Ok(Last(chain[c]))
              /\ \A c : u = <<"latest.sig", c>> => Served(u) = Ok(Digest(Last(chain[c])))
              /\ \A c, k : u = <<"sibling", c, k>> =>
                   Served(u) = Filed(shelf[c][k], shelf[c][k])
              /\ \A c, k : u = <<"sibling.sig", c, k>> =>
                   Served(u) = Filed(shelf[c][k], Digest(shelf[c][k]))
              /\ \A x : u = <<"dest", x>> => Served(u) = Ok(None)
<1>1. CASE Bad(u, Statuses)
  <2>1. \E st \in Statuses : <<u, st>> \in flaws BY <1>1 DEF Bad
  <2>2. Served(u) = Answer(CHOOSE st \in Statuses : <<u, st>> \in flaws) BY <1>1 DEF Served
  <2> QED BY <2>1, <2>2
<1>2. CASE ~Bad(u, Statuses)
  <2>1. ASSUME u = M
        PROVE  Served(u) = Ok([ver |-> ver, policy |-> policy])
    <3>1. u[1] = "manifest" BY <2>1 DEF M
    <3> QED BY <1>2, <3>1 DEF Served, Body, Filed
  <2>2. ASSUME u = <<"manifest.sig">>
        PROVE  Served(u) = Ok(ver)
    <3>1. u[1] = "manifest.sig" BY <2>2 DEF M
    <3> QED BY <1>2, <3>1 DEF Served, Body, Filed
  <2>3. ASSUME u = <<"privacy">>
        PROVE  Served(u) = Ok(None)
    <3>1. u[1] = "privacy" BY <2>3 DEF M
    <3> QED BY <1>2, <3>1 DEF Served, Body, Filed
  <2>4. ASSUME NEW c, u = <<"policy", c>>
        PROVE  Served(u) = Ok(policy[c])
    <3>1. u[1] = "policy" /\ u[2] = c BY <2>4 DEF M
    <3> QED BY <1>2, <3>1 DEF Served, Body, Filed
  <2>5. ASSUME NEW c, u = <<"latest", c>>
        PROVE  Served(u) = Ok(Last(chain[c]))
    <3>1. u[1] = "latest" /\ u[2] = c BY <2>5 DEF M
    <3> QED BY <1>2, <3>1 DEF Served, Body, Filed
  <2>6. ASSUME NEW c, u = <<"latest.sig", c>>
        PROVE  Served(u) = Ok(Digest(Last(chain[c])))
    <3>1. u[1] = "latest.sig" /\ u[2] = c BY <2>6 DEF M
    <3> QED BY <1>2, <3>1 DEF Served, Body, Filed
  <2>7. ASSUME NEW c, NEW k, u = <<"sibling", c, k>>
        PROVE  Served(u) = Filed(shelf[c][k], shelf[c][k])
    <3>1. u[1] = "sibling" /\ u[2] = c /\ u[3] = k BY <2>7 DEF M
    <3> QED BY <1>2, <3>1 DEF Served, Body, Filed
  <2>8. ASSUME NEW c, NEW k, u = <<"sibling.sig", c, k>>
        PROVE  Served(u) = Filed(shelf[c][k], Digest(shelf[c][k]))
    <3>1. u[1] = "sibling.sig" /\ u[2] = c /\ u[3] = k BY <2>8 DEF M
    <3> QED BY <1>2, <3>1 DEF Served, Body, Filed
  <2>9. ASSUME NEW x, u = <<"dest", x>>
        PROVE  Served(u) = Ok(None)
    <3>1. u[1] = "dest" BY <2>9 DEF M
    <3> QED BY <1>2, <3>1 DEF Served, Body, Filed
  <2> QED BY <1>2, <2>1, <2>2, <2>3, <2>4, <2>5, <2>6, <2>7, <2>8, <2>9
<1> QED BY <1>1, <1>2

-------------------------------------------------------------------------------
(* The run, step by step: what is fetched and what the run does next.         *)
Has(u) == u \in DOMAIN got /\ got[u].st = "200"
L(c) == got[<<"latest", c>>].doc
Readable(c) == Has(<<"latest", c>>) /\ ~IsBad(L(c), {"size", "parse"})
Walked(c) == Readable(c) /\ SigOK(L(c)) /\ ~IsBad(L(c), {"no-sequence"})

(* A step fetches u with response r, finds finds and goes on to next.         *)
Fetches(u, r) == Get(u, r) /\ UNCHANGED <<deployment, flaws, phase, at, deadline, budget>>

LEMMA MoveManifest ==
    ASSUME GetManifest
    PROVE  /\ Doing(M)
           /\ \E r : /\ Fetches(M, r)
                     /\ \/ doing' = End
                        \/ /\ doing' = <<"manifest.sig">> /\ r.st = "200" /\ stopped' = stopped
                           /\ ~Bad(M, {"size", "parse"})
<1>1. PICK r : /\ Get(M, r) /\ Running /\ Doing(M)
               /\ \/ doing' = End
                  \/ /\ doing' = <<"manifest.sig">> /\ State(r, FALSE) = "ok" /\ stopped' = stopped
                     /\ ~Bad(M, {"size", "parse"})
  BY DEF GetManifest, Go, Stop
<1> QED BY <1>1, StateIs DEF Fetches, Running

LEMMA MoveManifestSig ==
    ASSUME GetManifestSig
    PROVE  LET u == <<"manifest.sig">>
           IN  /\ Doing(u)
               /\ \E r : /\ Fetches(u, r)
                         /\ \/ doing' = End
                            \/ /\ stopped' = stopped /\ ~Bad(M, {"key", "unsigned", "signature"})
                               /\ \/ doing' = <<"privacy">> /\ ~Bad(M, {"privacy-missing", "privacy-uri"})
                                  \/ doing' = AfterPrivacy /\ Bad(M, {"privacy-missing", "privacy-uri"})
<1> DEFINE u == <<"manifest.sig">>
<1>1. PICK r : /\ Get(u, r) /\ Running /\ Doing(u)
               /\ \/ \E finds : Stop(finds)
                  \/ /\ ~Bad(M, {"key", "unsigned", "signature"})
                     /\ \E finds : Go(finds, IF Bad(M, {"privacy-missing", "privacy-uri"})
                                           THEN AfterPrivacy ELSE <<"privacy">>)
                  \/ /\ ~Bad(M, {"key", "unsigned", "signature", "catalogs"})
                     /\ \E finds : Go(finds, IF Bad(M, {"privacy-missing", "privacy-uri"})
                                           THEN AfterPrivacy ELSE <<"privacy">>)
  BY Zenon DEF GetManifestSig
<1>2. ~Bad(M, {"key", "unsigned", "signature", "catalogs"}) => ~Bad(M, {"key", "unsigned", "signature"})
  BY DEF Bad
<1>3. \/ doing' = End
      \/ /\ ~Bad(M, {"key", "unsigned", "signature"}) /\ stopped' = stopped
         /\ doing' = IF Bad(M, {"privacy-missing", "privacy-uri"}) THEN AfterPrivacy ELSE <<"privacy">>
  BY <1>1, <1>2 DEF Go, Stop
<1> QED BY <1>1, <1>3 DEF Fetches, Running

LEMMA MovePrivacy ==
    ASSUME GetPrivacy
    PROVE  /\ Doing(<<"privacy">>)
           /\ \E r : Fetches(<<"privacy">>, r) /\ doing' = AfterPrivacy /\ stopped' = stopped
BY DEF GetPrivacy, Go, Fetches, Running

LEMMA MovePolicy ==
    ASSUME NEW c, GetPolicy(c)
    PROVE  /\ Doing(<<"policy", c>>)
           /\ \E r : Fetches(<<"policy", c>>, r) /\ doing' = <<"latest", c>> /\ stopped' = stopped
BY DEF GetPolicy, Go, Fetches, Running

LEMMA MoveLatest ==
    ASSUME NEW c, GetLatest(c)
    PROVE  /\ Doing(<<"latest", c>>)
           /\ \E r : /\ Fetches(<<"latest", c>>, r) /\ stopped' = stopped
                     /\ \/ doing' = NextCatalog(c)
                        \/ doing' = <<"latest.sig", c>> /\ r.st = "200" /\ ~IsBad(r.doc, {"size", "parse"})
<1>1. PICK r : /\ Get(<<"latest", c>>, r) /\ Running /\ Doing(<<"latest", c>>) /\ stopped' = stopped
               /\ \/ doing' = NextCatalog(c)
                  \/ /\ doing' = <<"latest.sig", c>> /\ State(r, FALSE) = "ok"
                     /\ ~IsBad(r.doc, {"size", "parse"})
  BY DEF GetLatest, Go
<1> QED BY <1>1, StateIs DEF Fetches, Running

LEMMA MoveLatestSig ==
    ASSUME NEW c, GetLatestSig(c)
    PROVE  /\ Doing(<<"latest.sig", c>>)
           /\ \E r : /\ Fetches(<<"latest.sig", c>>, r) /\ stopped' = stopped
                     /\ \/ /\ doing' = NextCatalog(c) /\ ~SigOK(L(c))
                        \/ /\ doing' = NextCatalog(c) /\ SigOK(L(c)) /\ IsBad(L(c), {"no-sequence"})
                        \/ /\ doing' = <<"newest", c>> /\ SigOK(L(c)) /\ ~IsBad(L(c), {"no-sequence"})
BY DEF GetLatestSig, Go, Fetches, Running, L

LEMMA MoveNewest ==
    ASSUME NEW c, GetNewest(c)
    PROVE  /\ Doing(<<"newest", c>>)
           /\ \E r : /\ Fetches(<<"sibling", c, L(c).seq>>, r) /\ stopped' = stopped
                     /\ doing' = IF L(c).seq <= 1 THEN NextCatalog(c) ELSE Walk(c, L(c).seq, L(c).seq)
BY DEF GetNewest, Go, Fetches, Running, L

LEMMA MoveSibling ==
    ASSUME NEW c, NEW k, GetSibling(c, k)
    PROVE  /\ Doing(<<"sibling", c, k>>)
           /\ \E r : /\ Fetches(<<"sibling", c, k>>, r) /\ stopped' = stopped
                     /\ \/ doing' = Walk(c, L(c).seq, k)
                        \/ doing' = <<"sibling.sig", c, k>> /\ r.st = "200" /\ ~IsBad(r.doc, {"size"})
<1>1. PICK r : /\ Get(<<"sibling", c, k>>, r) /\ Running /\ Doing(<<"sibling", c, k>>) /\ stopped' = stopped
               /\ \/ doing' = Walk(c, L(c).seq, k)
                  \/ /\ doing' = <<"sibling.sig", c, k>> /\ State(r, TRUE) = "ok"
                     /\ ~IsBad(r.doc, {"size"})
  BY DEF GetSibling, Go, L
<1> QED BY <1>1, StateIs DEF Fetches, Running

LEMMA MoveSiblingSig ==
    ASSUME NEW c, NEW k, GetSiblingSig(c, k)
    PROVE  /\ Doing(<<"sibling.sig", c, k>>)
           /\ \E r : /\ Fetches(<<"sibling.sig", c, k>>, r) /\ stopped' = stopped
                     /\ doing' = Walk(c, L(c).seq, k)
BY DEF GetSiblingSig, Go, Fetches, Running, L

LEMMA MoveChain ==
    ASSUME NEW c, CheckChain(c)
    PROVE  /\ Doing(<<"chain", c>>) /\ Running /\ got' = got
           /\ doing' = NextCatalog(c) /\ stopped' = stopped
BY DEF CheckChain, Go

LEMMA MoveEntries ==
    ASSUME ExamineEntries
    PROVE  /\ Doing(<<"entries">>) /\ Running /\ got' = got /\ stopped' = stopped
           /\ doing' = Presenting(UNION {{<<c, x>> : x \in Decodable(c)} :
                                           c \in {d \in Verified : ~Unfetched(d)}})
BY DEF ExamineEntries, Go

LEMMA MoveDest ==
    ASSUME NEW x, NEW c, GetDest(x, c)
    PROVE  /\ phase = "run" /\ doing[1] = "dests" /\ <<c, x>> \in doing[2]
           /\ \E r : Fetches(<<"dest", x>>, r) /\ stopped' = stopped /\ doing' = Presenting(doing[2] \ {<<c, x>>})
BY DEF GetDest, Go, Fetches, Running

(* What may be fetched, and what a response of each kind carries.             *)
Uris ==
    {M, <<"manifest.sig">>, <<"privacy">>}
      \cup {<<kind, c>> : kind \in {"policy", "latest", "latest.sig"}, c \in Catalogs}
      \cup {<<kind, c, k>> : kind \in {"sibling", "sibling.sig"}, c \in Catalogs, k \in 1..MaxSeq}
      \cup {<<"dest", x>> : x \in Components}
Reply == Statuses \cup {"200", "lost", "spent"}

FetchInv ==
    /\ DOMAIN got \subseteq Uris
    /\ \A u \in DOMAIN got : got[u].st \in Reply
    /\ \A c \in Catalogs : Has(<<"latest", c>>) => SnapOK(c, L(c)) /\ L(c).seq \in 1..Len(chain[c])
    /\ \A c \in Catalogs, k \in 1..MaxSeq : <<"sibling", c, k>> \in DOMAIN got =>
         k <= Len(chain[c]) /\ (Has(<<"sibling", c, k>>) => SnapOK(c, got[<<"sibling", c, k>>].doc))

LEMMA ServedReply ==
    ASSUME NEW u \in Uris
    PROVE  Served(u).st \in Statuses \cup {"200"}
<1>1. \A st : Answer(st).st = st BY DEF Answer
<1>2. \A doc : Ok(doc).st = "200" BY DEF Ok
<1>3. \A s, doc : Filed(s, doc).st \in {"404", "200"} BY <1>1, <1>2 DEF Filed
<1>4. "404" \in Statuses BY DEF Statuses
<1>5. CASE \E st \in Statuses : Served(u) = Answer(st) BY <1>1, <1>5
<1>6. ASSUME NEW d, Served(u) = Ok(d) PROVE Served(u).st = "200" BY <1>2, <1>6
<1>7. ASSUME NEW s, NEW d, Served(u) = Filed(s, d) PROVE Served(u).st \in Statuses \cup {"200"}
  BY <1>3, <1>4, <1>7
<1>8. CASE u \in {M, <<"manifest.sig">>, <<"privacy">>} BY <1>5, <1>6, <1>8, ServedIs
<1>9. ASSUME NEW c, u \in {<<"policy", c>>, <<"latest", c>>, <<"latest.sig", c>>}
      PROVE  Served(u).st \in Statuses \cup {"200"}
  BY <1>5, <1>6, <1>9, ServedIs
<1>10. ASSUME NEW c, NEW k, u \in {<<"sibling", c, k>>, <<"sibling.sig", c, k>>}
       PROVE  Served(u).st \in Statuses \cup {"200"}
  <2>1. u = <<"sibling", c, k>> \/ u = <<"sibling.sig", c, k>> BY <1>10
  <2>2. CASE \E s, d : Served(u) = Filed(s, d) BY <1>7, <2>2
  <2>3. (\E st \in Statuses : Served(u) = Answer(st)) \/ (\E s, d : Served(u) = Filed(s, d))
    <3>1. CASE u = <<"sibling", c, k>>
      <4>1. \/ \E st \in Statuses : Served(u) = Answer(st)
            \/ Served(u) = Filed(shelf[c][k], shelf[c][k])
        BY <3>1, ServedIs
      <4> QED BY <4>1
    <3>2. CASE u = <<"sibling.sig", c, k>>
      <4>1. \/ \E st \in Statuses : Served(u) = Answer(st)
            \/ Served(u) = Filed(shelf[c][k], Digest(shelf[c][k]))
        BY <3>2, ServedIs
      <4> QED BY <4>1
    <3> QED BY <2>1, <3>1, <3>2
  <2> QED BY <1>5, <2>2, <2>3
<1>11. ASSUME NEW x, u = <<"dest", x>> PROVE Served(u).st \in Statuses \cup {"200"}
  BY <1>5, <1>6, <1>11, ServedIs
<1> QED BY <1>8, <1>9, <1>10, <1>11 DEF Uris

LEMMA ServedSnapshot ==
    ASSUME Deployed, NEW c \in Catalogs
    PROVE  /\ LET r == Served(<<"latest", c>>)
              IN  r.st = "200" => r.doc = Last(chain[c]) /\ SnapOK(c, r.doc) /\ r.doc.seq = Len(chain[c])
           /\ \A k \in 1..MaxSeq :
                LET r == Served(<<"sibling", c, k>>)
                IN  r.st = "200" => r.doc = shelf[c][k] /\ r.doc # None /\ SnapOK(c, r.doc)
<1>1. \A st : Answer(st).st = st BY DEF Answer
<1>2. \A doc : Ok(doc).st = "200" /\ Ok(doc).doc = doc BY DEF Ok
<1>3. \A st \in Statuses : st # "200" BY DEF Statuses
<1>4. LET r == Served(<<"latest", c>>)
      IN  r.st = "200" => r.doc = Last(chain[c]) /\ SnapOK(c, r.doc) /\ r.doc.seq = Len(chain[c])
  <2>1. \/ \E st \in Statuses : Served(<<"latest", c>>) = Answer(st)
        \/ Served(<<"latest", c>>) = Ok(Last(chain[c]))
    BY ServedIs
  <2>2. SnapOK(c, Last(chain[c])) /\ Last(chain[c]).seq = Len(chain[c]) BY ChainLast
  <2> QED BY <1>1, <1>2, <1>3, <2>1, <2>2
<1>5. ASSUME NEW k \in 1..MaxSeq, Served(<<"sibling", c, k>>).st = "200"
      PROVE  /\ Served(<<"sibling", c, k>>).doc = shelf[c][k] /\ shelf[c][k] # None
             /\ SnapOK(c, shelf[c][k])
  <2>1. Served(<<"sibling", c, k>>) = Filed(shelf[c][k], shelf[c][k])
    BY <1>1, <1>3, <1>5, ServedIs
  <2>2. shelf[c][k] # None /\ Served(<<"sibling", c, k>>) = Ok(shelf[c][k])
    BY <1>1, <1>5, <2>1 DEF Filed
  <2> QED BY <1>2, <2>2 DEF Deployed
<1> QED BY <1>4, <1>5

LEMMA FetchStep ==
    ASSUME Deployed, FetchInv, NEW u \in Uris, NEW r, Fetches(u, r),
           \A c, k : u = <<"sibling", c, k>> => k <= Len(chain[c])
    PROVE  FetchInv'
<1>1. /\ DOMAIN got' = DOMAIN got \cup {u} /\ got'[u] = r
      /\ \A v \in DOMAIN got : got'[v] = got[v]
      /\ u \notin DOMAIN got => r = Served(u) \/ r \in {Answer("lost"), Answer("spent")}
  BY GetIs DEF Fetches
<1>2. chain' = chain /\ wrongs' = wrongs BY DEF Fetches, deployment
<1>3. \A c, s : SnapOK(c, s) => SnapOK(c, s)' BY <1>2 DEF SnapOK, Forked
<1>4. Answer("lost").st = "lost" /\ Answer("spent").st = "spent" BY DEF Answer
<1>5. \A v \in DOMAIN got' : got'[v].st \in Reply
  BY <1>1, <1>4, ServedReply DEF FetchInv, Reply
<1>6. ASSUME NEW c \in Catalogs, Has(<<"latest", c>>)'
      PROVE  (SnapOK(c, L(c)) /\ L(c).seq \in 1..Len(chain[c]))'
  <2>1. CASE <<"latest", c>> \in DOMAIN got
    <3>1. Has(<<"latest", c>>) /\ L(c)' = L(c) BY <1>1, <1>6, <2>1 DEF Has, L
    <3>2. PICK s : s = L(c) OBVIOUS
    <3>3. SnapOK(c, s) /\ s.seq \in 1..Len(chain[c]) BY <3>1, <3>2 DEF FetchInv
    <3>4. SnapOK(c, s)' BY <1>3, <3>3
    <3> QED BY <1>2, <3>1, <3>2, <3>3, <3>4 DEF SnapOK
  <2>2. CASE <<"latest", c>> \notin DOMAIN got
    <3>1. u = <<"latest", c>> /\ r.st = "200" /\ L(c)' = r.doc BY <1>1, <1>6, <2>2 DEF Has, L
    <3>2. r = Served(u) BY <1>1, <1>4, <2>2, <3>1
    <3>3. SnapOK(c, r.doc) /\ r.doc.seq = Len(chain[c]) BY <3>1, <3>2, ServedSnapshot
    <3>4. Len(chain[c]) \in 1..Len(chain[c]) BY ChainRange
    <3> QED BY <1>2, <3>1, <3>3, <3>4 DEF SnapOK, Forked
  <2> QED BY <2>1, <2>2
<1>7. ASSUME NEW c \in Catalogs, NEW k \in 1..MaxSeq, <<"sibling", c, k>> \in DOMAIN got'
      PROVE  (k <= Len(chain[c]) /\ (Has(<<"sibling", c, k>>) => SnapOK(c, got[<<"sibling", c, k>>].doc)))'
  <2>1. CASE <<"sibling", c, k>> \in DOMAIN got
    <3>1. got'[<<"sibling", c, k>>] = got[<<"sibling", c, k>>] BY <1>1, <2>1
    <3> QED BY <1>2, <2>1, <3>1 DEF FetchInv, SnapOK, Forked, Has
  <2>2. CASE <<"sibling", c, k>> \notin DOMAIN got
    <3>1. u = <<"sibling", c, k>> /\ got'[u] = r BY <1>1, <1>7, <2>2
    <3>2. r.st = "200" => r = Served(u) BY <1>1, <1>4, <2>2, <3>1
    <3>3. r.st = "200" => SnapOK(c, r.doc) BY <3>1, <3>2, ServedSnapshot
    <3>4. k <= Len(chain[c]) BY <3>1
    <3> QED BY <1>2, <3>1, <3>3, <3>4 DEF SnapOK, Forked, Has
  <2> QED BY <2>1, <2>2
<1>8. DOMAIN got' \subseteq Uris BY <1>1 DEF FetchInv
<1> QED BY <1>5, <1>6, <1>7, <1>8 DEF FetchInv

LEMMA FetchProvider ==
    ASSUME Deployed, FetchInv, ProviderNext
    PROVE  FetchInv'
<1>1. got' = got /\ wrongs \subseteq wrongs' BY ProviderKeeps
<1>2. \A c, s : SnapOK(c, s) => SnapOK(c, s)'
  <2> TAKE c, s
  <2> QED BY <1>1, WrongsGrow
<1>3. \A c \in Catalogs : Len(chain[c]) \in Nat /\ Len(chain'[c]) \in Nat /\ Len(chain[c]) <= Len(chain'[c])
  <2> TAKE c \in Catalogs
  <2>1. Kept(c) /\ DeployedAt(c)' BY ProviderDeploys
  <2> QED BY <2>1, ChainRange DEF Kept, DeployedAt
<1>4. ASSUME NEW c \in Catalogs, Has(<<"latest", c>>)'
      PROVE  (SnapOK(c, L(c)) /\ L(c).seq \in 1..Len(chain[c]))'
  <2>1. SnapOK(c, L(c)) /\ L(c).seq \in 1..Len(chain[c]) /\ L(c)' = L(c)
    BY <1>1, <1>4 DEF FetchInv, Has, L
  <2>2. PICK s : s = L(c) OBVIOUS
  <2>3. SnapOK(c, s)' BY <1>2, <2>1, <2>2
  <2> QED BY <1>3, <2>1, <2>2, <2>3 DEF SnapOK
<1>5. ASSUME NEW c \in Catalogs, NEW k \in 1..MaxSeq, <<"sibling", c, k>> \in DOMAIN got'
      PROVE  (k <= Len(chain[c]) /\ (Has(<<"sibling", c, k>>) => SnapOK(c, got[<<"sibling", c, k>>].doc)))'
  <2>1. PICK s : s = got[<<"sibling", c, k>>].doc OBVIOUS
  <2>2. k <= Len(chain[c]) /\ (Has(<<"sibling", c, k>>) => SnapOK(c, s)) BY <1>1, <1>5, <2>1 DEF FetchInv
  <2>3. SnapOK(c, s) => SnapOK(c, s)' BY <1>2
  <2>4. k \in Nat BY CatalogsFacts
  <2> QED BY <1>1, <1>3, <2>1, <2>2, <2>3, <2>4 DEF Has, SnapOK
<1> QED BY <1>1, <1>4, <1>5 DEF FetchInv

-------------------------------------------------------------------------------
(* Where the run is: what it has fetched by the time it does a task.          *)
CatalogKinds == {"policy", "latest", "latest.sig", "newest", "sibling", "sibling.sig", "chain"}
SpotOf(t) ==
    IF t[1] \in {"manifest", "manifest.sig", "privacy"} THEN 0
    ELSE IF t[1] \in CatalogKinds THEN Position(t[2])
    ELSE Len(Order) + 1
Unwalked(c) == \A k : <<"sibling", c, k>> \notin DOMAIN got
Unseen(c) == <<"latest", c>> \notin DOMAIN got /\ Unwalked(c)

Before(c, k) ==
    /\ Walked(c) /\ L(c).seq > 1 /\ k \in Lowest(L(c).seq)..(L(c).seq - 1)
    /\ \A j \in (k + 1)..(L(c).seq - 1) : <<"sibling", c, j>> \in DOMAIN got
    /\ \A j \in 1..(k - 1) : <<"sibling", c, j>> \notin DOMAIN got
WalkDone(c) ==
    /\ Walked(c) /\ L(c).seq > 1
    /\ \A j \in Lowest(L(c).seq)..(L(c).seq - 1) : <<"sibling", c, j>> \in DOMAIN got

TaskOf(c) ==
    \/ doing \in {<<"policy", c>>, <<"latest", c>>} /\ Unseen(c)
    \/ doing = <<"latest.sig", c>> /\ Readable(c) /\ Unwalked(c)
    \/ doing = <<"newest", c>> /\ Walked(c) /\ Unwalked(c)
    \/ \E k \in 1..MaxSeq : /\ doing = <<"sibling", c, k>> /\ Before(c, k)
                            /\ <<"sibling", c, k>> \notin DOMAIN got
    \/ \E k \in 1..MaxSeq : /\ doing = <<"sibling.sig", c, k>> /\ Before(c, k)
                            /\ Has(<<"sibling", c, k>>)
                            /\ ~IsBad(got[<<"sibling", c, k>>].doc, {"size"})
    \/ doing = <<"chain", c>> /\ WalkDone(c)
Task ==
    \/ doing \in {M, <<"manifest.sig">>, <<"privacy">>, <<"entries">>, End}
    \/ \E es \in SUBSET (Catalogs \X Components) : doing = <<"dests", es>>
    \/ \E c \in Public : TaskOf(c)

WalkedBack ==
    \A c \in Catalogs, k \in 1..MaxSeq : <<"sibling", c, k>> \in DOMAIN got =>
        c \in Public /\ Walked(c) /\ k \in Lowest(L(c).seq)..L(c).seq

Place ==
    /\ phase \in {"idle", "probed", "run", "done", "refused"}
    /\ phase \in {"idle", "probed", "refused"} =>
         doing = M /\ DOMAIN got = {} /\ found = {} /\ stopped = FALSE
    /\ phase = "done" => doing = End
    /\ doing \notin {M, End} => Has(M)
    /\ Task
    /\ \A c \in Public : SpotOf(doing) < Position(c) => Unseen(c)
    /\ WalkedBack

LEMMA Kinds ==
    /\ SpotOf(M) = 0 /\ SpotOf(<<"manifest.sig">>) = 0 /\ SpotOf(<<"privacy">>) = 0
    /\ SpotOf(<<"entries">>) = Len(Order) + 1 /\ SpotOf(End) = Len(Order) + 1
    /\ \A es : SpotOf(<<"dests", es>>) = Len(Order) + 1
    /\ \A c : /\ SpotOf(<<"policy", c>>) = Position(c) /\ SpotOf(<<"latest", c>>) = Position(c)
              /\ SpotOf(<<"latest.sig", c>>) = Position(c) /\ SpotOf(<<"newest", c>>) = Position(c)
              /\ SpotOf(<<"chain", c>>) = Position(c)
    /\ \A c, k : SpotOf(<<"sibling", c, k>>) = Position(c) /\ SpotOf(<<"sibling.sig", c, k>>) = Position(c)
<1>1. SpotOf(M) = 0 /\ SpotOf(<<"manifest.sig">>) = 0 /\ SpotOf(<<"privacy">>) = 0
  BY DEF SpotOf, M
<1>2. SpotOf(<<"entries">>) = Len(Order) + 1 /\ SpotOf(End) = Len(Order) + 1
  BY DEF SpotOf, End, CatalogKinds
<1>3. \A es : SpotOf(<<"dests", es>>) = Len(Order) + 1
  BY DEF SpotOf, CatalogKinds
<1>4. \A c : /\ SpotOf(<<"policy", c>>) = Position(c) /\ SpotOf(<<"latest", c>>) = Position(c)
             /\ SpotOf(<<"latest.sig", c>>) = Position(c) /\ SpotOf(<<"newest", c>>) = Position(c)
             /\ SpotOf(<<"chain", c>>) = Position(c)
  BY DEF SpotOf, CatalogKinds
<1>5. \A c, k : SpotOf(<<"sibling", c, k>>) = Position(c) /\ SpotOf(<<"sibling.sig", c, k>>) = Position(c)
  BY DEF SpotOf, CatalogKinds
<1> QED BY <1>1, <1>2, <1>3, <1>4, <1>5

LEMMA Spots ==
    /\ Len(Order) \in Nat
    /\ \A c \in Catalogs : Position(c) \in Nat \ {0} /\ Position(c) <= Len(Order)
    /\ \A c, d \in Catalogs : Position(c) = Position(d) => c = d
    /\ Public \subseteq Catalogs
<1>1. Order \in Seq(Catalogs) BY ConformanceAssumption
<1>2. Len(Order) \in Nat /\ DOMAIN Order = 1..Len(Order) BY <1>1
<1>3. \A c \in Catalogs : Position(c) \in 1..Len(Order) /\ Order[Position(c)] = c
  BY <1>2, PositionIs
<1> QED BY <1>2, <1>3 DEF Public, Decoded

(* A fetch leaves what was fetched.                                           *)
LEMMA FetchKeeps ==
    ASSUME NEW u, NEW r, Fetches(u, r)
    PROVE  /\ UNCHANGED <<deployment, flaws, phase, at, deadline, budget>> /\ Public' = Public
           /\ DOMAIN got' = DOMAIN got \cup {u} /\ got'[u] = r
           /\ \A v \in DOMAIN got : got'[v] = got[v] /\ (Has(v) => Has(v)')
           /\ \A c : Readable(c) => Readable(c)' /\ L(c)' = L(c)
           /\ \A c : Walked(c) => Walked(c)' /\ L(c)' = L(c)
<1>1. /\ UNCHANGED <<deployment, flaws, phase, at, deadline, budget>>
      /\ DOMAIN got' = DOMAIN got \cup {u} /\ got'[u] = r
      /\ \A v \in DOMAIN got : got'[v] = got[v]
  BY GetIs DEF Fetches
<1>2. Public' = Public BY <1>1 DEF Public, Decoded, Bad
<1>3. \A v \in DOMAIN got : got'[v] = got[v] /\ (Has(v) => Has(v)') BY <1>1 DEF Has
<1>4. ASSUME NEW c, Readable(c) PROVE Readable(c)' /\ L(c)' = L(c)
  BY <1>1, <1>3, <1>4 DEF Readable, Has, L, IsBad, Bad
<1>5. ASSUME NEW c, Walked(c) PROVE Walked(c)' /\ L(c)' = L(c)
  <2>1. Readable(c)' /\ L(c)' = L(c) BY <1>4, <1>5 DEF Walked
  <2>2. SigOK(L(c)) /\ ~IsBad(L(c), {"no-sequence"}) BY <1>5 DEF Walked
  <2> QED BY <1>1, <2>1, <2>2 DEF Walked, SigOK, IsBad, Bad
<1> QED BY <1>1, <1>2, <1>3, <1>4, <1>5

(* What a step that fetches u must show for the run to be in place after it.  *)
LEMMA PlaceFetch ==
    ASSUME Place, phase = "run", NEW u, NEW r, Fetches(u, r), Task', doing' = End \/ Has(M)',
           doing' # M,
           SpotOf(doing) <= SpotOf(doing'), SpotOf(doing) \in Nat, SpotOf(doing') \in Nat,
           \A d \in Public : SpotOf(doing') < Position(d) =>
               u # <<"latest", d>> /\ \A k : u # <<"sibling", d, k>>,
           \A c, k : u = <<"sibling", c, k>> =>
               c \in Public /\ Walked(c) /\ k \in Lowest(L(c).seq)..L(c).seq
    PROVE  Place'
<1>1. phase' = "run" /\ Public' = Public /\ DOMAIN got' = DOMAIN got \cup {u}
      /\ \A c : Walked(c) => Walked(c)' /\ L(c)' = L(c)
  BY FetchKeeps
<1>2. ASSUME NEW d \in Public, SpotOf(doing') < Position(d) PROVE Unseen(d)'
  <2>1. Position(d) \in Nat BY Spots
  <2>2. SpotOf(doing) < Position(d) BY <1>2, <2>1
  <2>3. Unseen(d) /\ u # <<"latest", d>> /\ \A k : u # <<"sibling", d, k>>
    BY <1>2, <2>2 DEF Place
  <2> QED BY <1>1, <2>3 DEF Unseen, Unwalked
<1>3. WalkedBack'
  <2> SUFFICES ASSUME NEW c \in Catalogs, NEW k \in 1..MaxSeq, <<"sibling", c, k>> \in DOMAIN got'
               PROVE  (c \in Public /\ Walked(c) /\ k \in Lowest(L(c).seq)..L(c).seq)'
    BY DEF WalkedBack
  <2>1. c \in Public /\ Walked(c) /\ k \in Lowest(L(c).seq)..L(c).seq
    BY <1>1 DEF Place, WalkedBack
  <2>2. L(c)' = L(c) /\ Walked(c)' BY <1>1, <2>1
  <2>3. PICK n : n = L(c).seq OBVIOUS
  <2> QED BY <1>1, <2>1, <2>2, <2>3 DEF Lowest
<1> QED BY <1>1, <1>2, <1>3 DEF Place

(* Once a catalog is done with, or before the first, comes the next public    *)
(* one.                                                                       *)
LEMMA GoOn ==
    ASSUME Place, phase = "run", NEW u, NEW r, Fetches(u, r), NEW i \in Nat, i <= Len(Order),
           doing' = Following(i), Has(M)', SpotOf(doing) \in Nat, SpotOf(doing) <= i,
           \A d \in Public : Position(d) > i => u # <<"latest", d>> /\ \A k : u # <<"sibling", d, k>>,
           \A c, k : u = <<"sibling", c, k>> =>
               c \in Public /\ Walked(c) /\ k \in Lowest(L(c).seq)..L(c).seq
    PROVE  Place'
<1>1. Public' = Public /\ DOMAIN got' = DOMAIN got \cup {u} BY FetchKeeps
<1>2. CASE doing' = <<"entries">>
  <2>1. SpotOf(doing') = Len(Order) + 1 BY <1>2, Kinds
  <2>2. Task' BY <1>2 DEF Task
  <2>3. doing' # M BY <1>2 DEF M
  <2>4. \A d \in Public : ~(SpotOf(doing') < Position(d)) BY <2>1, Spots
  <2>5. SpotOf(doing') \in Nat /\ SpotOf(doing) <= SpotOf(doing') BY <2>1, Spots
  <2> QED BY <2>2, <2>3, <2>4, <2>5, PlaceFetch
<1>3. ASSUME NEW d \in Public, doing' = <<"policy", d>>, Position(d) > i
      PROVE  Place'
  <2>1. SpotOf(doing') = Position(d) BY <1>3, Kinds
  <2>2. SpotOf(doing) < Position(d) /\ Position(d) \in Nat BY <1>3, Spots
  <2>3. Unseen(d)'
    <3>1. Unseen(d) BY <2>2 DEF Place
    <3> QED BY <1>1, <1>3, <3>1 DEF Unseen, Unwalked
  <2>4. TaskOf(d)' BY <1>3, <2>3 DEF TaskOf
  <2>5. Task' BY <1>1, <2>4 DEF Task
  <2>6. doing' # M BY <1>3 DEF M
  <2>7. \A e \in Public : SpotOf(doing') < Position(e) =>
          u # <<"latest", e>> /\ \A k : u # <<"sibling", e, k>>
    BY <1>3, <2>1, Spots
  <2>8. SpotOf(doing') \in Nat /\ SpotOf(doing) <= SpotOf(doing') BY <2>1, <2>2
  <2> QED BY <2>5, <2>6, <2>7, <2>8, PlaceFetch
<1> QED BY <1>2, <1>3, FollowingIs

LEMMA GoNext ==
    ASSUME Place, phase = "run", NEW u, NEW r, Fetches(u, r), NEW c \in Public,
           doing' = NextCatalog(c), Has(M), SpotOf(doing) = Position(c),
           \A d \in Public : d # c => u # <<"latest", d>> /\ \A k : u # <<"sibling", d, k>>,
           \A d, k : u = <<"sibling", d, k>> =>
               d \in Public /\ Walked(d) /\ k \in Lowest(L(d).seq)..L(d).seq
    PROVE  Place'
<1>1. PICK i : i = Position(c) OBVIOUS
<1>2. i \in Nat /\ i <= Len(Order) /\ SpotOf(doing) = i BY <1>1, Spots
<1>3. doing' = Following(i) BY <1>1 DEF NextCatalog
<1>4. Has(M)' BY FetchKeeps DEF Has
<1>5. \A d \in Public : Position(d) > i => d # c BY <1>1, <1>2
<1> QED BY <1>2, <1>3, <1>4, <1>5, GoOn

(* A run's next task in the catalog it is at.                                 *)
LEMMA GoWithin ==
    ASSUME Place, phase = "run", NEW u, NEW r, Fetches(u, r), NEW c \in Public, TaskOf(c)',
           Has(M), SpotOf(doing) = Position(c), SpotOf(doing') = Position(c), doing' # M,
           \A d \in Public : d # c => u # <<"latest", d>> /\ \A k : u # <<"sibling", d, k>>,
           \A d, k : u = <<"sibling", d, k>> =>
               d \in Public /\ Walked(d) /\ k \in Lowest(L(d).seq)..L(d).seq
    PROVE  Place'
<1>1. Position(c) \in Nat /\ Position(c) <= Position(c) BY Spots
<1>2. Public' = Public /\ Has(M)' BY FetchKeeps DEF Has
<1>3. Task' BY <1>2 DEF Task
<1>4. \A d \in Public : SpotOf(doing') < Position(d) => d # c BY <1>1
<1> QED BY <1>1, <1>2, <1>3, <1>4, PlaceFetch

LEMMA GoEnd ==
    ASSUME Place, phase = "run", NEW u, NEW r, Fetches(u, r), SpotOf(doing) \in Nat,
           SpotOf(doing) <= Len(Order) + 1,
           \/ doing' = End
           \/ \E es \in SUBSET (Catalogs \X Components) : doing' = <<"dests", es>> /\ Has(M),
           \A c, k : u # <<"sibling", c, k>>
    PROVE  Place'
<1>1. SpotOf(doing') = Len(Order) + 1 BY Kinds
<1>2. Task' BY DEF Task
<1>3. doing' # M BY DEF M, End
<1>4. \A d \in Public : ~(SpotOf(doing') < Position(d)) BY <1>1, Spots
<1>5. SpotOf(doing') \in Nat BY <1>1, Spots
<1>6. doing' = End \/ Has(M)' BY FetchKeeps DEF Has
<1> QED BY <1>1, <1>2, <1>3, <1>4, <1>5, <1>6, PlaceFetch

LEMMA AtManifestSig == ASSUME Place, doing = <<"manifest.sig">> \/ doing = <<"privacy">> \/ doing = <<"entries">>
                       PROVE  Has(M)
BY DEF Place, M, End

LEMMA AtCatalog ==
    ASSUME Place, NEW c,
           \/ doing \in {<<"policy", c>>, <<"latest", c>>, <<"latest.sig", c>>, <<"newest", c>>, <<"chain", c>>}
           \/ \E k : doing \in {<<"sibling", c, k>>, <<"sibling.sig", c, k>>}
    PROVE  /\ Has(M) /\ c \in Public /\ TaskOf(c) /\ SpotOf(doing) = Position(c)
           /\ doing = <<"latest.sig", c>> => Readable(c) /\ Unwalked(c)
           /\ doing = <<"newest", c>> => Walked(c) /\ Unwalked(c)
           /\ doing = <<"chain", c>> => WalkDone(c)
           /\ doing \in {<<"policy", c>>, <<"latest", c>>} => Unseen(c)
           /\ \A k : doing = <<"sibling", c, k>> =>
                Before(c, k) /\ k \in 1..MaxSeq /\ <<"sibling", c, k>> \notin DOMAIN got
           /\ \A k : doing = <<"sibling.sig", c, k>> =>
                Before(c, k) /\ k \in 1..MaxSeq /\ Has(<<"sibling", c, k>>)
                /\ ~IsBad(got[<<"sibling", c, k>>].doc, {"size"})
<1>1. PICK d \in Public : TaskOf(d) BY DEF Place, Task, M, End
<1>a. doing[2] = c OBVIOUS
<1>b. doing[2] = d
  <2>1. CASE \E k : doing = <<"sibling", d, k>> BY <2>1
  <2>2. CASE \E k : doing = <<"sibling.sig", d, k>> BY <2>2
  <2>3. CASE doing \in {<<"policy", d>>, <<"latest", d>>, <<"latest.sig", d>>, <<"newest", d>>, <<"chain", d>>}
    BY <2>3
  <2> QED BY <1>1, <2>1, <2>2, <2>3 DEF TaskOf
<1>2. TaskOf(c) /\ c \in Public BY <1>1, <1>a, <1>b
<1>3. Has(M) BY DEF Place, M, End
<1>4. SpotOf(doing) = Position(c) BY Kinds
<1>5. /\ doing[1] = "latest.sig" => Readable(c) /\ Unwalked(c)
      /\ doing[1] = "newest" => Walked(c) /\ Unwalked(c)
      /\ doing[1] = "chain" => WalkDone(c)
      /\ doing[1] \in {"policy", "latest"} => Unseen(c)
  <2>1. CASE doing = <<"chain", c>> /\ WalkDone(c) BY <2>1
  <2>2. CASE doing = <<"newest", c>> /\ Walked(c) /\ Unwalked(c) BY <2>2
  <2>3. CASE doing = <<"latest.sig", c>> /\ Readable(c) /\ Unwalked(c) BY <2>3
  <2>4. CASE doing \in {<<"policy", c>>, <<"latest", c>>} /\ Unseen(c) BY <2>4
  <2>5. CASE \E k : doing \in {<<"sibling", c, k>>, <<"sibling.sig", c, k>>} BY <2>5
  <2> QED BY <1>2, <2>1, <2>2, <2>3, <2>4, <2>5 DEF TaskOf
<1>6. ASSUME NEW k, doing = <<"sibling", c, k>>
      PROVE  Before(c, k) /\ k \in 1..MaxSeq /\ <<"sibling", c, k>> \notin DOMAIN got
  BY <1>2, <1>6 DEF TaskOf
<1>7. ASSUME NEW k, doing = <<"sibling.sig", c, k>>
      PROVE  /\ Before(c, k) /\ k \in 1..MaxSeq /\ Has(<<"sibling", c, k>>)
             /\ ~IsBad(got[<<"sibling", c, k>>].doc, {"size"})
  BY <1>2, <1>7 DEF TaskOf
<1> QED BY <1>2, <1>3, <1>4, <1>5, <1>6, <1>7

(* The walk: from k, to the sequence before it or to the links.               *)
LEMMA LowestIs ==
    ASSUME NEW n \in Nat, n > 0
    PROVE  Lowest(n) \in Nat /\ Lowest(n) >= 1 /\ (n > 1 => Lowest(n) < n) /\ Lowest(n) <= n
BY CatalogsFacts DEF Lowest

LEMMA WalkIs ==
    ASSUME NEW c, NEW n, NEW k
    PROVE  \/ k > Lowest(n) /\ Walk(c, n, k) = <<"sibling", c, k - 1>>
           \/ ~(k > Lowest(n)) /\ Walk(c, n, k) = <<"chain", c>>
BY DEF Walk

LEMMA GoBack ==
    ASSUME Place, phase = "run", NEW u, NEW r, Fetches(u, r), NEW c \in Public,
           Walked(c), NEW n \in Nat, n = L(c).seq, n > 1, n <= MaxSeq,
           NEW k \in Nat, k \in Lowest(n)..n, doing' = Walk(c, n, k), Has(M), SpotOf(doing) = Position(c),
           \/ u = <<"sibling", c, k>>
           \/ k < n /\ <<"sibling", c, k>> \in DOMAIN got /\ u = <<"sibling.sig", c, k>>,
           \A j \in (k + 1)..(n - 1) : <<"sibling", c, j>> \in DOMAIN got,
           \A j \in 1..(k - 1) : <<"sibling", c, j>> \notin DOMAIN got
    PROVE  Place'
<1>1. Walked(c)' /\ L(c)' = L(c) /\ DOMAIN got' = DOMAIN got \cup {u} BY FetchKeeps
<1>2. Lowest(n) \in Nat /\ Lowest(n) >= 1 /\ Lowest(n) < n /\ MaxSeq \in Nat BY LowestIs, CatalogsFacts
<1>3. L(c)'.seq = n BY <1>1
<1>4. \A j \in k..(n - 1) : <<"sibling", c, j>> \in DOMAIN got'
  BY <1>1, <1>2
<1>5. \A j \in 1..(k - 1) : <<"sibling", c, j>> \notin DOMAIN got'
  BY <1>1
<1>6. TaskOf(c)' /\ SpotOf(doing') = Position(c) /\ doing' # M
  <2>1. CASE k > Lowest(n) /\ doing' = <<"sibling", c, k - 1>>
    <3>1. PICK j : j = k - 1 OBVIOUS
    <3>2. j \in Lowest(n)..(n - 1) /\ j + 1 = k /\ j \in 1..MaxSeq BY <1>2, <2>1, <3>1
    <3>3. \A i \in (j + 1)..(n - 1) : <<"sibling", c, i>> \in DOMAIN got'
      BY <1>4, <3>2
    <3>4. \A i \in 1..(j - 1) : <<"sibling", c, i>> \notin DOMAIN got'
      BY <1>5, <3>1, <1>2, <2>1
    <3>5. Before(c, j)' BY <1>1, <1>3, <3>2, <3>3, <3>4 DEF Before
    <3>6. <<"sibling", c, j>> \notin DOMAIN got' BY <1>2, <1>5, <2>1, <3>1
    <3>7. TaskOf(c)' BY <2>1, <3>1, <3>2, <3>5, <3>6 DEF TaskOf
    <3> QED BY <2>1, <3>7, Kinds DEF M
  <2>2. CASE ~(k > Lowest(n)) /\ doing' = <<"chain", c>>
    <3>1. \A j \in Lowest(n)..(n - 1) : <<"sibling", c, j>> \in DOMAIN got'
      BY <1>2, <1>4, <2>2
    <3>2. WalkDone(c)' BY <1>1, <1>3, <3>1 DEF WalkDone
    <3>3. TaskOf(c)' BY <2>2, <3>2 DEF TaskOf
    <3> QED BY <2>2, <3>3, Kinds DEF M
  <2> QED BY <2>1, <2>2, WalkIs
<1>7. \A d \in Public : d # c => u # <<"latest", d>> /\ \A j : u # <<"sibling", d, j>> OBVIOUS
<1>8. \A d, j : u = <<"sibling", d, j>> =>
        d \in Public /\ Walked(d) /\ j \in Lowest(L(d).seq)..L(d).seq
  OBVIOUS
<1> QED BY <1>6, <1>7, <1>8, GoWithin

LEMMA SeqRange ==
    ASSUME Deployed, FetchInv, NEW c \in Public, Readable(c) \/ Walked(c)
    PROVE  /\ L(c).seq \in Nat /\ L(c).seq >= 1 /\ L(c).seq <= Len(chain[c]) /\ L(c).seq <= MaxSeq
           /\ SnapOK(c, L(c)) /\ c \in Catalogs
<1>1. c \in Catalogs /\ Has(<<"latest", c>>) BY Spots DEF Walked, Readable
<1>2. L(c).seq \in 1..Len(chain[c]) /\ SnapOK(c, L(c)) BY <1>1 DEF FetchInv
<1> QED BY <1>1, <1>2, ChainRange

LEMMA PlaceManifest == ASSUME Place, GetManifest PROVE Place'
<1>1. PICK r : /\ Fetches(M, r)
               /\ \/ doing' = End
                  \/ /\ doing' = <<"manifest.sig">> /\ r.st = "200" /\ stopped' = stopped
                     /\ ~Bad(M, {"size", "parse"})
  BY MoveManifest
<1>2. phase = "run" /\ doing = M BY MoveManifest DEF Doing
<1>3. SpotOf(doing) = 0 BY <1>2, Kinds
<1>4. \A c, k : M # <<"sibling", c, k>> BY DEF M
<1>5. CASE doing' = End BY <1>1, <1>2, <1>3, <1>4, <1>5, Spots, GoEnd
<1>6. CASE doing' = <<"manifest.sig">> /\ r.st = "200"
  <2>1. Has(M)' BY <1>1, <1>6, FetchKeeps DEF Has
  <2>2. Task' /\ SpotOf(doing') = 0 /\ doing' # M BY <1>6, Kinds DEF Task, M
  <2>3. \A d \in Public : M # <<"latest", d>> BY DEF M
  <2> QED BY <1>1, <1>2, <1>3, <1>4, <2>1, <2>2, <2>3, PlaceFetch
<1> QED BY <1>1, <1>5, <1>6

LEMMA GoAfterPrivacy ==
    ASSUME Place, phase = "run", NEW u, NEW r, Fetches(u, r), SpotOf(doing) = 0, Has(M), doing' = AfterPrivacy,
           \A c, k : u # <<"sibling", c, k>>, \A c : u # <<"latest", c>>
    PROVE  Place'
<1>1. Len(Order) \in Nat BY Spots
<1>2. Has(M)' BY FetchKeeps DEF Has
<1>3. CASE doing' = End BY <1>1, <1>3, GoEnd
<1>4. CASE doing' = Following(0)
  <2>1. PICK i : i = 0 OBVIOUS
  <2>2. i \in Nat /\ i <= Len(Order) /\ doing' = Following(i) /\ SpotOf(doing) <= i /\ SpotOf(doing) \in Nat
    BY <1>1, <1>4, <2>1
  <2> QED BY <1>2, <2>2, GoOn
<1> QED BY <1>3, <1>4 DEF AfterPrivacy

LEMMA PlaceManifestSig == ASSUME Place, GetManifestSig PROVE Place'
<1>0. PICK u : u = <<"manifest.sig">> OBVIOUS
<1>1. PICK r : /\ Fetches(u, r)
               /\ doing' = End \/ doing' = <<"privacy">> \/ doing' = AfterPrivacy
  BY <1>0, MoveManifestSig
<1>2. phase = "run" /\ doing = u BY <1>0, MoveManifestSig DEF Doing
<1>3. SpotOf(doing) = 0 /\ Has(M) /\ Len(Order) \in Nat BY <1>0, <1>2, Kinds, AtManifestSig, Spots
<1>4. \A c : u # <<"latest", c>> /\ \A k : u # <<"sibling", c, k>> BY <1>0
<1>5. CASE doing' = End BY <1>1, <1>2, <1>3, <1>4, <1>5, GoEnd
<1>6. CASE doing' = <<"privacy">>
  <2>1. Has(M)' BY <1>1, <1>3, FetchKeeps DEF Has
  <2>2. Task' /\ SpotOf(doing') = 0 /\ doing' # M BY <1>6, Kinds DEF Task, M
  <2> QED BY <1>1, <1>2, <1>3, <1>4, <2>1, <2>2, PlaceFetch
<1>7. CASE doing' = AfterPrivacy BY <1>1, <1>2, <1>3, <1>4, <1>7, GoAfterPrivacy
<1> QED BY <1>1, <1>5, <1>6, <1>7

LEMMA PlacePrivacy == ASSUME Place, GetPrivacy PROVE Place'
<1>0. PICK u : u = <<"privacy">> OBVIOUS
<1>1. PICK r : Fetches(u, r) /\ doing' = AfterPrivacy BY <1>0, MovePrivacy
<1>2. phase = "run" /\ doing = u BY <1>0, MovePrivacy DEF Doing
<1>3. SpotOf(doing) = 0 /\ Has(M) BY <1>0, <1>2, Kinds, AtManifestSig
<1>4. \A c : u # <<"latest", c>> /\ \A k : u # <<"sibling", c, k>> BY <1>0
<1> QED BY <1>1, <1>2, <1>3, <1>4, GoAfterPrivacy

LEMMA PlacePolicy == ASSUME Place, NEW c, GetPolicy(c) PROVE Place'
<1>0. PICK u : u = <<"policy", c>> OBVIOUS
<1>1. PICK r : Fetches(u, r) /\ doing' = <<"latest", c>> BY <1>0, MovePolicy
<1>2. phase = "run" /\ doing = u BY <1>0, MovePolicy DEF Doing
<1>3. Has(M) /\ c \in Public /\ SpotOf(doing) = Position(c) /\ Unseen(c) BY <1>0, <1>2, AtCatalog
<1>4. \A d : u # <<"latest", d>> /\ \A k : u # <<"sibling", d, k>> BY <1>0
<1>a. DOMAIN got' = DOMAIN got \cup {u} BY <1>1, FetchKeeps
<1>5. Unseen(c)' BY <1>a, <1>3, <1>4 DEF Unseen, Unwalked
<1>6. TaskOf(c)' BY <1>1, <1>5 DEF TaskOf
<1>7. SpotOf(doing') = Position(c) /\ doing' # M BY <1>1, Kinds DEF M
<1> QED BY <1>1, <1>2, <1>3, <1>4, <1>6, <1>7, GoWithin

LEMMA PlaceLatest == ASSUME Place, NEW c, GetLatest(c) PROVE Place'
<1>0. PICK u : u = <<"latest", c>> OBVIOUS
<1>1. PICK r : /\ Fetches(u, r)
               /\ \/ doing' = NextCatalog(c)
                  \/ doing' = <<"latest.sig", c>> /\ r.st = "200" /\ ~IsBad(r.doc, {"size", "parse"})
  BY <1>0, MoveLatest
<1>2. phase = "run" /\ doing = u BY <1>0, MoveLatest DEF Doing
<1>3. Has(M) /\ c \in Public /\ SpotOf(doing) = Position(c) /\ Unseen(c) BY <1>0, <1>2, AtCatalog
<1>4. (\A d : d # c => u # <<"latest", d>>) /\ \A d, k : u # <<"sibling", d, k>> BY <1>0
<1>5. CASE doing' = NextCatalog(c)
  BY <1>1, <1>2, <1>3, <1>4, <1>5, GoNext
<1>6. CASE doing' = <<"latest.sig", c>> /\ r.st = "200" /\ ~IsBad(r.doc, {"size", "parse"})
  <2>1. DOMAIN got' = DOMAIN got \cup {u} /\ got'[u] = r /\ flaws' = flaws BY <1>1, FetchKeeps
  <2>2. Has(u)' /\ L(c)' = r.doc BY <1>0, <1>6, <2>1 DEF Has, L
  <2>3. Readable(c)' BY <1>0, <1>6, <2>1, <2>2 DEF Readable, IsBad, Bad
  <2>4. Unwalked(c)' BY <1>3, <1>4, <2>1 DEF Unseen, Unwalked
  <2>5. TaskOf(c)' BY <1>6, <2>3, <2>4 DEF TaskOf
  <2>6. SpotOf(doing') = Position(c) /\ doing' # M BY <1>6, Kinds DEF M
  <2> QED BY <1>1, <1>2, <1>3, <1>4, <2>5, <2>6, GoWithin
<1> QED BY <1>1, <1>5, <1>6

LEMMA PlaceLatestSig == ASSUME Place, NEW c, GetLatestSig(c) PROVE Place'
<1>0. PICK u : u = <<"latest.sig", c>> OBVIOUS
<1>1. PICK r : /\ Fetches(u, r)
               /\ \/ doing' = NextCatalog(c)
                  \/ doing' = <<"newest", c>> /\ SigOK(L(c)) /\ ~IsBad(L(c), {"no-sequence"})
  BY <1>0, MoveLatestSig
<1>2. phase = "run" /\ doing = u BY <1>0, MoveLatestSig DEF Doing
<1>3. Has(M) /\ c \in Public /\ SpotOf(doing) = Position(c) /\ Readable(c) /\ Unwalked(c)
  BY <1>0, <1>2, AtCatalog
<1>4. (\A d : u # <<"latest", d>>) /\ \A d, k : u # <<"sibling", d, k>> BY <1>0
<1>5. CASE doing' = NextCatalog(c)
  BY <1>1, <1>2, <1>3, <1>4, <1>5, GoNext
<1>6. CASE doing' = <<"newest", c>> /\ SigOK(L(c)) /\ ~IsBad(L(c), {"no-sequence"})
  <2>1. Walked(c)' BY <1>1, <1>3, <1>6, FetchKeeps DEF Walked
  <2>a. DOMAIN got' = DOMAIN got \cup {u} BY <1>1, FetchKeeps
  <2>2. Unwalked(c)' BY <2>a, <1>3, <1>4 DEF Unwalked
  <2>3. TaskOf(c)' BY <1>6, <2>1, <2>2 DEF TaskOf
  <2>4. SpotOf(doing') = Position(c) /\ doing' # M BY <1>6, Kinds DEF M
  <2> QED BY <1>1, <1>2, <1>3, <1>4, <2>3, <2>4, GoWithin
<1> QED BY <1>1, <1>5, <1>6

LEMMA PlaceNewest == ASSUME Deployed, FetchInv, Place, NEW c, GetNewest(c) PROVE Place'
<1>a. PICK n : n = L(c).seq OBVIOUS
<1>0. PICK u : u = <<"sibling", c, n>> OBVIOUS
<1>1. PICK r : Fetches(u, r) /\ doing' = IF n <= 1 THEN NextCatalog(c) ELSE Walk(c, n, n)
  BY <1>a, <1>0, MoveNewest
<1>2. phase = "run" /\ doing = <<"newest", c>> BY MoveNewest DEF Doing
<1>3. Has(M) /\ c \in Public /\ SpotOf(doing) = Position(c) /\ Walked(c) /\ Unwalked(c) BY <1>2, AtCatalog
<1>4. n \in Nat /\ n >= 1 /\ n <= MaxSeq BY <1>a, <1>3, SeqRange
<1>5. n \in Lowest(n)..n BY <1>4, LowestIs
<1>6. \A d : u # <<"latest", d>> /\ (d # c => \A k : u # <<"sibling", d, k>>) BY <1>0
<1>7. \A d, k : u = <<"sibling", d, k>> => d \in Public /\ Walked(d) /\ k \in Lowest(L(d).seq)..L(d).seq
  BY <1>a, <1>0, <1>3, <1>5
<1>8. CASE doing' = NextCatalog(c)
  BY <1>1, <1>2, <1>3, <1>6, <1>7, <1>8, GoNext
<1>9. CASE ~(n <= 1) /\ doing' = Walk(c, n, n)
  <2>1. n > 1 BY <1>4, <1>9
  <2>2. \A j \in 1..(n - 1) : <<"sibling", c, j>> \notin DOMAIN got BY <1>3 DEF Unwalked
  <2>3. \A j \in (n + 1)..(n - 1) : <<"sibling", c, j>> \in DOMAIN got BY <1>4
  <2> QED BY <1>a, <1>0, <1>1, <1>2, <1>3, <1>4, <1>5, <1>9, <2>1, <2>2, <2>3, GoBack
<1> QED BY <1>1, <1>8, <1>9

LEMMA PlaceSibling == ASSUME Deployed, FetchInv, Place, NEW c, NEW k, GetSibling(c, k) PROVE Place'
<1>a. PICK n : n = L(c).seq OBVIOUS
<1>0. PICK u : u = <<"sibling", c, k>> OBVIOUS
<1>1. PICK r : /\ Fetches(u, r)
               /\ \/ doing' = Walk(c, n, k)
                  \/ doing' = <<"sibling.sig", c, k>> /\ r.st = "200" /\ ~IsBad(r.doc, {"size"})
  BY <1>a, <1>0, MoveSibling
<1>2. phase = "run" /\ doing = <<"sibling", c, k>> BY MoveSibling DEF Doing
<1>3. Has(M) /\ c \in Public /\ SpotOf(doing) = Position(c) /\ Before(c, k) /\ k \in 1..MaxSeq
  BY <1>2, AtCatalog
<1>b. Walked(c) /\ n > 1 /\ k \in Lowest(n)..(n - 1)
      /\ (\A j \in (k + 1)..(n - 1) : <<"sibling", c, j>> \in DOMAIN got)
      /\ (\A j \in 1..(k - 1) : <<"sibling", c, j>> \notin DOMAIN got)
  BY <1>a, <1>3 DEF Before
<1>4. n \in Nat /\ n >= 1 /\ n <= MaxSeq BY <1>a, <1>b, <1>3, SeqRange
<1>5. k \in Nat /\ k \in Lowest(n)..n /\ k < n /\ Lowest(n) \in Nat BY <1>4, <1>b, <1>3, LowestIs, CatalogsFacts
<1>6. \A d : u # <<"latest", d>> /\ (d # c => \A j : u # <<"sibling", d, j>>) BY <1>0
<1>7. \A d, j : u = <<"sibling", d, j>> => d \in Public /\ Walked(d) /\ j \in Lowest(L(d).seq)..L(d).seq
  BY <1>a, <1>0, <1>3, <1>b, <1>5
<1>8. CASE doing' = Walk(c, n, k)
  BY <1>a, <1>0, <1>1, <1>2, <1>3, <1>b, <1>4, <1>5, <1>8, GoBack
<1>9. CASE doing' = <<"sibling.sig", c, k>> /\ r.st = "200" /\ ~IsBad(r.doc, {"size"})
  <2>1. /\ DOMAIN got' = DOMAIN got \cup {u} /\ got'[u] = r /\ flaws' = flaws
        /\ Walked(c)' /\ L(c)' = L(c)
    BY <1>1, <1>b, FetchKeeps
  <2>2. Has(<<"sibling", c, k>>)' /\ got'[<<"sibling", c, k>>] = r BY <1>0, <1>9, <2>1 DEF Has
  <2>3. ~IsBad(r.doc, {"size"})' BY <1>9, <2>1 DEF IsBad, Bad
  <2>4. \A j \in 1..(k - 1) : <<"sibling", c, j>> \notin DOMAIN got' BY <1>b, <1>0, <1>5, <2>1
  <2>5. Before(c, k)'
    <3>1. L(c)'.seq = n BY <1>a, <2>1
    <3> QED BY <1>b, <2>1, <2>4, <3>1 DEF Before
  <2>6. ~IsBad(got[<<"sibling", c, k>>].doc, {"size"})' BY <2>2, <2>3, <1>9, <2>1 DEF IsBad, Bad
  <2>7. TaskOf(c)' BY <1>3, <1>9, <2>2, <2>5, <2>6 DEF TaskOf
  <2>8. SpotOf(doing') = Position(c) /\ doing' # M BY <1>9, Kinds DEF M
  <2> QED BY <1>1, <1>2, <1>3, <1>6, <1>7, <2>7, <2>8, GoWithin
<1> QED BY <1>1, <1>8, <1>9

LEMMA PlaceSiblingSig == ASSUME Deployed, FetchInv, Place, NEW c, NEW k, GetSiblingSig(c, k) PROVE Place'
<1>a. PICK n : n = L(c).seq OBVIOUS
<1>0. PICK u : u = <<"sibling.sig", c, k>> OBVIOUS
<1>1. PICK r : Fetches(u, r) /\ doing' = Walk(c, n, k)
  BY <1>a, <1>0, MoveSiblingSig
<1>2. phase = "run" /\ doing = <<"sibling.sig", c, k>> BY MoveSiblingSig DEF Doing
<1>3. /\ Has(M) /\ c \in Public /\ SpotOf(doing) = Position(c) /\ Before(c, k) /\ k \in 1..MaxSeq
      /\ <<"sibling", c, k>> \in DOMAIN got
  BY <1>2, AtCatalog DEF Has
<1>b. Walked(c) /\ n > 1 /\ k \in Lowest(n)..(n - 1)
      /\ (\A j \in (k + 1)..(n - 1) : <<"sibling", c, j>> \in DOMAIN got)
      /\ (\A j \in 1..(k - 1) : <<"sibling", c, j>> \notin DOMAIN got)
  BY <1>a, <1>3 DEF Before
<1>4. n \in Nat /\ n >= 1 /\ n <= MaxSeq BY <1>a, <1>b, <1>3, SeqRange
<1>5. k \in Nat /\ k \in Lowest(n)..n /\ k < n /\ Lowest(n) \in Nat BY <1>4, <1>b, <1>3, LowestIs, CatalogsFacts
<1> QED BY <1>a, <1>0, <1>1, <1>2, <1>3, <1>b, <1>4, <1>5, GoBack

(* A step without a fetch is as good as one that asks for the manifest again. *)
LEMMA StepIsFetch ==
    ASSUME Running, UNCHANGED <<got, mishaps>>, Has(M)
    PROVE  \E r : Fetches(M, r)
<1>1. PICK r : r = got[M] OBVIOUS
<1>2. Get(M, r) BY <1>1 DEF Get, Has
<1> QED BY <1>2 DEF Fetches, Running

LEMMA ManifestUri == \A c : M # <<"latest", c>> /\ \A k : M # <<"sibling", c, k>>
BY DEF M

LEMMA PlaceChain == ASSUME Place, NEW c, CheckChain(c) PROVE Place'
<1>1. phase = "run" /\ doing = <<"chain", c>> /\ doing' = NextCatalog(c) /\ Running
      /\ UNCHANGED <<got, mishaps>>
  BY MoveChain DEF Doing, CheckChain
<1>2. Has(M) /\ c \in Public /\ SpotOf(doing) = Position(c) BY <1>1, AtCatalog
<1>3. PICK r : Fetches(M, r) BY <1>1, <1>2, StepIsFetch
<1> QED BY <1>1, <1>2, <1>3, ManifestUri, GoNext

LEMMA PresentingIs ==
    ASSUME NEW es, es \subseteq Catalogs \X Components
    PROVE  \/ Presenting(es) = End
           \/ \E fs \in SUBSET (Catalogs \X Components) : Presenting(es) = <<"dests", fs>>
BY DEF Presenting

LEMMA DecodableIn == ASSUME NEW c \in Catalogs PROVE Decodable(c) \subseteq Components
BY DEF Decodable, Surviving, Components

LEMMA PlaceEntries == ASSUME Place, ExamineEntries PROVE Place'
<1>0. PICK es : es = UNION {{<<c, x>> : x \in Decodable(c)} : c \in {d \in Verified : ~Unfetched(d)}}
  OBVIOUS
<1>1. phase = "run" /\ doing = <<"entries">> /\ doing' = Presenting(es) /\ Running
      /\ UNCHANGED <<got, mishaps>>
  BY <1>0, MoveEntries DEF Doing, ExamineEntries
<1>2. Has(M) /\ SpotOf(doing) = Len(Order) + 1 BY <1>1, AtManifestSig, Kinds
<1>3. PICK r : Fetches(M, r) BY <1>1, <1>2, StepIsFetch
<1>4. es \subseteq Catalogs \X Components
  <2>1. \A c \in Verified : c \in Catalogs BY Spots DEF Verified
  <2>2. \A c \in Verified : \A x \in Decodable(c) : <<c, x>> \in Catalogs \X Components
    BY <2>1, DecodableIn
  <2>3. ASSUME NEW e \in es PROVE e \in Catalogs \X Components
    <3>1. \E c \in Verified : \E x \in Decodable(c) : e = <<c, x>> BY <1>0
    <3> QED BY <2>2, <3>1
  <2> QED BY <2>3
<1>5. \/ doing' = End
      \/ \E fs \in SUBSET (Catalogs \X Components) : doing' = <<"dests", fs>> /\ Has(M)
  BY <1>1, <1>2, <1>4, PresentingIs
<1> QED BY <1>1, <1>2, <1>3, <1>5, ManifestUri, Spots, GoEnd

LEMMA AtDests ==
    ASSUME Place, doing[1] = "dests"
    PROVE  Has(M) /\ SpotOf(doing) = Len(Order) + 1 /\ doing[2] \in SUBSET (Catalogs \X Components)
<1>1. PICK es \in SUBSET (Catalogs \X Components) : doing = <<"dests", es>>
  <2>1. ASSUME NEW c, TaskOf(c) PROVE FALSE
    <3>1. CASE \E k : doing \in {<<"sibling", c, k>>, <<"sibling.sig", c, k>>} BY <3>1
    <3>2. CASE doing \in {<<"policy", c>>, <<"latest", c>>, <<"latest.sig", c>>, <<"newest", c>>,
                          <<"chain", c>>}
      BY <3>2
    <3> QED BY <2>1, <3>1, <3>2 DEF TaskOf
  <2> QED BY <2>1 DEF Place, Task, M, End
<1>2. Has(M) BY <1>1 DEF Place, M, End
<1> QED BY <1>1, <1>2, Kinds

LEMMA PlaceDest == ASSUME Place, NEW x, NEW c, GetDest(x, c) PROVE Place'
<1>0. PICK u : u = <<"dest", x>> OBVIOUS
<1>1. PICK r : Fetches(u, r) /\ doing' = Presenting(doing[2] \ {<<c, x>>}) BY <1>0, MoveDest
<1>2. phase = "run" /\ doing[1] = "dests" BY MoveDest
<1>3. Has(M) /\ SpotOf(doing) = Len(Order) + 1 /\ doing[2] \ {<<c, x>>} \subseteq Catalogs \X Components
  BY <1>2, AtDests
<1>4. \/ doing' = End
      \/ \E fs \in SUBSET (Catalogs \X Components) : doing' = <<"dests", fs>> /\ Has(M)
  BY <1>1, <1>3, PresentingIs
<1>5. \A d, k : u # <<"sibling", d, k>> BY <1>0
<1>6. SpotOf(doing) \in Nat /\ SpotOf(doing) <= Len(Order) + 1 BY <1>3, Spots
<1> QED BY <1>1, <1>2, <1>4, <1>5, <1>6, GoEnd

Base == Deployed /\ FetchInv /\ Place

LEMMA UriIs ==
    /\ M \in Uris /\ <<"manifest.sig">> \in Uris /\ <<"privacy">> \in Uris
    /\ \A c \in Catalogs : <<"policy", c>> \in Uris /\ <<"latest", c>> \in Uris /\ <<"latest.sig", c>> \in Uris
    /\ \A c \in Catalogs, k \in 1..MaxSeq : <<"sibling", c, k>> \in Uris /\ <<"sibling.sig", c, k>> \in Uris
    /\ \A x \in Components : <<"dest", x>> \in Uris
BY DEF Uris

(* A step of the run fetches one document at most, and of a sequence only     *)
(* what was published.                                                        *)
Downward(u) ==
    \A c, k : u = <<"sibling", c, k>> =>
        k <= Len(chain[c]) /\ \A j \in 1..(k - 1) : <<"sibling", c, j>> \notin DOMAIN got

LEMMA NotSibling == ASSUME NEW u, \A c, k : u # <<"sibling", c, k>> PROVE Downward(u)
BY DEF Downward

LEMMA RunFetches ==
    ASSUME Base, RunNext
    PROVE  \/ got' = got
           \/ \E u \in Uris : \E r : Fetches(u, r) /\ Downward(u)
<1> USE DEF Base
<1>0. \A c \in Public : c \in Catalogs BY Spots
<1>1. CASE Probe \/ Start \/ Finish BY <1>1 DEF Probe, Start, Finish
<1>2. CASE GetManifest BY <1>2, MoveManifest, UriIs, ManifestUri, NotSibling
<1>3. CASE GetManifestSig
  <2>1. PICK u : u = <<"manifest.sig">> OBVIOUS
  <2>2. \E r : Fetches(u, r) BY <1>3, <2>1, MoveManifestSig
  <2> QED BY <2>1, <2>2, UriIs, NotSibling
<1>4. CASE GetPrivacy
  <2>1. PICK u : u = <<"privacy">> OBVIOUS
  <2>2. \E r : Fetches(u, r) BY <1>4, <2>1, MovePrivacy
  <2> QED BY <2>1, <2>2, UriIs, NotSibling
<1>5. CASE ExamineEntries BY <1>5, MoveEntries
<1>6. ASSUME NEW c \in Catalogs, GetPolicy(c) \/ GetLatest(c) \/ GetLatestSig(c)
      PROVE  \E u \in Uris : \E r : Fetches(u, r) /\ Downward(u)
  <2>1. \E u \in {<<"policy", c>>, <<"latest", c>>, <<"latest.sig", c>>} : \E r : Fetches(u, r)
    BY <1>6, MovePolicy, MoveLatest, MoveLatestSig
  <2>2. \A u \in {<<"policy", c>>, <<"latest", c>>, <<"latest.sig", c>>} : Downward(u) /\ u \in Uris
    BY UriIs, NotSibling
  <2> QED BY <2>1, <2>2
<1>7. ASSUME NEW c \in Catalogs, GetNewest(c)
      PROVE  \E u \in Uris : \E r : Fetches(u, r) /\ Downward(u)
  <2>1. PICK n : n = L(c).seq OBVIOUS
  <2>2. PICK r : Fetches(<<"sibling", c, n>>, r) BY <1>7, <2>1, MoveNewest
  <2>3. doing = <<"newest", c>> BY <1>7, MoveNewest DEF Doing
  <2>4. c \in Public /\ Walked(c) /\ Unwalked(c) BY <2>3, AtCatalog
  <2>5. n \in Nat /\ n >= 1 /\ n <= Len(chain[c]) /\ n <= MaxSeq BY <2>1, <2>4, SeqRange
  <2>6. n \in 1..MaxSeq BY <2>5, CatalogsFacts
  <2>7. Downward(<<"sibling", c, n>>) BY <2>4, <2>5 DEF Downward, Unwalked
  <2> QED BY <2>2, <2>6, <2>7, UriIs
<1>8. ASSUME NEW c \in Catalogs, NEW k \in 1..MaxSeq, GetSibling(c, k)
      PROVE  \E u \in Uris : \E r : Fetches(u, r) /\ Downward(u)
  <2>1. PICK n : n = L(c).seq OBVIOUS
  <2>2. PICK r : Fetches(<<"sibling", c, k>>, r) BY <1>8, MoveSibling
  <2>3. doing = <<"sibling", c, k>> BY <1>8, MoveSibling DEF Doing
  <2>4. c \in Public /\ Before(c, k) BY <2>3, AtCatalog
  <2>5. Walked(c) /\ n > 1 /\ k \in Lowest(n)..(n - 1) BY <2>1, <2>4 DEF Before
  <2>6. n \in Nat /\ n >= 1 /\ n <= Len(chain[c]) BY <2>1, <2>4, <2>5, SeqRange
  <2>7. k <= Len(chain[c]) BY <1>0, <2>4, <2>5, <2>6, LowestIs, ChainRange
  <2>8. Downward(<<"sibling", c, k>>) BY <2>4, <2>7 DEF Downward, Before
  <2> QED BY <2>2, <2>8, UriIs
<1>9. ASSUME NEW c \in Catalogs, NEW k \in 1..MaxSeq, GetSiblingSig(c, k)
      PROVE  \E u \in Uris : \E r : Fetches(u, r) /\ Downward(u)
  <2>1. PICK u : u = <<"sibling.sig", c, k>> OBVIOUS
  <2>2. PICK r : Fetches(u, r) BY <1>9, <2>1, MoveSiblingSig
  <2> QED BY <2>1, <2>2, UriIs, NotSibling
<1>10. ASSUME NEW c \in Catalogs, CheckChain(c) PROVE got' = got BY <1>10, MoveChain
<1>11. ASSUME NEW c \in Catalogs, NEW x \in Components, GetDest(x, c)
       PROVE  \E u \in Uris : \E r : Fetches(u, r) /\ Downward(u)
  <2>1. PICK u : u = <<"dest", x>> OBVIOUS
  <2>2. PICK r : Fetches(u, r) BY <1>11, <2>1, MoveDest
  <2> QED BY <2>1, <2>2, UriIs, NotSibling
<1>12. RunNext BY RunNext
<1> QED BY <1>1, <1>2, <1>3, <1>4, <1>5, <1>6, <1>7, <1>8, <1>9, <1>10, <1>11 DEF RunNext

LEMMA PlaceRun == ASSUME Base, RunNext PROVE Place'
<1> USE DEF Base
<1>1. CASE Probe
  <2>1. UNCHANGED <<got, doing, found, stopped, flaws>> /\ phase = "idle" /\ phase' \in {"probed", "refused"}
    BY <1>1 DEF Probe
  <2> QED BY <2>1 DEF Place, Task, TaskOf, Unseen, Unwalked, Has, WalkedBack, M, Public, Decoded, Bad
<1>2. CASE Start
  <2>1. /\ phase \in {"idle", "probed"} /\ phase' = "run" /\ UNCHANGED <<got, flaws>>
        /\ doing' = M \/ doing' = End
    BY <1>2 DEF Start
  <2>2. DOMAIN got = {} BY <2>1 DEF Place
  <2> QED BY <2>1, <2>2 DEF Place, Task, TaskOf, Unseen, Unwalked, Has, WalkedBack
<1>3. CASE Finish
  <2>1. UNCHANGED <<got, doing, stopped, flaws>> /\ doing = End /\ phase' = "done"
    BY <1>3 DEF Finish, Doing
  <2>2. Public' = Public BY <2>1 DEF Public, Decoded, Bad
  <2>3. Task' BY <2>1 DEF Task
  <2>4. WalkedBack' BY <2>1, <2>2 DEF Place, WalkedBack, Walked, Readable, Has, L, SigOK, IsBad, Bad
  <2> QED BY <2>1, <2>2, <2>3, <2>4 DEF Place, Unseen, Unwalked
<1>4. CASE GetManifest BY <1>4, PlaceManifest
<1>5. CASE GetManifestSig BY <1>5, PlaceManifestSig
<1>6. CASE GetPrivacy BY <1>6, PlacePrivacy
<1>7. CASE ExamineEntries BY <1>7, PlaceEntries
<1>8. ASSUME NEW c \in Catalogs, GetPolicy(c) PROVE Place' BY <1>8, PlacePolicy
<1>9. ASSUME NEW c \in Catalogs, GetLatest(c) PROVE Place' BY <1>9, PlaceLatest
<1>10. ASSUME NEW c \in Catalogs, GetLatestSig(c) PROVE Place' BY <1>10, PlaceLatestSig
<1>11. ASSUME NEW c \in Catalogs, GetNewest(c) PROVE Place' BY <1>11, PlaceNewest
<1>12. ASSUME NEW c \in Catalogs, CheckChain(c) PROVE Place' BY <1>12, PlaceChain
<1>13. ASSUME NEW c \in Catalogs, NEW k \in 1..MaxSeq, GetSibling(c, k) PROVE Place' BY <1>13, PlaceSibling
<1>14. ASSUME NEW c \in Catalogs, NEW k \in 1..MaxSeq, GetSiblingSig(c, k) PROVE Place'
  BY <1>14, PlaceSiblingSig
<1>15. ASSUME NEW c \in Catalogs, NEW x \in Components, GetDest(x, c) PROVE Place' BY <1>15, PlaceDest
<1> QED BY <1>1, <1>2, <1>3, <1>4, <1>5, <1>6, <1>7, <1>8, <1>9, <1>10, <1>11, <1>12, <1>13, <1>14, <1>15
        DEF RunNext

(* Nothing else moves the run.                                                *)
LEMMA PlaceKept ==
    ASSUME Place, UNCHANGED <<flaws, phase, doing, got, found, stopped>>
    PROVE  Place'
<1>1. Public' = Public BY DEF Public, Decoded, Bad
<1>2. \A c : (Walked(c) => Walked(c)') /\ (Readable(c) => Readable(c)') /\ L(c)' = L(c)
  BY DEF Walked, Readable, Has, L, SigOK, IsBad, Bad
<1>3. \A c : (Unseen(c) => Unseen(c)') /\ (Unwalked(c) => Unwalked(c)') BY DEF Unseen, Unwalked
<1>4. \A c, k : Before(c, k) => Before(c, k)' BY <1>2 DEF Before
<1>5. \A c : WalkDone(c) => WalkDone(c)' BY <1>2 DEF WalkDone
<1>6. \A u : Has(u) => Has(u)' BY DEF Has
<1>7. \A c : TaskOf(c) => TaskOf(c)'
  BY <1>2, <1>3, <1>4, <1>5, <1>6 DEF TaskOf, IsBad, Bad
<1>8. Task => Task' BY <1>1, <1>7 DEF Task
<1>9. WalkedBack => WalkedBack' BY <1>1, <1>2 DEF WalkedBack
<1> QED BY <1>1, <1>3, <1>6, <1>8, <1>9 DEF Place

LEMMA BaseInit == Init => Base
<1> SUFFICES ASSUME Init PROVE Base OBVIOUS
<1>1. DOMAIN got = {} /\ doing = M /\ phase = "idle" /\ found = {} /\ stopped = FALSE BY DEF Init
<1>2. FetchInv BY <1>1 DEF FetchInv, Has
<1>3. Place BY <1>1 DEF Place, Task, Unseen, Unwalked, WalkedBack
<1> QED BY <1>2, <1>3, DeployedInit DEF Base

LEMMA BaseStep == Base /\ [Next]_vars => Base'
<1> SUFFICES ASSUME Base, [Next]_vars PROVE Base' OBVIOUS
<1> USE DEF Base
<1>1. Deployed' BY DeployedStep
<1>2. CASE RunNext
  <2>1. FetchInv'
    <3>1. CASE got' = got
      <4>1. UNCHANGED <<chain, wrongs>> BY <1>2, RunKeeps
      <4> QED BY <3>1, <4>1 DEF FetchInv, Has, L, SnapOK, Forked
    <3>2. CASE \E u \in Uris : \E r : Fetches(u, r) /\ Downward(u)
      BY <3>2, FetchStep DEF Downward
    <3> QED BY <1>2, <3>1, <3>2, RunFetches
  <2> QED BY <1>1, <1>2, <2>1, PlaceRun
<1>3. CASE ProviderNext
  <2>1. FetchInv' BY <1>3, FetchProvider
  <2>2. Place' BY <1>3, ProviderKeeps, PlaceKept
  <2> QED BY <1>1, <2>1, <2>2
<1>4. CASE UNCHANGED vars
  <2>1. FetchInv' BY <1>4 DEF FetchInv, Has, L, SnapOK, Forked, vars, deployment
  <2>2. Place' BY <1>4, PlaceKept DEF vars
  <2> QED BY <1>1, <2>1, <2>2
<1> QED BY <1>2, <1>3, <1>4 DEF Next, Over

-------------------------------------------------------------------------------
(* Findings. Only the links and the gaps of a chain are judged elsewhere than *)
(* at the document they are about.                                            *)
Outcomes == {"pass", "fail", "inconclusive", "not-applicable"}
Sound(f) == f[1] \in Checks /\ f[3] \in Outcomes
Plain == Checks \ {"chain.retention", "chain.links"}
Ordinary(f) == Sound(f) /\ (f[1] \in {"chain.retention", "chain.links"} => f[3] # "fail")
OrdinarySet(fs) == \A f \in fs : Ordinary(f)

LEMMA CheckNames ==
    /\ Plain \subseteq Checks /\ "chain.retention" \in Checks /\ "chain.links" \in Checks
    /\ {"manifest.uri", "manifest.fetch", "manifest.size", "manifest.schema", "manifest.identity",
        "manifest.signature", "manifest.detached-sig", "manifest.valid-until", "uri.rules",
        "privacy.document", "provider.cross-catalog-digest", "serving.no-cookies"} \subseteq Plain
    /\ DescriptorChecks \subseteq Plain
    /\ {"policy.document", "snapshot.fetch"} \subseteq Plain
    /\ {"snapshot.policy-digest", "snapshot.chain-fields", "snapshot.dates", "snapshot.window-max",
        "snapshot.window-short", "snapshot.fresh", "snapshot.entry-count"} \subseteq Plain
    /\ EntryChecks \subseteq Plain
    /\ {"chain.sibling-valid", "chain.latest-sibling"} \subseteq Plain
    /\ SnapshotChecks \subseteq Plain /\ DestScoped \subseteq Plain
    /\ Chain4 \subseteq Checks /\ AfterSignature \subseteq Checks /\ CatalogScoped \subseteq Checks
<1>1. \A x \in CatalogScoped \cup DescriptorChecks : x \in Checks BY DEF Checks
<1>2. \A x \in SnapshotChecks \cup AfterSignature : x \in CatalogScoped BY DEF CatalogScoped
<1>3. \A x \in EntryChecks \cup Chain4 \cup DestScoped : x \in AfterSignature BY DEF AfterSignature
<1>4. {"snapshot.policy-digest", "snapshot.chain-fields", "snapshot.dates", "snapshot.window-max",
       "snapshot.window-short", "snapshot.fresh", "snapshot.entry-count"} \subseteq AfterSignature
  BY DEF AfterSignature
<1>5. {"policy.document", "snapshot.fetch"} \subseteq CatalogScoped BY DEF CatalogScoped
<1>6. {"manifest.uri", "manifest.fetch", "manifest.size", "manifest.schema", "manifest.identity",
       "manifest.signature", "manifest.detached-sig", "manifest.valid-until", "uri.rules",
       "privacy.document", "provider.cross-catalog-digest", "serving.no-cookies"} \subseteq Checks
  BY DEF Checks
<1>7. Chain4 = {"chain.retention", "chain.sibling-valid", "chain.links", "chain.latest-sibling"}
  BY DEF Chain4
<1>8. DescriptorChecks \subseteq Plain BY <1>1 DEF Plain, DescriptorChecks
<1>9. EntryChecks \subseteq Plain BY <1>1, <1>2, <1>3 DEF Plain, EntryChecks
<1>10. SnapshotChecks \subseteq Plain BY <1>1, <1>2 DEF Plain, SnapshotChecks
<1>11. DestScoped \subseteq Plain BY <1>1, <1>2, <1>3 DEF Plain, DestScoped
<1>12. {"manifest.uri", "manifest.fetch", "manifest.size", "manifest.schema", "manifest.identity",
        "manifest.signature", "manifest.detached-sig", "manifest.valid-until", "uri.rules",
        "privacy.document", "provider.cross-catalog-digest", "serving.no-cookies"} \subseteq Plain
  BY <1>6 DEF Plain
<1>13. {"snapshot.policy-digest", "snapshot.chain-fields", "snapshot.dates", "snapshot.window-max",
        "snapshot.window-short", "snapshot.fresh", "snapshot.entry-count"} \subseteq Plain
  BY <1>1, <1>2, <1>4 DEF Plain
<1>14. {"policy.document", "snapshot.fetch"} \subseteq Plain BY <1>1, <1>5 DEF Plain
<1>15. {"chain.sibling-valid", "chain.latest-sibling"} \subseteq Plain
  BY <1>1, <1>2, <1>3, <1>7 DEF Plain
<1>16. "chain.retention" \in Checks /\ "chain.links" \in Checks BY <1>1, <1>2, <1>3, <1>7
<1>17. Chain4 \subseteq Checks /\ AfterSignature \subseteq Checks /\ CatalogScoped \subseteq Checks
  BY <1>1, <1>2, <1>3
<1>18. Plain \subseteq Checks BY DEF Plain
<1> QED BY <1>8, <1>9, <1>10, <1>11, <1>12, <1>13, <1>14, <1>15, <1>16, <1>17, <1>18

(* Every way a check is judged ends in an outcome.                            *)
LEMMA Judgements ==
    ASSUME NEW check \in Plain, NEW subject
    PROVE  /\ \A bad \in BOOLEAN : Ordinary(Judge(check, subject, bad))
           /\ Ordinary(Passed(check, subject)) /\ Ordinary(Failed(check, subject))
           /\ \A r : Ordinary(Required(check, subject, r))
           /\ \A u, r, pin : \A bad \in BOOLEAN : Ordinary(Document(check, subject, u, r, bad, pin))
           /\ \A u, r, e : Ordinary(Detached(check, subject, u, r, e))
<1>1. \A f : f[1] = check /\ f[3] \in Outcomes => Ordinary(f)
  BY CheckNames DEF Ordinary, Sound, Plain
<1>2. Ordinary(Passed(check, subject)) /\ Ordinary(Failed(check, subject))
  BY <1>1 DEF Passed, Failed, Outcomes
<1>3. \A bad \in BOOLEAN : Ordinary(Judge(check, subject, bad))
  BY <1>2 DEF Judge
<1>4. ASSUME NEW r PROVE Ordinary(Required(check, subject, r))
  <2>1. State(r, FALSE) \in {"ok", "unknown", "absent", "refused"} BY StateIs
  <2>2. Required(check, subject, r)[1] = check /\ Required(check, subject, r)[3] \in Outcomes
    BY <2>1 DEF Required, Outcomes
  <2> QED BY <1>1, <2>2
<1>5. ASSUME NEW u, NEW r, NEW pin, NEW bad \in BOOLEAN
      PROVE  Ordinary(Document(check, subject, u, r, bad, pin))
  <2>1. /\ Document(check, subject, u, r, bad, pin)[1] = check
        /\ Document(check, subject, u, r, bad, pin)[3] \in Outcomes
    BY DEF Document, Outcomes
  <2> QED BY <1>1, <2>1
<1>6. ASSUME NEW u, NEW r, NEW e
      PROVE  Ordinary(Detached(check, subject, u, r, e))
  <2>1. State(r, TRUE) \in {"ok", "unknown", "absent", "refused"} BY StateIs
  <2>2. /\ Detached(check, subject, u, r, e)[1] = check
        /\ Detached(check, subject, u, r, e)[3] \in Outcomes
    BY <2>1 DEF Detached, Outcomes
  <2> QED BY <1>1, <2>2
<1> QED BY <1>2, <1>3, <1>4, <1>5, <1>6

LEMMA Blocks ==
    ASSUME NEW cs, cs \subseteq Checks, NEW subject
    PROVE  OrdinarySet(Block(cs, subject)) /\ OrdinarySet(NotApplicable(cs, subject))
<1>1. \A check \in cs : /\ Ordinary(<<check, subject, "inconclusive">>)
                        /\ Ordinary(<<check, subject, "not-applicable">>)
  BY DEF Ordinary, Sound, Outcomes
<1> QED BY <1>1 DEF Block, NotApplicable, OrdinarySet

LEMMA BadBool == ASSUME NEW doc, NEW names PROVE Bad(doc, names) \in BOOLEAN
BY DEF Bad

(* Every step of the run but the last of a chain finds ordinary findings.     *)
Finds == found \subseteq found' /\ \A f \in found' : f \in found \/ Ordinary(f)

LEMMA FindsSet ==
    ASSUME NEW fs, found' = found \cup fs, OrdinarySet(fs)
    PROVE  Finds
BY DEF OrdinarySet, Finds

LEMMA FindsManifest == ASSUME GetManifest PROVE Finds
<1>1. \A r : Ordinary(Required("manifest.fetch", M, r)) BY CheckNames, Judgements
<1>2. Ordinary(Judge("manifest.size", M, Bad(M, {"size"}))) BY CheckNames, Judgements, BadBool
<1>3. Ordinary(Judge("manifest.schema", M, Bad(M, {"parse"}) \/ ManifestSchemaBad))
  BY CheckNames, Judgements, BadBool
<1>4. Ordinary(Judge("manifest.identity", M, Bad(M, {"identity", "seat", "key"})))
  BY CheckNames, Judgements, BadBool
<1>5. PICK fs : OrdinarySet(fs) /\ found' = found \cup fs
  BY <1>1, <1>2, <1>3, <1>4 DEF GetManifest, Go, Stop, OrdinarySet
<1> QED BY <1>5, FindsSet

LEMMA PrivacyUriOrdinary == OrdinarySet(PrivacyUri)
<1>1. {"privacy.document", "uri.rules"} \subseteq Plain /\ {"privacy.document"} \subseteq Checks
  BY CheckNames
<1>2. Ordinary(Failed("privacy.document", M)) /\ Ordinary(Failed("uri.rules", M))
      /\ Ordinary(Passed("uri.rules", M))
  BY <1>1, Judgements
<1>3. OrdinarySet(Block({"privacy.document"}, M)) BY <1>1, Blocks
<1> QED BY <1>2, <1>3 DEF PrivacyUri, OrdinarySet

LEMMA DescriptorsOrdinary == OrdinarySet(Descriptors)
<1>1. DescriptorChecks \subseteq Plain /\ "uri.rules" \in Plain BY CheckNames
<1>2. \A c : /\ Ordinary(Judge("catalog.descriptor-fields", <<c>>, Bad(Descriptor(c), {"fields"})))
             /\ Ordinary(Judge("catalog.descriptor-unknown-keys", <<c>>, Bad(Descriptor(c), {"unknown"})))
             /\ Ordinary(Judge("uri.rules", <<c>>, Bad(Descriptor(c), {"uri"})))
  BY <1>1, Judgements, BadBool DEF DescriptorChecks
<1>3. /\ Ordinary(Judge("catalog.decodable", M, Decoded = {}))
      /\ Ordinary(Judge("catalog.duplicate-id", M, Bad(M, {"duplicate-id"})))
  BY <1>1, Judgements, BadBool DEF DescriptorChecks
<1> QED BY <1>2, <1>3 DEF Descriptors, OrdinarySet

LEMMA FindsManifestSig == ASSUME GetManifestSig PROVE Finds
<1>a. {"manifest.detached-sig", "manifest.signature", "manifest.valid-until"} \subseteq Plain
      /\ {"manifest.signature"} \subseteq Checks /\ DescriptorChecks \cup CatalogScoped \subseteq Checks
  BY CheckNames
<1>1. \A u, r, e : Ordinary(Detached("manifest.detached-sig", M, u, r, e)) BY <1>a, Judgements
<1>2. /\ Ordinary(Passed("manifest.signature", M)) /\ Ordinary(Failed("manifest.signature", M))
      /\ Ordinary(Judge("manifest.valid-until", M, Bad(M, {"valid-until"})))
  BY <1>a, Judgements, BadBool
<1>3. /\ OrdinarySet(Block({"manifest.signature"}, M))
      /\ OrdinarySet(Block(DescriptorChecks \cup CatalogScoped, M))
  BY <1>a, Blocks
<1>4. PICK fs : OrdinarySet(fs) /\ found' = found \cup fs
  <2>1. PICK sig, stepped : /\ Ordinary(sig)
                            /\ \/ found' = found \cup ({sig} \cup Block({"manifest.signature"}, M))
                               \/ found' = found \cup {sig, Failed("manifest.signature", M)}
                               \/ found' = found \cup ({sig} \cup {Passed("manifest.signature", M),
                                     Judge("manifest.valid-until", M, Bad(M, {"valid-until"}))}
                                     \cup PrivacyUri \cup Block(DescriptorChecks \cup CatalogScoped, M))
                               \/ found' = found \cup ({sig} \cup {Passed("manifest.signature", M),
                                     Judge("manifest.valid-until", M, Bad(M, {"valid-until"}))}
                                     \cup PrivacyUri \cup Descriptors)
    BY <1>1, Zenon DEF GetManifestSig, Go, Stop
  <2>2. CASE found' = found \cup ({sig} \cup Block({"manifest.signature"}, M))
    BY <1>3, <2>1, <2>2 DEF OrdinarySet
  <2>3. CASE found' = found \cup {sig, Failed("manifest.signature", M)}
    BY <1>2, <2>1, <2>3 DEF OrdinarySet
  <2>4. CASE found' = found \cup ({sig} \cup {Passed("manifest.signature", M),
                                     Judge("manifest.valid-until", M, Bad(M, {"valid-until"}))}
                                     \cup PrivacyUri \cup Block(DescriptorChecks \cup CatalogScoped, M))
    BY <1>2, <1>3, <2>1, <2>4, PrivacyUriOrdinary DEF OrdinarySet
  <2>5. CASE found' = found \cup ({sig} \cup {Passed("manifest.signature", M),
                                     Judge("manifest.valid-until", M, Bad(M, {"valid-until"}))}
                                     \cup PrivacyUri \cup Descriptors)
    BY <1>2, <2>1, <2>5, PrivacyUriOrdinary, DescriptorsOrdinary DEF OrdinarySet
  <2> QED BY <2>1, <2>2, <2>3, <2>4, <2>5
<1> QED BY <1>4, FindsSet

LEMMA FindsPrivacy == ASSUME GetPrivacy PROVE Finds
<1>1. "privacy.document" \in Plain BY CheckNames
<1>2. \A u, r, pin : Ordinary(Document("privacy.document", M, u, r, Bad(M, {"privacy-digest"}), pin))
  BY <1>1, Judgements, BadBool
<1>3. PICK d : Ordinary(d) /\ found' = found \cup {d}
  BY <1>2, Zenon DEF GetPrivacy, Go
<1>4. OrdinarySet({d}) BY <1>3 DEF OrdinarySet
<1> QED BY <1>3, <1>4, FindsSet

LEMMA FindsPolicy == ASSUME NEW c, GetPolicy(c) PROVE Finds
<1>1. "policy.document" \in Plain BY CheckNames
<1>2. \A u, r, pin : Ordinary(Document("policy.document", <<c>>, u, r, FALSE, pin))
  BY <1>1, Judgements
<1>3. PICK d : Ordinary(d) /\ found' = found \cup {d}
  BY <1>2, Zenon DEF GetPolicy, Go
<1>4. OrdinarySet({d}) BY <1>3 DEF OrdinarySet
<1> QED BY <1>3, <1>4, FindsSet

LEMMA FindsLatest == ASSUME NEW c, GetLatest(c) PROVE Finds
<1>0. /\ {"snapshot.fetch", "snapshot.size", "snapshot.schema", "snapshot.identity"} \subseteq Plain
      /\ SnapshotChecks \cup AfterSignature \subseteq Checks
      /\ (SnapshotChecks \ {"snapshot.size"}) \cup AfterSignature \subseteq Checks
      /\ {"snapshot.identity", "snapshot.signature", "snapshot.detached-sig"} \cup AfterSignature \subseteq Checks
  BY CheckNames DEF SnapshotChecks
<1>1. /\ \A r : Ordinary(Required("snapshot.fetch", <<c>>, r))
      /\ Ordinary(Passed("snapshot.size", <<c>>)) /\ Ordinary(Failed("snapshot.size", <<c>>))
      /\ Ordinary(Failed("snapshot.schema", <<c>>))
  BY <1>0, Judgements
<1>2. /\ \A s : Ordinary(Judge("snapshot.schema", <<c>>, SchemaBad(s)))
      /\ \A s : Ordinary(Judge("snapshot.identity", <<c>>, IdentityBad(s)))
  <2>1. \A s : SchemaBad(s) \in BOOLEAN /\ IdentityBad(s) \in BOOLEAN
    BY DEF SchemaBad, IdentityBad, IsBad
  <2> QED BY <1>0, <2>1, Judgements
<1>3. /\ OrdinarySet(Block(SnapshotChecks \cup AfterSignature, <<c>>))
      /\ OrdinarySet(Block((SnapshotChecks \ {"snapshot.size"}) \cup AfterSignature, <<c>>))
      /\ OrdinarySet(Block({"snapshot.identity", "snapshot.signature", "snapshot.detached-sig"}
                             \cup AfterSignature, <<c>>))
  BY <1>0, Blocks
<1>4. PICK f, g, h : /\ Ordinary(f) /\ Ordinary(g) /\ Ordinary(h)
                     /\ \/ found' = found \cup ({f} \cup Block(SnapshotChecks \cup AfterSignature, <<c>>))
                        \/ found' = found \cup ({f, Failed("snapshot.size", <<c>>)}
                             \cup Block((SnapshotChecks \ {"snapshot.size"}) \cup AfterSignature, <<c>>))
                        \/ found' = found \cup ({f, Passed("snapshot.size", <<c>>), Failed("snapshot.schema", <<c>>)}
                             \cup Block({"snapshot.identity", "snapshot.signature",
                                         "snapshot.detached-sig"} \cup AfterSignature, <<c>>))
                        \/ found' = found \cup {f, Passed("snapshot.size", <<c>>), g, h}
  BY <1>1, <1>2, Zenon DEF GetLatest, Go
<1>5. CASE found' = found \cup ({f} \cup Block(SnapshotChecks \cup AfterSignature, <<c>>))
  BY <1>3, <1>4, <1>5 DEF OrdinarySet, Finds
<1>6. CASE found' = found \cup ({f, Failed("snapshot.size", <<c>>)}
                             \cup Block((SnapshotChecks \ {"snapshot.size"}) \cup AfterSignature, <<c>>))
  BY <1>1, <1>3, <1>4, <1>6 DEF OrdinarySet, Finds
<1>7. CASE found' = found \cup ({f, Passed("snapshot.size", <<c>>), Failed("snapshot.schema", <<c>>)}
                             \cup Block({"snapshot.identity", "snapshot.signature",
                                         "snapshot.detached-sig"} \cup AfterSignature, <<c>>))
  BY <1>1, <1>3, <1>4, <1>7 DEF OrdinarySet, Finds
<1>8. CASE found' = found \cup {f, Passed("snapshot.size", <<c>>), g, h}
  BY <1>1, <1>4, <1>8 DEF Finds
<1> QED BY <1>4, <1>5, <1>6, <1>7, <1>8

LEMMA TimesOrdinary == ASSUME NEW c, NEW s PROVE OrdinarySet(Times(c, s))
<1>1. {"snapshot.dates", "snapshot.window-max", "snapshot.window-short", "snapshot.fresh"} \subseteq Plain
      /\ {"snapshot.window-max", "snapshot.window-short", "snapshot.fresh"} \subseteq Checks
  BY CheckNames DEF Plain
<1>2. Ordinary(Failed("snapshot.dates", <<c>>)) BY <1>1, Judgements
<1>3. OrdinarySet(Block({"snapshot.window-max", "snapshot.window-short", "snapshot.fresh"}, <<c>>))
  BY <1>1, Blocks
<1>4. /\ Ordinary(Judge("snapshot.dates", <<c>>, s.gen > at + Skew \/ s.exp <= s.gen))
      /\ Ordinary(Judge("snapshot.window-max", <<c>>, s.exp - s.gen > MaxWindow))
      /\ Ordinary(Judge("snapshot.window-short", <<c>>, s.exp - s.gen > ShortWindow))
      /\ Ordinary(Judge("snapshot.fresh", <<c>>, s.exp + Skew < at))
  BY <1>1, Judgements DEF Judge
<1> QED BY <1>2, <1>3, <1>4 DEF Times, OrdinarySet

LEMMA EntryOrdinary ==
    ASSUME NEW check \in Plain, NEW c, NEW flaw, NEW over
    PROVE  OrdinarySet(EntryJudged(check, c, flaw, over))
<1>1. \A s : Ordinary(Failed(check, s)) /\ Ordinary(Passed(check, s)) BY Judgements
<1> QED BY <1>1 DEF EntryJudged, OrdinarySet

LEMMA EntriesOrdinary == ASSUME NEW c, NEW s PROVE OrdinarySet(Entries(c, s))
<1>1. EntryChecks \subseteq Plain /\ EntryChecks \subseteq Checks /\ "uri.rules" \in Plain
  BY CheckNames
<1>2. OrdinarySet(Block(EntryChecks, <<c>>)) BY <1>1, Blocks
<1>3. /\ Ordinary(Passed("snapshot.duplicate-component", <<c>>))
      /\ Ordinary(Judge("snapshot.duplicate-component", <<c>>, IsBad(s, {"duplicate"})))
  BY <1>1, Judgements DEF EntryChecks, Judge
<1>4. \A t : Ordinary(Passed("uri.rules", t)) /\ Ordinary(Failed("uri.rules", t)) BY <1>1, Judgements
<1>5. /\ OrdinarySet(EntryJudged("entry.fields", c, "fields", Listing[c]))
      /\ OrdinarySet(EntryJudged("entry.unknown-keys", c, "unknown", Listing[c]))
      /\ OrdinarySet(EntryJudged("entry.seat-type-declared", c, "seat-type", Surviving(c)))
  BY <1>1, EntryOrdinary DEF EntryChecks
<1>6. OrdinarySet({Failed("uri.rules", <<c, x>>) : x \in {y \in Listing[c] : Bad(Entry(c, y), {"uri"})}})
  BY <1>4 DEF OrdinarySet
<1>7. OrdinarySet({Passed("uri.rules", <<c>>) : x \in Surviving(c)}) BY <1>4 DEF OrdinarySet
<1>8. OrdinarySet({Judge("snapshot.duplicate-component", <<c>>, IsBad(s, {"duplicate"}))})
      /\ OrdinarySet({Passed("snapshot.duplicate-component", <<c>>)})
  BY <1>3 DEF OrdinarySet
<1>9. \A S, T : OrdinarySet(S) /\ OrdinarySet(T) => OrdinarySet(S \cup T) BY DEF OrdinarySet
<1> QED BY <1>2, <1>5, <1>6, <1>7, <1>8, <1>9 DEF Entries

LEMMA ContentOrdinary == ASSUME NEW c, NEW s PROVE OrdinarySet(Content(c, s))
<1>1. {"snapshot.policy-digest", "snapshot.chain-fields", "snapshot.entry-count"} \subseteq Plain
      /\ {"snapshot.entry-count"} \subseteq Checks
  BY CheckNames DEF Plain
<1>2. /\ Ordinary(Judge("snapshot.policy-digest", <<c>>,
                        s.policy # got[M].doc.policy[c] \/ IsBad(s, {"policy"})))
      /\ Ordinary(Judge("snapshot.chain-fields", <<c>>, ChainFieldsBad(s)))
      /\ Ordinary(Judge("snapshot.entry-count", <<c>>, IsBad(s, {"entry-count"})))
  BY <1>1, Judgements DEF Judge
<1>3. OrdinarySet(Block({"snapshot.entry-count"}, <<c>>)) BY <1>1, Blocks
<1> QED BY <1>2, <1>3, TimesOrdinary, EntriesOrdinary DEF Content, OrdinarySet

LEMMA FindsLatestSig == ASSUME NEW c, GetLatestSig(c) PROVE Finds
<1>a. PICK s : s = got[<<"latest", c>>].doc OBVIOUS
<1>0. {"snapshot.detached-sig", "snapshot.signature"} \subseteq Plain /\ AfterSignature \subseteq Checks
      /\ Chain4 \subseteq Checks /\ Chain4 \ {"chain.latest-sibling"} \subseteq Checks
  BY CheckNames DEF SnapshotChecks
<1>1. /\ \A u, r, e : Ordinary(Detached("snapshot.detached-sig", <<c>>, u, r, e))
      /\ Ordinary(Passed("snapshot.signature", <<c>>)) /\ Ordinary(Failed("snapshot.signature", <<c>>))
  BY <1>0, Judgements
<1>2. /\ OrdinarySet(Block(AfterSignature, <<c>>)) /\ OrdinarySet(Block(Chain4, <<c>>))
      /\ OrdinarySet(NotApplicable(Chain4 \ {"chain.latest-sibling"}, <<c>>))
      /\ OrdinarySet(Content(c, s))
  BY <1>0, Blocks, ContentOrdinary
<1>3. PICK f, fs : /\ Ordinary(f) /\ OrdinarySet(fs)
                   /\ \/ found' = found \cup ({f, Failed("snapshot.signature", <<c>>)} \cup fs)
                      \/ found' = found \cup ({f, Passed("snapshot.signature", <<c>>)} \cup Content(c, s) \cup fs)
                      \/ found' = found \cup ({f, Passed("snapshot.signature", <<c>>)} \cup Content(c, s))
  BY <1>a, <1>1, <1>2, Zenon DEF GetLatestSig, Go
<1> QED BY <1>1, <1>2, <1>3 DEF OrdinarySet, Finds

LEMMA FindsNewest == ASSUME NEW c, GetNewest(c) PROVE Finds
<1>1. "chain.latest-sibling" \in Plain BY CheckNames
<1>2. PICK r, s : found' = found \cup {<< "chain.latest-sibling", <<c>>,
                       CASE State(r, TRUE) = "unknown" -> "inconclusive"
                         [] State(r, TRUE) \in {"absent", "refused"} -> "not-applicable"
                         [] State(r, TRUE) = "ok" -> IF r.doc = s THEN "pass" ELSE "fail" >>}
  BY Zenon DEF GetNewest, Go
<1>3. PICK o : /\ o = CASE State(r, TRUE) = "unknown" -> "inconclusive"
                        [] State(r, TRUE) \in {"absent", "refused"} -> "not-applicable"
                        [] State(r, TRUE) = "ok" -> IF r.doc = s THEN "pass" ELSE "fail"
               /\ found' = found \cup {<<"chain.latest-sibling", <<c>>, o>>}
  BY <1>2
<1>4. o \in Outcomes
  <2>1. State(r, TRUE) \in {"ok", "unknown", "absent", "refused"} BY StateIs
  <2> QED BY <1>3, <2>1 DEF Outcomes
<1>5. Ordinary(<<"chain.latest-sibling", <<c>>, o>>) BY <1>1, <1>4 DEF Ordinary, Sound, Plain
<1> QED BY <1>3, <1>5 DEF Finds

LEMMA FindsSibling == ASSUME NEW c, NEW k, GetSibling(c, k) PROVE Finds
<1>1. "chain.sibling-valid" \in Plain BY CheckNames
<1>2. /\ Ordinary(Failed("chain.sibling-valid", <<c, k>>)) /\ Ordinary(Passed("chain.sibling-valid", <<c, k>>))
  BY <1>1, Judgements
<1>3. \/ found' = found
      \/ found' = found \cup {Failed("chain.sibling-valid", <<c, k>>)}
      \/ found' = found \cup {Passed("chain.sibling-valid", <<c, k>>)}
  BY DEF GetSibling, Go, Judge
<1> QED BY <1>2, <1>3 DEF Finds

LEMMA FindsSiblingSig == ASSUME NEW c, NEW k, GetSiblingSig(c, k) PROVE Finds
<1>1. "snapshot.detached-sig" \in Plain BY CheckNames DEF SnapshotChecks
<1>2. \A u, r, e : Ordinary(Detached("snapshot.detached-sig", <<c, k>>, u, r, e)) BY <1>1, Judgements
<1>3. PICK d : Ordinary(d) /\ found' = found \cup {d}
  BY <1>2, Zenon DEF GetSiblingSig, Go
<1> QED BY <1>3 DEF Finds

LEMMA FindsEntries == ASSUME ExamineEntries PROVE Finds
<1>1. "provider.cross-catalog-digest" \in Plain /\ DestScoped \subseteq Checks BY CheckNames DEF Plain
<1>2. \A c : OrdinarySet(Block(DestScoped, <<c>>)) BY <1>1, Blocks
<1>3. OrdinarySet(CrossCatalog)
  <2>1. /\ Ordinary(Failed("provider.cross-catalog-digest", M))
        /\ Ordinary(Passed("provider.cross-catalog-digest", M))
    BY <1>1, Judgements
  <2> QED BY <2>1 DEF CrossCatalog, OrdinarySet, Judge
<1>4. PICK cs : found' = found \cup (CrossCatalog \cup UNION {Block(DestScoped, <<c>>) : c \in cs})
  BY DEF ExamineEntries, Go
<1> QED BY <1>2, <1>3, <1>4 DEF Finds, OrdinarySet

LEMMA FindsDest == ASSUME NEW x, NEW c, GetDest(x, c) PROVE Finds
<1>a. PICK es : es = <<c, x>> OBVIOUS
<1>1. DestScoped \subseteq Plain /\ DestScoped \ {"dest.retrievable"} \subseteq Checks
      /\ {"dest.fields", "dest.signature"} \subseteq Checks
      /\ {"dest.retrievable", "dest.digest"} \subseteq Plain
  BY CheckNames DEF DestScoped
<1>2. /\ \A r : Ordinary(Required("dest.retrievable", es, r))
      /\ Ordinary(Passed("dest.retrievable", es)) /\ Ordinary(Failed("dest.retrievable", es))
      /\ Ordinary(Passed("dest.digest", es)) /\ Ordinary(Failed("dest.digest", es))
  BY <1>1, Judgements
<1>3. /\ OrdinarySet(Block(DestScoped \ {"dest.retrievable"}, es))
      /\ OrdinarySet(Block({"dest.fields", "dest.signature"}, es))
  BY <1>1, Blocks
<1>4. \A u : Ordinary(DestFields(es, u)) /\ Ordinary(DestSignature(es, u))
  BY <1>1, CheckNames DEF DestFields, DestSignature, Ordinary, Sound, Outcomes, Plain
<1>5. PICK f, g, fs : /\ Ordinary(f) /\ Ordinary(g) /\ OrdinarySet(fs)
                      /\ \/ found' = found \cup ({f} \cup fs)
                         \/ found' = found \cup ({Passed("dest.retrievable", es), f} \cup fs)
                         \/ found' = found \cup {Passed("dest.retrievable", es), Passed("dest.digest", es), f, g}
  <2>1. \A r : Ordinary(IF State(r, FALSE) = "ok" THEN Failed("dest.retrievable", es)
                        ELSE Required("dest.retrievable", es, r))
    BY <1>2
  <2> QED BY <1>a, <1>2, <1>3, <1>4, <2>1, Zenon DEF GetDest, Go
<1> QED BY <1>2, <1>5 DEF Finds, OrdinarySet

LEMMA FindsFinish == ASSUME Finish PROVE Finds
<1>1. "serving.no-cookies" \in Plain BY CheckNames
<1>2. \A s : Ordinary(Failed("serving.no-cookies", s)) /\ Ordinary(Passed("serving.no-cookies", s))
  BY <1>1, Judgements
<1>3. OrdinarySet(Cookies) BY <1>2 DEF Cookies, OrdinarySet
<1> QED BY <1>3, FindsSet DEF Finish

LEMMA FindsStart == ASSUME Place, Start PROVE Finds
<1>1. "manifest.uri" \in Plain BY CheckNames
<1>2. Ordinary(Judge("manifest.uri", M, Bad(M, {"uri"}))) BY <1>1, Judgements, BadBool
<1>3. found = {} /\ found' = {Judge("manifest.uri", M, Bad(M, {"uri"}))}
  BY DEF Place, Start
<1> QED BY <1>2, <1>3 DEF Finds

LEMMA RunFinds ==
    ASSUME Place, RunNext
    PROVE  Finds \/ \E c \in Catalogs : CheckChain(c)
<1>1. CASE Probe BY <1>1 DEF Probe, Finds
<1>2. CASE Start BY <1>2, FindsStart
<1>3. CASE Finish BY <1>3, FindsFinish
<1>4. CASE GetManifest \/ GetManifestSig \/ GetPrivacy \/ ExamineEntries
  BY <1>4, FindsManifest, FindsManifestSig, FindsPrivacy, FindsEntries
<1>5. ASSUME NEW c \in Catalogs, GetPolicy(c) \/ GetLatest(c) \/ GetLatestSig(c) \/ GetNewest(c)
      PROVE  Finds
  BY <1>5, FindsPolicy, FindsLatest, FindsLatestSig, FindsNewest
<1>6. ASSUME NEW c \in Catalogs, NEW k \in 1..MaxSeq, GetSibling(c, k) \/ GetSiblingSig(c, k) PROVE Finds
  BY <1>6, FindsSibling, FindsSiblingSig
<1>7. ASSUME NEW c \in Catalogs, NEW x \in Components, GetDest(x, c) PROVE Finds
  BY <1>7, FindsDest
<1> QED BY <1>1, <1>2, <1>3, <1>4, <1>5, <1>6, <1>7 DEF RunNext

(* What CheckChain finds, and when it is a failure.                           *)
ChainEnds(c, f) ==
    \/ f[1] = "chain.retention" /\ f[3] # "fail" /\ f[3] \in Outcomes
    \/ f[1] = "chain.sibling-valid" /\ f[3] = "not-applicable"
    \/ f[1] = "chain.links" /\ f[3] # "fail" /\ f[3] \in Outcomes
    \/ \E k : /\ f = Failed("chain.retention", <<c, k>>)
              /\ k \in Lowest(L(c).seq)..(L(c).seq - 1)
              /\ Fetched(c, k) \in {"absent", "refused"} /\ Evidence(c, k, Lowest(L(c).seq))
    \/ \E k : /\ f = Failed("chain.links", <<c, k>>)
              /\ k \in Lowest(L(c).seq)..(L(c).seq - 1)
              /\ Comparable(c, k) /\ Upper(c, k) # Digest(Sibling(c, k).doc)

LEMMA FindsChain ==
    ASSUME NEW c, CheckChain(c)
    PROVE  found \subseteq found' /\ \A f \in found' : f \in found \/ ChainEnds(c, f)
<1>a. PICK n : n = L(c).seq OBVIOUS
<1>b. PICK lo : lo = Lowest(n) OBVIOUS
<1>1. PICK na : /\ found' = found \cup (Retention(c, lo, n - 1) \cup Links(c, lo, n - 1) \cup na)
                /\ na \subseteq NotApplicable({"chain.sibling-valid"}, <<c>>)
  BY <1>a, <1>b DEF CheckChain, Go, L
<1>2. \A f \in na : ChainEnds(c, f) BY <1>1 DEF NotApplicable, ChainEnds
<1>3. ASSUME NEW f \in Retention(c, lo, n - 1) PROVE ChainEnds(c, f)
  <2>1. CASE f = Passed("chain.retention", <<c>>) BY <2>1 DEF Passed, ChainEnds, Outcomes
  <2>2. ASSUME NEW s, f = <<"chain.retention", s, "inconclusive">> PROVE ChainEnds(c, f)
    BY <2>2 DEF ChainEnds, Outcomes
  <2>3. ASSUME NEW s, f \in NotApplicable({"chain.retention"}, s) PROVE ChainEnds(c, f)
    BY <2>3 DEF NotApplicable, ChainEnds, Outcomes
  <2>4. ASSUME NEW k \in lo..(n - 1), f = Failed("chain.retention", <<c, k>>),
               Fetched(c, k) \in {"absent", "refused"} /\ Evidence(c, k, lo)
        PROVE  ChainEnds(c, f)
    BY <1>a, <1>b, <2>4 DEF ChainEnds
  <2>5. \/ f = Passed("chain.retention", <<c>>)
        \/ \E k : f = <<"chain.retention", <<c, k>>, "inconclusive">>
        \/ \E k \in lo..(n - 1) : /\ f = Failed("chain.retention", <<c, k>>)
                                  /\ Fetched(c, k) \in {"absent", "refused"} /\ Evidence(c, k, lo)
        \/ \E k : f \in NotApplicable({"chain.retention"}, <<c, k>>)
        \/ f \in NotApplicable({"chain.retention"}, <<c>>)
    <3>1. CASE f \in {Passed("chain.retention", <<c>>) : k \in {j \in lo..(n - 1) : Usable(c, j)}}
      BY <3>1
    <3>2. CASE f \in {<<"chain.retention", <<c, k>>, "inconclusive">> :
                          k \in {j \in lo..(n - 1) : Fetched(c, j) = "unknown"}}
      BY <3>2
    <3>3. CASE f \in {Failed("chain.retention", <<c, k>>) :
              k \in {j \in lo..(n - 1) : Fetched(c, j) \in {"absent", "refused"} /\ Evidence(c, j, lo)}}
      BY <3>3
    <3>4. CASE f \in UNION {NotApplicable({"chain.retention"}, <<c, k>>) :
              k \in {j \in lo..(n - 1) : Fetched(c, j) \in {"absent", "refused"} /\ ~Evidence(c, j, lo)}}
      <4>1. PICK g \in {NotApplicable({"chain.retention"}, <<c, k>>) :
              k \in {j \in lo..(n - 1) : Fetched(c, j) \in {"absent", "refused"} /\ ~Evidence(c, j, lo)}} : f \in g
        BY <3>4
      <4>2. \E k : g = NotApplicable({"chain.retention"}, <<c, k>>) BY <4>1
      <4> QED BY <4>1, <4>2
    <3>5. CASE f \in (IF lo > 1 THEN NotApplicable({"chain.retention"}, <<c>>) ELSE {})
      BY <3>5
    <3> QED BY <1>3, <3>1, <3>2, <3>3, <3>4, <3>5 DEF Retention
  <2> QED BY <2>1, <2>2, <2>3, <2>4, <2>5
<1>4. ASSUME NEW f \in Links(c, lo, n - 1) PROVE ChainEnds(c, f)
  <2>1. ASSUME NEW k \in lo..(n - 1), Comparable(c, k),
               f = Judge("chain.links", <<c, k>>, Upper(c, k) # Digest(Sibling(c, k).doc))
        PROVE  ChainEnds(c, f)
    <3>1. CASE Upper(c, k) # Digest(Sibling(c, k).doc)
      <4>1. f = Failed("chain.links", <<c, k>>) BY <2>1, <3>1 DEF Judge
      <4> QED BY <1>a, <1>b, <2>1, <3>1, <4>1 DEF ChainEnds
    <3>2. CASE ~(Upper(c, k) # Digest(Sibling(c, k).doc))
      <4>1. f = Passed("chain.links", <<c, k>>) BY <2>1, <3>2 DEF Judge
      <4> QED BY <4>1 DEF Passed, ChainEnds, Outcomes
    <3> QED BY <3>1, <3>2
  <2>2. ASSUME NEW s, f = <<"chain.links", s, "inconclusive">> \/ f = <<"chain.links", s, "not-applicable">>
        PROVE  ChainEnds(c, f)
    BY <2>2 DEF ChainEnds, Outcomes
  <2>3. /\ \A k : Judge("chain.links", <<c, k>>, Upper(c, k) # Digest(Sibling(c, k).doc))
                = IF Upper(c, k) # Digest(Sibling(c, k).doc) THEN Failed("chain.links", <<c, k>>)
                  ELSE Passed("chain.links", <<c, k>>)
    BY DEF Judge
  <2> QED BY <2>1, <2>2 DEF Links
<1> QED BY <1>1, <1>2, <1>3, <1>4

LEMMA ChainEndsSound == ASSUME NEW c, NEW f, ChainEnds(c, f) PROVE Sound(f)
BY CheckNames DEF ChainEnds, Sound, Failed, Outcomes, Plain

-------------------------------------------------------------------------------
(* Types.                                                                     *)
Typed ==
    /\ \A f \in found : Sound(f)
    /\ at \in Nat /\ deadline \in Nat \cup {None} /\ stopped \in BOOLEAN

LEMMA RunTimes ==
    ASSUME RunNext
    PROVE  \/ /\ phase = "idle" /\ UNCHANGED <<at, found, stopped>> /\ deadline' = now + HubTime
              /\ phase' \in {"probed", "refused"}
           \/ Start
           \/ Finish
           \/ /\ UNCHANGED <<at, deadline>> /\ phase = "run" /\ phase' = "run"
              /\ stopped' \in {stopped, TRUE}
<1>1. CASE Probe BY <1>1 DEF Probe
<1>2. CASE Start \/ Finish BY <1>2
<1>3. CASE GetManifest \/ GetManifestSig \/ GetPrivacy \/ ExamineEntries
  BY <1>3 DEF GetManifest, GetManifestSig, GetPrivacy, ExamineEntries, Go, Stop, Doing, Running
<1>4. ASSUME NEW c \in Catalogs, GetPolicy(c) \/ GetLatest(c) \/ GetLatestSig(c) \/ GetNewest(c) \/ CheckChain(c)
      PROVE  UNCHANGED <<at, deadline>> /\ phase = "run" /\ phase' = "run" /\ stopped' \in {stopped, TRUE}
  BY <1>4 DEF GetPolicy, GetLatest, GetLatestSig, GetNewest, CheckChain, Go, Doing, Running
<1>5. ASSUME NEW c \in Catalogs, NEW k \in 1..MaxSeq, GetSibling(c, k) \/ GetSiblingSig(c, k)
      PROVE  UNCHANGED <<at, deadline>> /\ phase = "run" /\ phase' = "run" /\ stopped' \in {stopped, TRUE}
  BY <1>5 DEF GetSibling, GetSiblingSig, Go, Doing, Running
<1>6. ASSUME NEW c \in Catalogs, NEW x \in Components, GetDest(x, c)
      PROVE  UNCHANGED <<at, deadline>> /\ phase = "run" /\ phase' = "run" /\ stopped' \in {stopped, TRUE}
  BY <1>6 DEF GetDest, Go, Running
<1> QED BY <1>1, <1>2, <1>3, <1>4, <1>5, <1>6 DEF RunNext

LEMMA TypedStep == Base /\ Typed /\ [Next]_vars => Typed'
<1> SUFFICES ASSUME Base, Typed, [Next]_vars PROVE Typed' OBVIOUS
<1>1. now \in Nat /\ HubTime \in Nat BY CatalogsFacts DEF Base, Deployed
<1>2. CASE RunNext
  <2>1. \A f \in found' : Sound(f)
    <3>1. CASE Finds BY <3>1 DEF Finds, Ordinary, Typed
    <3>2. ASSUME NEW c \in Catalogs, CheckChain(c) PROVE \A f \in found' : Sound(f)
      BY <3>2, FindsChain, ChainEndsSound DEF Typed
    <3> QED BY <1>2, <3>1, <3>2, RunFinds DEF Base
  <2>2. at' \in Nat /\ deadline' \in Nat \cup {None} /\ stopped' \in BOOLEAN
    <3>1. now + HubTime \in Nat BY <1>1
    <3>2. CASE Start BY <1>1, <3>2, BadBool DEF Start, Typed
    <3>3. CASE Finish BY <3>3 DEF Finish, Typed
    <3> QED BY <1>2, <3>1, <3>2, <3>3, RunTimes DEF Typed
  <2> QED BY <2>1, <2>2 DEF Typed, Sound
<1>3. CASE ProviderNext
  <2>1. UNCHANGED <<at, deadline, found, stopped>> BY <1>3, ProviderKeeps DEF Base
  <2> QED BY <2>1 DEF Typed, Sound
<1>4. CASE UNCHANGED vars BY <1>4 DEF Typed, Sound, vars
<1> QED BY <1>2, <1>3, <1>4 DEF Next, Over

LEMMA TypedInit == Init => Typed
<1> SUFFICES ASSUME Init PROVE Typed OBVIOUS
<1>1. found = {} /\ at = 0 /\ deadline = None /\ stopped = FALSE BY DEF Init
<1> QED BY <1>1 DEF Typed

LEMMA TaskKinds ==
    ASSUME Place
    PROVE  doing[1] \in {"manifest", "manifest.sig", "privacy", "policy", "latest", "latest.sig", "newest",
                   "sibling", "sibling.sig", "chain", "entries", "dests", "end"}
<1>1. CASE doing \in {M, <<"manifest.sig">>, <<"privacy">>, <<"entries">>, End} BY <1>1 DEF M, End
<1>2. CASE \E es \in SUBSET (Catalogs \X Components) : doing = <<"dests", es>> BY <1>2
<1>3. ASSUME NEW c \in Public, TaskOf(c)
      PROVE  doing[1] \in {"policy", "latest", "latest.sig", "newest", "sibling", "sibling.sig", "chain"}
  <2>1. CASE \E k : doing \in {<<"sibling", c, k>>, <<"sibling.sig", c, k>>} BY <2>1
  <2>2. CASE doing \in {<<"policy", c>>, <<"latest", c>>, <<"latest.sig", c>>, <<"newest", c>>, <<"chain", c>>}
    BY <2>2
  <2> QED BY <1>3, <2>1, <2>2 DEF TaskOf
<1> QED BY <1>1, <1>2, <1>3 DEF Place, Task

LEMMA TypeOKIs == Base /\ Typed => TypeOK
<1> SUFFICES ASSUME Base, Typed PROVE TypeOK OBVIOUS
<1>1. \A c \in Catalogs : DOMAIN chain[c] = 1..Len(chain[c]) /\ DOMAIN shelf[c] = 1..MaxSeq
  <2> TAKE c \in Catalogs
  <2>1. chain[c] \in Seq(SnapshotSet) /\ shelf[c] \in [1..MaxSeq -> SnapshotSet \cup {None}]
    BY DEF Base, Deployed
  <2> QED BY <2>1
<1>2. doing[1] \in {"manifest", "manifest.sig", "privacy", "policy", "latest", "latest.sig", "newest",
                   "sibling", "sibling.sig", "chain", "entries", "dests", "end"}
  BY TaskKinds DEF Base
<1>3. \A f \in found : f[1] \in Checks /\ f[3] \in {"pass", "fail", "inconclusive", "not-applicable"}
  BY DEF Typed, Sound, Outcomes
<1> QED BY <1>1, <1>2, <1>3 DEF Base, Typed, Place, Deployed, TypeOK

(* The run is always at one of its tasks, and every check it has come to has  *)
(* one of the four outcomes.                                                  *)
THEOREM SpecTypeOK == Spec => []TypeOK
<1>1. Init => Base /\ Typed BY BaseInit, TypedInit
<1>2. Base /\ Typed /\ [Next]_vars => Base' /\ Typed' BY BaseStep, TypedStep
<1>3. Base /\ Typed => TypeOK BY TypeOKIs
<1> QED BY <1>1, <1>2, <1>3, PTL DEF Spec

-------------------------------------------------------------------------------
(* A broken link is proof.                                                    *)
LEMMA LinkProves ==
    ASSUME Base, NEW c, CheckChain(c), NEW k \in Lowest(L(c).seq)..(L(c).seq - 1),
           Comparable(c, k), Upper(c, k) # Digest(Sibling(c, k).doc)
    PROVE  Forked(c, k)
<1>1. c \in Public /\ WalkDone(c)
  <2>1. doing = <<"chain", c>> BY MoveChain DEF Doing
  <2> QED BY <2>1, AtCatalog DEF Base
<1>2. /\ L(c).seq \in Nat /\ L(c).seq >= 1 /\ L(c).seq <= MaxSeq /\ SnapOK(c, L(c)) /\ c \in Catalogs
      /\ MaxSeq \in Nat
  BY <1>1, SeqRange, CatalogsFacts DEF WalkDone, Base
<1>3. k \in Nat /\ (k + 1 # L(c).seq => k + 1 \in Lowest(L(c).seq)..(L(c).seq - 1))
  BY <1>2, LowestIs
<1>4. ASSUME NEW j \in Lowest(L(c).seq)..(L(c).seq - 1), Usable(c, j)
      PROVE  SnapOK(c, Sibling(c, j).doc) /\ Sibling(c, j).doc.seq = j
  <2>1. got[<<"sibling", c, j>>].st = "200" /\ Sibling(c, j).doc.seq = j
    BY <1>4, StateIs DEF Usable, Fetched, Sibling
  <2>2. <<"sibling", c, j>> \in DOMAIN got BY <1>1 DEF WalkDone
  <2>3. j \in 1..MaxSeq BY <1>2, LowestIs
  <2> QED BY <1>2, <2>1, <2>2, <2>3 DEF Base, FetchInv, Has, Sibling
<1>5. PICK s : s = Sibling(c, k).doc OBVIOUS
<1>6. SnapOK(c, s) /\ s.seq = k BY <1>3, <1>4, <1>5 DEF Comparable
<1>7. PICK p : p = Upper(c, k) OBVIOUS
<1>8. p # None /\ p # <<s.seq, s.alt>> BY <1>5, <1>7 DEF Comparable, Digest
<1>9. p \in Nat \X {0, 1} /\ p[1] = k /\ (p[2] = 1 => Forked(c, k))
  <2>1. PICK t : p = t.prev /\ SnapOK(c, t) /\ t.seq = k + 1
    <3>1. CASE k + 1 = L(c).seq
      <4>1. k + 1 = got[<<"latest", c>>].doc.seq BY <3>1 DEF L
      <4>2. p = L(c).prev BY <1>7, <1>8, <4>1 DEF Upper, L
      <4> QED BY <1>2, <3>1, <4>2
    <3>2. CASE k + 1 # L(c).seq
      <4>1. ~(k + 1 = got[<<"latest", c>>].doc.seq) BY <3>2 DEF L
      <4>2. Usable(c, k + 1) BY <1>7, <1>8, <4>1 DEF Upper
      <4>3. p = Sibling(c, k + 1).doc.prev BY <1>7, <1>8, <4>1, <4>2 DEF Upper
      <4> QED BY <1>3, <1>4, <3>2, <4>2, <4>3
    <3> QED BY <3>1, <3>2
  <2>2. t.seq - 1 = k BY <1>3, <2>1
  <2> QED BY <1>8, <2>1, <2>2 DEF SnapOK
<1>10. s.alt \in {0, 1} /\ (s.alt = 1 => Forked(c, k)) BY <1>6 DEF SnapOK, SnapshotSet
<1> QED BY <1>6, <1>8, <1>9, <1>10

ForkInv == \A f \in found : f[1] = "chain.links" /\ f[3] = "fail" => Forked(f[2][1], f[2][2])

LEMMA ForkStep == Base /\ ForkInv /\ [Next]_vars => ForkInv'
<1> SUFFICES ASSUME Base, ForkInv, [Next]_vars, NEW f \in found', f[1] = "chain.links", f[3] = "fail"
             PROVE  Forked(f[2][1], f[2][2])'
  BY DEF ForkInv
<1>1. wrongs \subseteq wrongs' BY RunKeeps, ProviderKeeps DEF Next, Over, vars, deployment, Base
<1>2. CASE f \in found
  <2>1. Forked(f[2][1], f[2][2]) BY <1>2 DEF ForkInv
  <2> QED BY <1>1, <2>1 DEF Forked
<1>3. CASE f \notin found
  <2>1. RunNext /\ ~Finds
    <3>1. ~UNCHANGED vars /\ ~ProviderNext BY <1>3, ProviderKeeps DEF vars, Base
    <3>2. ~Finds BY <1>3 DEF Finds, Ordinary
    <3> QED BY <3>1, <3>2 DEF Next, Over
  <2>2. PICK c \in Catalogs : CheckChain(c) BY <2>1, RunFinds DEF Base
  <2>3. ChainEnds(c, f) BY <1>3, <2>2, FindsChain
  <2>4. PICK k : /\ f = Failed("chain.links", <<c, k>>)
                 /\ k \in Lowest(L(c).seq)..(L(c).seq - 1)
                 /\ Comparable(c, k) /\ Upper(c, k) # Digest(Sibling(c, k).doc)
    BY <2>3 DEF ChainEnds, Failed
  <2>5. Forked(c, k) BY <2>2, <2>4, LinkProves
  <2>6. f[2][1] = c /\ f[2][2] = k BY <2>4 DEF Failed
  <2> QED BY <1>1, <2>5, <2>6 DEF Forked
<1> QED BY <1>2, <1>3

(* A broken link is proof: from any deployment, behind any losses, a link the *)
(* suite fails is a fork of the provider's.                                   *)
THEOREM SpecForkIsProof == Spec => []ForkIsProof
<1>1. Init => Base /\ ForkInv BY BaseInit DEF Init, ForkInv
<1>2. Base /\ ForkInv /\ [Next]_vars => Base' /\ ForkInv' BY BaseStep, ForkStep
<1>3. ForkInv => ForkIsProof BY DEF ForkInv, ForkIsProof, Forked
<1> QED BY <1>1, <1>2, <1>3, PTL DEF Spec

-------------------------------------------------------------------------------
(* Gaps. A snapshot no longer served was dropped, or went when it expired,    *)
(* and then whatever had expired by that time had gone with it.               *)
Gone(c, k) == \A j \in 1..(k - 1) : chain[c][j].exp <= chain[c][k].exp => shelf[c][j] = None
ShelfGap == \A c \in Catalogs : \A k \in 1..Len(chain[c]) : shelf[c][k] = None => NotKept(c, k) \/ Gone(c, k)

(* What the walk found missing it could not have found later, nor the older.  *)
Missing(u) == u \in DOMAIN got /\ State(got[u], TRUE) \in {"absent", "refused"}
Unmet(c, k) ==
    \A j \in 1..(k - 1) : chain[c][j].exp <= chain[c][k].exp => ~Has(<<"sibling", c, j>>)
GotGap ==
    \A c \in Catalogs : \A k \in 1..MaxSeq : Missing(<<"sibling", c, k>>) =>
        NotKept(c, k) \/ (Gone(c, k) /\ Unmet(c, k))
Gaps == ShelfGap /\ GotGap

LEMMA NotKeptStays ==
    ASSUME flaws' = flaws, wrongs \subseteq wrongs', NEW c, NEW k, NotKept(c, k)
    PROVE  NotKept(c, k)'
BY DEF NotKept, Bad

LEMMA GoneStays ==
    ASSUME Deployed, NEW c \in Catalogs, Kept(c), NEW k \in 1..Len(chain[c])
    PROVE  /\ Gone(c, k) => Gone(c, k)'
           /\ \A j \in 1..(k - 1) : /\ chain'[c][j].exp = chain[c][j].exp
                                    /\ chain'[c][k].exp = chain[c][k].exp /\ j \in 1..Len(chain[c])
<1>1. Len(chain[c]) \in Nat /\ k \in Nat BY ChainRange
<1>2. \A j \in 1..k : j \in 1..Len(chain[c]) /\ chain'[c][j].exp = chain[c][j].exp
  BY <1>1 DEF Kept
<1>3. k \in 1..k /\ \A j \in 1..(k - 1) : j \in 1..k BY <1>1
<1> QED BY <1>2, <1>3 DEF Gone, Kept

LEMMA ShelfGapInit == Init => ShelfGap
<1> SUFFICES ASSUME Init, NEW c \in Catalogs, NEW k \in 1..Len(chain[c]) PROVE shelf[c][k] # None
  BY DEF ShelfGap
<1>1. Deployed BY DeployedInit
<1>2. chain[c][k] \in SnapshotSet /\ k \in 1..MaxSeq BY <1>1, ChainLast
<1>3. Len(chain[c]) = Length[c]
  <2>1. Length[c] \in Nat BY CatalogsFacts
  <2>2. chain[c] = [i \in 1..Length[c] |-> Snapshot(c, i, IF i = 1 THEN None ELSE <<i - 1, 0>>, 1, i)]
    BY DEF Init, Founding
  <2>3. chain[c] \in Seq(SnapshotSet) BY <1>1 DEF Deployed
  <2>4. DOMAIN chain[c] = 1..Len(chain[c]) /\ Len(chain[c]) \in Nat BY <2>3
  <2>5. DOMAIN chain[c] = 1..Length[c] BY <2>2
  <2> QED BY <2>1, <2>4, <2>5
<1>4. shelf[c][k] = chain[c][k] BY <1>2, <1>3, CatalogsFacts DEF Init
<1> QED BY <1>2, <1>4, CatalogsFacts

LEMMA ShelfGapStep ==
    ASSUME Deployed, ShelfGap, ProviderNext
    PROVE  ShelfGap'
<1> SUFFICES ASSUME NEW c \in Catalogs, NEW k \in 1..Len(chain'[c]), shelf'[c][k] = None
             PROVE  (NotKept(c, k) \/ Gone(c, k))'
  BY DEF ShelfGap
<1>1. Kept(c) /\ flaws' = flaws /\ wrongs \subseteq wrongs' BY ProviderDeploys, ProviderKeeps
<1>2. /\ Len(chain[c]) \in Nat /\ Len(chain[c]) <= MaxSeq /\ MaxSeq \in Nat /\ Length[c] \in Nat
  BY ChainRange
<1>3. ASSUME k \in 1..Len(chain[c]), shelf[c][k] = None PROVE (NotKept(c, k) \/ Gone(c, k))'
  BY <1>1, <1>3, NotKeptStays, GoneStays DEF ShelfGap
<1>4. CASE UNCHANGED <<chain[c], shelf[c]>> BY <1>3, <1>4
<1>5. CASE Publish(c)
  <2>1. PICK n, s : Published(c, n, s) BY <1>5, PublishSteps
  <2>2. k \in 1..n /\ n = Len(chain[c]) + 1 /\ s # None /\ k \in 1..MaxSeq
        /\ shelf'[c][k] = IF k = n THEN s ELSE shelf[c][k]
    BY <1>2, <2>1, CatalogsFacts DEF Published
  <2> QED BY <1>2, <1>3, <2>2
<1>6. CASE Equivocate(c)
  <2>1. PICK n, t : Equivocated(c, n, t) BY <1>6, EquivocateSteps
  <2>2. shelf' = shelf /\ Len(chain'[c]) = Len(chain[c]) BY <2>1 DEF Equivocated
  <2> QED BY <1>3, <2>2
<1>7. CASE Prune(c)
  <2>1. /\ chain' = chain
        /\ shelf'[c] = [j \in 1..MaxSeq |->
                IF j < Len(chain[c]) /\ chain[c][j].exp <= now THEN None ELSE shelf[c][j]]
    BY <1>7 DEF Prune, Deployed
  <2>2. CASE shelf[c][k] = None BY <1>3, <2>1, <2>2
  <2>3. CASE shelf[c][k] # None
    <3>1. k \in 1..MaxSeq /\ k \in Nat BY <1>2, <2>1
    <3>2. k < Len(chain[c]) /\ chain[c][k].exp <= now BY <2>1, <2>3, <3>1
    <3>3. \A j \in 1..Len(chain[c]) : chain[c][j].exp \in Nat
      BY ChainLast DEF SnapshotSet
    <3>4. now \in Nat BY DEF Deployed
    <3>5. ASSUME NEW j \in 1..(k - 1), chain[c][j].exp <= chain[c][k].exp PROVE shelf'[c][j] = None
      <4>1. j \in 1..MaxSeq /\ j < Len(chain[c]) /\ j \in 1..Len(chain[c]) /\ k \in 1..Len(chain[c])
        BY <1>2, <3>1, <3>2
      <4>2. chain[c][j].exp <= now BY <3>2, <3>3, <3>4, <3>5, <4>1
      <4> QED BY <2>1, <4>1, <4>2
    <3> QED BY <2>1, <3>5 DEF Gone
  <2> QED BY <2>2, <2>3
<1>8. ASSUME NEW i \in 1..Len(chain[c]), Drop(c, i) PROVE (NotKept(c, k) \/ Gone(c, k))'
  <2>1. /\ chain' = chain /\ shelf' = [shelf EXCEPT ![c][i] = None]
        /\ wrongs' = wrongs \cup {<<"dropped", c, i, phase = "run">>}
    BY <1>8 DEF Drop, Wrong
  <2>2. CASE k = i
    <3>1. (phase = "run") \in BOOLEAN OBVIOUS
    <3>2. NotKept(c, k)' BY <2>1, <2>2, <3>1, Zenon DEF NotKept
    <3> QED BY <3>2
  <2>3. CASE k # i
    <3>1. k \in 1..MaxSeq BY <1>2, <2>1
    <3>2. shelf'[c][k] = shelf[c][k] BY <2>1, <2>3, <3>1 DEF Deployed
    <3> QED BY <1>3, <2>1, <3>2
  <2> QED BY <2>2, <2>3
<1>9. ASSUME NEW i \in 1..Len(chain[c]), NEW s \in {Last(chain[c]), Twin(chain[c][i])}, Replace(c, i, s)
      PROVE  (NotKept(c, k) \/ Gone(c, k))'
  <2>1. chain' = chain /\ shelf' = [shelf EXCEPT ![c][i] = s] BY <1>9 DEF Replace
  <2>2. s # None
    <3>1. s \in SnapshotSet BY ChainLast, TwinTyped
    <3> QED BY <3>1, CatalogsFacts
  <2>3. k \in 1..MaxSeq /\ i \in 1..MaxSeq BY <1>2, <2>1
  <2>4. shelf'[c][k] = IF k = i THEN s ELSE shelf[c][k] BY <2>1, <2>3 DEF Deployed
  <2> QED BY <1>3, <2>1, <2>2, <2>4
<1> QED BY <1>4, <1>5, <1>6, <1>7, <1>8, <1>9, ProviderSteps

LEMMA MissingServed ==
    ASSUME NEW c, NEW k, NEW r, r = Served(<<"sibling", c, k>>) \/ r \in {Answer("lost"), Answer("spent")}
    PROVE  /\ State(r, TRUE) \in {"absent", "refused"} => NotKept(c, k) \/ shelf[c][k] = None
           /\ r.st = "200" => shelf[c][k] # None
<1>1. \A st : Answer(st).st = st BY DEF Answer
<1>2. CASE r \in {Answer("lost"), Answer("spent")}
  <2>1. r.st \in {"lost", "spent"} BY <1>1, <1>2
  <2>2. State(r, TRUE) = "unknown" BY <2>1 DEF State
  <2> QED BY <2>1, <2>2
<1>3. CASE Bad(<<"sibling", c, k>>, Statuses) /\ r = Served(<<"sibling", c, k>>)
  <2>1. NotKept(c, k) BY <1>3 DEF NotKept
  <2>2. \E st \in Statuses : r = Answer(st) BY <1>3, ServedIs
  <2> QED BY <1>1, <2>1, <2>2 DEF Statuses
<1>4. CASE ~Bad(<<"sibling", c, k>>, Statuses) /\ r = Served(<<"sibling", c, k>>)
  <2>1. r = Filed(shelf[c][k], shelf[c][k])
    <3>1. PICK u : u = <<"sibling", c, k>> OBVIOUS
    <3>2. u[1] = "sibling" /\ u[2] = c /\ u[3] = k BY <3>1
    <3> QED BY <1>4, <3>1, <3>2 DEF Served, Body
  <2>2. CASE shelf[c][k] = None BY <1>1, <2>1, <2>2 DEF Filed
  <2>3. CASE shelf[c][k] # None
    <3>1. r.st = "200" BY <2>1, <2>3 DEF Filed, Ok
    <3>2. State(r, TRUE) = "ok" BY <3>1 DEF State
    <3> QED BY <2>3, <3>2
  <2> QED BY <2>2, <2>3
<1> QED BY <1>2, <1>3, <1>4

LEMMA GotGapFetch ==
    ASSUME Base, Gaps, NEW u \in Uris, NEW r, Fetches(u, r), Downward(u)
    PROVE  GotGap'
<1>1. /\ UNCHANGED <<chain, shelf, wrongs, flaws>> /\ DOMAIN got' = DOMAIN got \cup {u} /\ got'[u] = r
      /\ \A v \in DOMAIN got : got'[v] = got[v]
  BY FetchKeeps DEF deployment
<1>2. SUFFICES ASSUME NEW c \in Catalogs, NEW k \in 1..MaxSeq, Missing(<<"sibling", c, k>>)',
                      ~NotKept(c, k)
               PROVE  Gone(c, k) /\ Unmet(c, k)'
  BY <1>1 DEF GotGap, NotKept, Gone, Bad
<1>3. u \notin DOMAIN got => r = Served(u) \/ r \in {Answer("lost"), Answer("spent")}
  BY GetIs DEF Fetches
<1>4. CASE <<"sibling", c, k>> \in DOMAIN got
  <2>1. Missing(<<"sibling", c, k>>) BY <1>1, <1>2, <1>4 DEF Missing, State
  <2>2. Gone(c, k) /\ Unmet(c, k) BY <1>2, <2>1 DEF Gaps, GotGap
  <2>3. ASSUME NEW j \in 1..(k - 1), chain[c][j].exp <= chain[c][k].exp, Has(<<"sibling", c, j>>)'
        PROVE  FALSE
    <3>1. shelf[c][j] = None /\ ~Has(<<"sibling", c, j>>) BY <2>2, <2>3 DEF Gone, Unmet
    <3>2. u = <<"sibling", c, j>> /\ u \notin DOMAIN got /\ r.st = "200" BY <1>1, <2>3, <3>1 DEF Has
    <3>3. shelf[c][j] # None BY <1>3, <3>2, MissingServed
    <3> QED BY <3>1, <3>3
  <2> QED BY <1>1, <2>2, <2>3 DEF Unmet
<1>5. CASE <<"sibling", c, k>> \notin DOMAIN got
  <2>1. u = <<"sibling", c, k>> /\ State(r, TRUE) \in {"absent", "refused"}
    BY <1>1, <1>2, <1>5 DEF Missing, State
  <2>a. r = Served(<<"sibling", c, k>>) \/ r \in {Answer("lost"), Answer("spent")} BY <1>3, <1>5, <2>1
  <2>b. NotKept(c, k) \/ shelf[c][k] = None BY <2>1, <2>a, MissingServed
  <2>2. shelf[c][k] = None BY <1>2, <2>b
  <2>3. k \in 1..Len(chain[c]) /\ \A j \in 1..(k - 1) : <<"sibling", c, j>> \notin DOMAIN got
    <3>1. k <= Len(chain[c]) /\ \A j \in 1..(k - 1) : <<"sibling", c, j>> \notin DOMAIN got
      BY <2>1 DEF Downward
    <3> QED BY <3>1, ChainRange DEF Base
  <2>4. Gone(c, k) BY <1>2, <2>2, <2>3 DEF Gaps, ShelfGap
  <2>5. ASSUME NEW j \in 1..(k - 1) PROVE ~Has(<<"sibling", c, j>>)'
    <3>a. k \in Nat /\ k <= MaxSeq /\ MaxSeq \in Nat BY CatalogsFacts
    <3>b. j # k BY <3>a
    <3>1. <<"sibling", c, j>> \notin DOMAIN got' BY <1>1, <2>1, <2>3, <3>b
    <3> QED BY <3>1 DEF Has
  <2> QED BY <1>1, <2>4, <2>5 DEF Unmet
<1> QED BY <1>4, <1>5

LEMMA GapsStep == Base /\ Gaps /\ [Next]_vars => Gaps'
<1> SUFFICES ASSUME Base, Gaps, [Next]_vars PROVE Gaps' OBVIOUS
<1>1. CASE UNCHANGED <<chain, shelf, wrongs, flaws, got>>
  BY <1>1 DEF Gaps, ShelfGap, GotGap, NotKept, Gone, Unmet, Missing, State, Has, Bad
<1>2. CASE RunNext
  <2>1. UNCHANGED <<chain, shelf, wrongs, flaws>> BY <1>2, RunKeeps
  <2>2. ShelfGap' BY <2>1 DEF Gaps, ShelfGap, NotKept, Gone, Bad
  <2>3. CASE got' = got BY <1>1, <2>1, <2>3
  <2>4. CASE \E u \in Uris : \E r : Fetches(u, r) /\ Downward(u) BY <2>2, <2>4, GotGapFetch DEF Gaps
  <2> QED BY <1>2, <2>3, <2>4, RunFetches
<1>3. CASE ProviderNext
  <2>1. ShelfGap' BY <1>3, ShelfGapStep DEF Base, Gaps
  <2>2. got' = got /\ flaws' = flaws /\ wrongs \subseteq wrongs' BY <1>3, ProviderKeeps DEF Base
  <2>3. ASSUME NEW c \in Catalogs, NEW k \in 1..MaxSeq, Missing(<<"sibling", c, k>>)'
        PROVE  (NotKept(c, k) \/ (Gone(c, k) /\ Unmet(c, k)))'
    <3>1. Missing(<<"sibling", c, k>>) BY <2>2, <2>3 DEF Missing, State
    <3>2. CASE NotKept(c, k) BY <2>2, <3>2, NotKeptStays
    <3>3. CASE Gone(c, k) /\ Unmet(c, k)
      <4>1. k \in 1..Len(chain[c])
        <5>1. k <= Len(chain[c]) BY <3>1 DEF Base, FetchInv, Missing
        <5> QED BY <5>1, ChainRange DEF Base
      <4>2. Kept(c) BY <1>3, ProviderDeploys DEF Base
      <4>3. Gone(c, k)' BY <3>3, <4>1, <4>2, GoneStays DEF Base
      <4>4. Unmet(c, k)' BY <2>2, <3>3, <4>1, <4>2, GoneStays DEF Base, Unmet, Has
      <4> QED BY <4>3, <4>4
    <3> QED BY <3>1, <3>2, <3>3 DEF Gaps, GotGap
  <2> QED BY <2>1, <2>3 DEF Gaps, GotGap
<1>4. CASE UNCHANGED vars BY <1>1, <1>4 DEF vars, deployment
<1> QED BY <1>2, <1>3, <1>4 DEF Next, Over

RetentionInv ==
    \A f \in found : f[1] = "chain.retention" /\ f[3] = "fail" =>
        /\ f[2][1] \in Catalogs
        /\ NotKept(f[2][1], f[2][2]) \/ ~ExpiryGrows(f[2][1])

(* A snapshot found missing: an older one was served after it was not.        *)
LEMMA GapProves ==
    ASSUME Base, Gaps, NEW c, CheckChain(c), NEW k \in Lowest(L(c).seq)..(L(c).seq - 1),
           Fetched(c, k) \in {"absent", "refused"}, Evidence(c, k, Lowest(L(c).seq))
    PROVE  c \in Catalogs /\ (NotKept(c, k) \/ ~ExpiryGrows(c))
<1>1. c \in Public /\ WalkDone(c)
  <2>1. doing = <<"chain", c>> BY MoveChain DEF Doing
  <2> QED BY <2>1, AtCatalog DEF Base
<1>2. /\ L(c).seq \in Nat /\ L(c).seq >= 1 /\ L(c).seq <= Len(chain[c]) /\ c \in Catalogs
      /\ L(c).seq <= MaxSeq /\ MaxSeq \in Nat /\ Len(chain[c]) \in Nat /\ chain[c] \in Seq(SnapshotSet)
  BY <1>1, SeqRange, CatalogsFacts, ChainRange DEF WalkDone, Base, Deployed
<1>a. PICK n : n = L(c).seq OBVIOUS
<1>b. n \in Nat /\ n >= 1 /\ n <= Len(chain[c]) /\ n <= MaxSeq /\ k \in Lowest(n)..(n - 1) BY <1>2, <1>a
<1>c. Lowest(n) \in Nat /\ Lowest(n) >= 1 BY <1>b, LowestIs
<1>d. k \in Nat /\ k >= 1 /\ k <= n BY <1>b, <1>c
<1>3. k \in Nat /\ k \in 1..MaxSeq /\ k \in 1..Len(chain[c]) /\ Lowest(L(c).seq) \in Nat /\ Lowest(L(c).seq) >= 1
  BY <1>2, <1>a, <1>b, <1>c, <1>d
<1>4. PICK j \in Lowest(L(c).seq)..(k - 1) : Usable(c, j) BY DEF Evidence
<1>5. j \in 1..(k - 1) /\ j \in Lowest(L(c).seq)..(L(c).seq - 1) /\ j < k /\ j \in DOMAIN chain[c] /\ k \in DOMAIN chain[c]
  BY <1>2, <1>3
<1>6. Has(<<"sibling", c, j>>)
  <2>1. <<"sibling", c, j>> \in DOMAIN got BY <1>1, <1>5 DEF WalkDone
  <2>2. got[<<"sibling", c, j>>].st = "200" BY <1>4, StateIs DEF Usable, Fetched, Sibling
  <2> QED BY <2>1, <2>2 DEF Has
<1>7. Missing(<<"sibling", c, k>>)
  BY <1>1 DEF WalkDone, Missing, Fetched, Sibling
<1>8. NotKept(c, k) \/ ~(chain[c][j].exp <= chain[c][k].exp)
  BY <1>2, <1>3, <1>5, <1>6, <1>7 DEF Gaps, GotGap, Unmet
<1> QED BY <1>2, <1>5, <1>8 DEF ExpiryGrows

LEMMA ExpiryStays ==
    ASSUME Deployed, NEW c \in Catalogs, Kept(c) \/ chain' = chain, ~ExpiryGrows(c), Deployed'
    PROVE  ~ExpiryGrows(c)'
<1>1. chain[c] \in Seq(SnapshotSet) /\ chain'[c] \in Seq(SnapshotSet) BY DEF Deployed
<1>2. DOMAIN chain[c] = 1..Len(chain[c]) /\ Len(chain[c]) \in Nat /\ DOMAIN chain'[c] = 1..Len(chain'[c])
      /\ Len(chain'[c]) \in Nat
  BY <1>1
<1>3. PICK j, k \in DOMAIN chain[c] : j < k /\ ~(chain[c][j].exp <= chain[c][k].exp) BY DEF ExpiryGrows
<1>4. chain'[c][j].exp = chain[c][j].exp /\ chain'[c][k].exp = chain[c][k].exp BY <1>2, <1>3 DEF Kept
<1>5. j \in DOMAIN chain'[c] /\ k \in DOMAIN chain'[c] BY <1>2, <1>3 DEF Kept
<1> QED BY <1>3, <1>4, <1>5 DEF ExpiryGrows

LEMMA RetentionStep == Base /\ Gaps /\ RetentionInv /\ [Next]_vars => RetentionInv'
<1> SUFFICES ASSUME Base, Gaps, RetentionInv, [Next]_vars, NEW f \in found', f[1] = "chain.retention", f[3] = "fail"
             PROVE  (f[2][1] \in Catalogs /\ (NotKept(f[2][1], f[2][2]) \/ ~ExpiryGrows(f[2][1])))'
  BY DEF RetentionInv
<1>1. /\ wrongs \subseteq wrongs' /\ flaws' = flaws
      /\ \A c \in Catalogs : Kept(c) \/ chain' = chain
  BY RunKeeps, ProviderKeeps, ProviderDeploys DEF Next, Over, vars, deployment, Base
<1>2. Deployed' BY DeployedStep DEF Base
<1>3. ASSUME NEW c \in Catalogs, NEW k, NotKept(c, k) \/ ~ExpiryGrows(c), f[2][1] = c, f[2][2] = k
      PROVE  (f[2][1] \in Catalogs /\ (NotKept(f[2][1], f[2][2]) \/ ~ExpiryGrows(f[2][1])))'
  <2>1. NotKept(c, k) => NotKept(c, k)' BY <1>1, NotKeptStays
  <2>2. ~ExpiryGrows(c) => ~ExpiryGrows(c)' BY <1>1, <1>2, ExpiryStays DEF Base
  <2>3. (NotKept(c, k) \/ ~ExpiryGrows(c))' BY <1>3, <2>1, <2>2
  <2> QED BY <1>3, <2>3 DEF NotKept, ExpiryGrows
<1>4. CASE f \in found BY <1>3, <1>4 DEF RetentionInv
<1>5. CASE f \notin found
  <2>1. RunNext /\ ~Finds
    <3>1. ~UNCHANGED vars /\ ~ProviderNext BY <1>5, ProviderKeeps DEF vars, Base
    <3>2. ~Finds BY <1>5 DEF Finds, Ordinary
    <3> QED BY <3>1, <3>2 DEF Next, Over
  <2>2. PICK c \in Catalogs : CheckChain(c) BY <2>1, RunFinds DEF Base
  <2>3. ChainEnds(c, f) BY <1>5, <2>2, FindsChain
  <2>4. PICK k : /\ f = Failed("chain.retention", <<c, k>>)
                 /\ k \in Lowest(L(c).seq)..(L(c).seq - 1)
                 /\ Fetched(c, k) \in {"absent", "refused"} /\ Evidence(c, k, Lowest(L(c).seq))
    BY <2>3 DEF ChainEnds, Failed
  <2>5. NotKept(c, k) \/ ~ExpiryGrows(c) BY <2>2, <2>4, GapProves
  <2>6. f[2][1] = c /\ f[2][2] = k BY <2>4 DEF Failed
  <2> QED BY <1>3, <2>5, <2>6
<1> QED BY <1>4, <1>5

LEMMA GapsInit == Init => Gaps /\ RetentionInv
<1> SUFFICES ASSUME Init PROVE Gaps /\ RetentionInv OBVIOUS
<1>1. DOMAIN got = {} /\ found = {} BY DEF Init
<1> QED BY <1>1, ShelfGapInit DEF Gaps, GotGap, Missing, RetentionInv

(* The walk accuses nobody of a gap that expiry alone can have made: however  *)
(* publications and prunings fall between its fetches.                        *)
THEOREM SpecRetentionEarned == Spec => []RetentionEarned
<1>1. Init => Base /\ Gaps /\ RetentionInv BY BaseInit, GapsInit
<1>2. Base /\ Gaps /\ RetentionInv /\ [Next]_vars => Base' /\ Gaps' /\ RetentionInv'
  BY BaseStep, GapsStep, RetentionStep
<1>3. RetentionInv => RetentionEarned BY DEF RetentionInv, RetentionEarned
<1> QED BY <1>1, <1>2, <1>3, PTL DEF Spec

-------------------------------------------------------------------------------
(* Time, and what was fetched while the deployment stood still.               *)
StillServed ==
    changes = 0 => \A u \in DOMAIN got : got[u] \in {Served(u), Answer("lost"), Answer("spent")}
Timed ==
    /\ phase = "idle" => deadline = None
    /\ phase = "probed" => deadline \in {None, now + HubTime}
    /\ phase \in {"run", "done"} => at \in Nat /\ at <= now /\ (changes = 0 => at = now)
    /\ phase \in {"run", "done"} /\ deadline # None => deadline \in Nat /\ deadline <= at + HubTime

LEMMA NowGrows == ASSUME Deployed, ProviderNext PROVE now <= now' /\ now' \in Nat /\ now \in Nat
<1>1. now \in Nat /\ MaxTime \in Nat BY CatalogsFacts DEF Deployed
<1>2. CASE Tick BY <1>1, <1>2 DEF Tick
<1>3. CASE ~Tick BY <1>1, <1>3, ProviderNext DEF ProviderNext, Redeclare, Publish, Prune, Equivocate, Drop, Replace
<1> QED BY <1>2, <1>3

LEMMA TimedStep == Base /\ Timed /\ [Next]_vars => Timed'
<1> SUFFICES ASSUME Base, Timed, [Next]_vars PROVE Timed' OBVIOUS
<1>0. now \in Nat /\ HubTime \in Nat BY CatalogsFacts DEF Base, Deployed
<1>1. CASE RunNext
  <2>1. now' = now /\ changes' = changes BY <1>1, RunKeeps
  <2>2. CASE Start
    <3>1. phase \in {"idle", "probed"} /\ phase' = "run" /\ at' = now /\ deadline' = deadline
      BY <2>2 DEF Start
    <3>2. now + HubTime \in Nat BY <1>0
    <3> QED BY <1>0, <2>1, <3>1, <3>2 DEF Timed
  <2>3. CASE Finish
    <3>1. phase = "run" /\ phase' = "done" /\ at' = at /\ deadline' = deadline BY <2>3 DEF Finish, Doing
    <3> QED BY <2>1, <3>1 DEF Timed
  <2> QED BY <1>1, <2>1, <2>2, <2>3, RunTimes DEF Timed
<1>2. CASE ProviderNext
  <2>1. /\ UNCHANGED <<phase, at, deadline>> /\ phase \in {"idle", "run"} /\ changes' = changes + 1
        /\ changes \in Nat
    BY <1>2, ProviderKeeps DEF Base, Deployed
  <2>2. now <= now' /\ now' \in Nat /\ changes' # 0 BY <1>2, <2>1, NowGrows DEF Base
  <2> QED BY <1>0, <2>1, <2>2 DEF Timed
<1>3. CASE UNCHANGED vars BY <1>3 DEF Timed, vars, deployment
<1> QED BY <1>1, <1>2, <1>3 DEF Next, Over

LEMMA ServedKept ==
    ASSUME NEW u, UNCHANGED <<ver, policy, chain, shelf, flaws>>
    PROVE  Served(u)' = Served(u)
BY DEF Served, Body, Bad

LEMMA StillStep == Base /\ StillServed /\ [Next]_vars => StillServed'
<1> SUFFICES ASSUME Base, StillServed, [Next]_vars PROVE StillServed' OBVIOUS
<1>1. CASE ProviderNext
  <2>1. changes' # 0 BY <1>1, ProviderKeeps DEF Base, Deployed
  <2> QED BY <2>1 DEF StillServed
<1>2. CASE RunNext \/ UNCHANGED vars
  <2>1. UNCHANGED <<ver, policy, chain, shelf, flaws, changes>> BY <1>2, RunKeeps DEF vars, deployment
  <2>2. \A u : Served(u)' = Served(u) BY <2>1, ServedKept
  <2>3. CASE got' = got BY <2>1, <2>2, <2>3 DEF StillServed
  <2>4. ASSUME NEW u, NEW r, Fetches(u, r) PROVE StillServed'
    <3>1. /\ DOMAIN got' = DOMAIN got \cup {u} /\ got'[u] = r /\ \A v \in DOMAIN got : got'[v] = got[v]
          /\ u \notin DOMAIN got => r \in {Served(u), Answer("lost"), Answer("spent")}
      BY <2>4, GetIs DEF Fetches
    <3>2. SUFFICES ASSUME changes = 0, NEW v \in DOMAIN got'
                   PROVE  got'[v] \in {Served(v), Answer("lost"), Answer("spent")}
      BY <2>1, <2>2 DEF StillServed
    <3>3. CASE v \in DOMAIN got BY <3>1, <3>2, <3>3 DEF StillServed
    <3>4. CASE v \notin DOMAIN got BY <3>1, <3>4
    <3> QED BY <3>3, <3>4
  <2> QED BY <1>2, <2>3, <2>4, RunFetches DEF vars
<1> QED BY <1>1, <1>2 DEF Next, Over

-------------------------------------------------------------------------------
(* A provider that does no wrong, with a deployment without a flaw.           *)
Clear(c) ==
    /\ \A k \in 1..Len(chain[c]) :
         /\ shelf[c][k] \in {None, chain[c][k]}
         /\ chain[c][k].exp = chain[c][k].gen + Window /\ chain[c][k].gen <= now
    /\ \A j, k \in 1..Len(chain[c]) : j <= k => chain[c][j].gen <= chain[c][k].gen
HonestChain == flaws = {} /\ wrongs = {} => \A c \in Catalogs : Clear(c)

LEMMA HonestInit == Init => HonestChain
<1> SUFFICES ASSUME Init, flaws = {}, NEW c \in Catalogs PROVE Clear(c) BY DEF HonestChain
<1>1. Deployed BY DeployedInit
<1>2. Length[c] \in Nat /\ Length[c] <= Founded /\ Founded \in Nat /\ Length[c] \in 1..MaxSeq /\ MaxSeq \in Nat
  BY CatalogsFacts
<1>3. chain[c] = Founding(c) BY DEF Init
<1>4. Len(chain[c]) = Length[c]
  <2>1. chain[c] = [i \in 1..Length[c] |-> Snapshot(c, i, IF i = 1 THEN None ELSE <<i - 1, 0>>, 1, i)]
    BY DEF Init, Founding
  <2>2. chain[c] \in Seq(SnapshotSet) BY <1>1 DEF Deployed
  <2>3. DOMAIN chain[c] = 1..Len(chain[c]) /\ Len(chain[c]) \in Nat BY <2>2
  <2>4. DOMAIN chain[c] = 1..Length[c] BY <2>1
  <2> QED BY <1>2, <2>3, <2>4
<1>5. ASSUME NEW k \in 1..Length[c]
      PROVE  chain[c][k].gen = k /\ chain[c][k].exp = k + Window /\ shelf[c][k] = chain[c][k]
  <2>1. \A doc, names : ~Bad(doc, names) BY DEF Bad
  <2>2. Life(c, k) = Window BY <2>1 DEF Life
  <2>3. \E p : chain[c][k] = Snapshot(c, k, p, 1, k) BY <1>3 DEF Founding
  <2>4. chain[c][k].gen = k /\ chain[c][k].exp = k + Window BY <2>1, <2>2, <2>3 DEF Snapshot
  <2>5. shelf[c][k] = chain[c][k] BY <1>2 DEF Init
  <2> QED BY <2>4, <2>5
<1>6. now = Founded BY DEF Init
<1> QED BY <1>2, <1>4, <1>5, <1>6 DEF Clear

LEMMA HonestSteps ==
    ASSUME Deployed, ProviderNext, wrongs' = {}, NEW d \in Catalogs
    PROVE  UNCHANGED <<chain[d], shelf[d]>> \/ Publish(d) \/ Prune(d)
BY ProviderSteps DEF Equivocate, Drop, Replace, Wrong

(* A publication, when nothing is flawed, is of the present.                  *)
LEMMA HonestPublish ==
    ASSUME flaws = {}, NEW c, NEW n, NEW s, Published(c, n, s)
    PROVE  s.gen = now /\ s.exp = now + Window
<1>1. \A doc, names : ~Bad(doc, names) BY DEF Bad
<1>2. Life(c, n) = Window BY <1>1 DEF Life
<1> QED BY <1>1, <1>2 DEF Published

LEMMA HonestStep == Base /\ HonestChain /\ [Next]_vars => HonestChain'
<1> SUFFICES ASSUME Base, HonestChain, [Next]_vars, flaws' = {}, wrongs' = {}, NEW c \in Catalogs
             PROVE  Clear(c)'
  BY DEF HonestChain
<1>1. flaws = {} /\ wrongs = {}
  BY RunKeeps, ProviderKeeps DEF Next, Over, vars, deployment, Base
<1>2. Clear(c) BY <1>1 DEF HonestChain
<1>3. CASE RunNext \/ UNCHANGED vars
  <2>1. UNCHANGED <<now, chain, shelf>> BY <1>3, RunKeeps DEF vars, deployment
  <2> QED BY <1>2, <2>1 DEF Clear
<1>4. CASE ProviderNext
  <2>0. now <= now' /\ now' \in Nat /\ now \in Nat BY <1>4, NowGrows DEF Base
  <2>a. Len(chain[c]) \in Nat /\ Len(chain[c]) <= MaxSeq /\ MaxSeq \in Nat BY ChainRange DEF Base
  <2>b. \A k \in 1..Len(chain[c]) : chain[c][k].gen \in Nat /\ chain[c][k].gen <= now
    BY <1>2, ChainLast DEF Clear, SnapshotSet, Base
  <2>1. CASE UNCHANGED <<chain[c], shelf[c]>>
    <3>1. chain'[c] = chain[c] /\ shelf'[c] = shelf[c] BY <2>1
    <3>2. \A k \in 1..Len(chain[c]) : chain[c][k].gen <= now' BY <2>0, <2>b
    <3> QED BY <1>2, <3>1, <3>2 DEF Clear
  <2>2. CASE Publish(c)
    <3>1. PICK n, s : Published(c, n, s) BY <2>2, PublishSteps DEF Base
    <3>2. s.gen = now /\ s.exp = now + Window BY <1>1, <3>1, HonestPublish
    <3>3. /\ n = Len(chain[c]) + 1 /\ n \in 2..MaxSeq /\ Len(chain'[c]) = n /\ chain'[c][n] = s
          /\ \A k \in 1..Len(chain[c]) : chain'[c][k] = chain[c][k]
          /\ \A k \in 1..MaxSeq : shelf'[c][k] = IF k = n THEN s ELSE shelf[c][k]
      BY <3>1 DEF Published
    <3>4. now' = now BY <2>2 DEF Publish
    <3>5. ASSUME NEW k \in 1..n
          PROVE  /\ shelf'[c][k] \in {None, chain'[c][k]}
                 /\ chain'[c][k].exp = chain'[c][k].gen + Window /\ chain'[c][k].gen <= now'
                 /\ chain'[c][k].gen \in Nat
      <4>1. CASE k = n BY <2>0, <2>a, <3>2, <3>3, <3>4, <4>1
      <4>2. CASE k # n
        <5>1. k \in 1..Len(chain[c]) /\ k \in 1..MaxSeq BY <2>a, <3>3, <4>2
        <5> QED BY <1>2, <2>b, <3>3, <3>4, <4>2, <5>1 DEF Clear
      <4> QED BY <4>1, <4>2
    <3>6. ASSUME NEW j \in 1..n, NEW k \in 1..n, j <= k PROVE chain'[c][j].gen <= chain'[c][k].gen
      <4>1. CASE k = n BY <2>0, <3>2, <3>3, <3>4, <3>5, <4>1
      <4>2. CASE k # n
        <5>1. k \in 1..Len(chain[c]) /\ j \in 1..Len(chain[c]) BY <2>a, <3>3, <3>6, <4>2
        <5> QED BY <1>2, <3>3, <3>6, <5>1 DEF Clear
      <4> QED BY <4>1, <4>2
    <3> QED BY <3>3, <3>5, <3>6 DEF Clear
  <2>3. CASE Prune(c)
    <3>1. /\ chain' = chain /\ now' = now
          /\ shelf'[c] = [k \in 1..MaxSeq |->
                IF k < Len(chain[c]) /\ chain[c][k].exp <= now THEN None ELSE shelf[c][k]]
      BY <2>3 DEF Prune, Deployed, Base
    <3>2. \A k \in 1..Len(chain[c]) : shelf'[c][k] \in {None, shelf[c][k]}
      BY <2>a, <3>1
    <3> QED BY <1>2, <3>1, <3>2 DEF Clear
  <2> QED BY <1>4, <2>1, <2>2, <2>3, HonestSteps DEF Base
<1> QED BY <1>3, <1>4 DEF Next, Over

(* Nothing has happened yet: the deployment is as it was founded.             *)
Untouched ==
    changes = 0 => /\ policy = [c \in Catalogs |-> 1] /\ now = Founded
                   /\ \A c \in Catalogs : /\ chain[c] = Founding(c) /\ Len(chain[c]) = Length[c]
                                          /\ \A k \in 1..Length[c] : shelf[c][k] = chain[c][k]

LEMMA UntouchedStep == Base /\ Untouched /\ [Next]_vars => Untouched'
<1> SUFFICES ASSUME Base, Untouched, [Next]_vars PROVE Untouched' OBVIOUS
<1>1. CASE ProviderNext
  <2>1. changes' = changes + 1 BY <1>1, ProviderKeeps DEF Base
  <2>2. changes \in Nat BY DEF Base, Deployed
  <2> QED BY <2>1, <2>2 DEF Untouched
<1>2. CASE RunNext \/ UNCHANGED vars
  <2>1. UNCHANGED <<policy, chain, shelf, changes, now, flaws>> BY <1>2, RunKeeps DEF vars, deployment
  <2>2. \A c : Founding(c)' = Founding(c) BY <2>1 DEF Founding, Snapshot, Life, Bad
  <2> QED BY <2>1, <2>2 DEF Untouched
<1> QED BY <1>1, <1>2 DEF Next, Over

LEMMA UntouchedInit == Init => Untouched /\ StillServed /\ Timed
<1> SUFFICES ASSUME Init PROVE Untouched /\ StillServed /\ Timed OBVIOUS
<1>1. Deployed BY DeployedInit
<1>2. /\ chain = [c \in Catalogs |-> Founding(c)] /\ policy = [c \in Catalogs |-> 1]
      /\ shelf = [c \in Catalogs |-> [k \in 1..MaxSeq |-> IF k <= Length[c] THEN chain[c][k] ELSE None]]
      /\ phase = "idle" /\ deadline = None /\ DOMAIN got = {} /\ now = Founded
  BY DEF Init
<1>3. ASSUME NEW c \in Catalogs
      PROVE  chain[c] = Founding(c) /\ Len(chain[c]) = Length[c]
             /\ \A k \in 1..Length[c] : shelf[c][k] = chain[c][k]
  <2>1. Length[c] \in 1..MaxSeq /\ Length[c] \in Nat /\ MaxSeq \in Nat BY CatalogsFacts
  <2>2. chain[c] \in Seq(SnapshotSet) BY <1>1 DEF Deployed
  <2>3. chain[c] = Founding(c) BY <1>2
  <2>4. DOMAIN chain[c] = 1..Len(chain[c]) /\ Len(chain[c]) \in Nat BY <2>2
  <2>5. DOMAIN chain[c] = 1..Length[c] BY <2>3 DEF Founding
  <2>6. Len(chain[c]) = Length[c] BY <2>1, <2>4, <2>5
  <2>7. \A k \in 1..Length[c] : k \in 1..MaxSeq /\ k <= Length[c] BY <2>1
  <2> QED BY <1>2, <2>3, <2>6, <2>7
<1>4. Untouched BY <1>2, <1>3 DEF Untouched
<1> QED BY <1>2, <1>4 DEF StillServed, Timed

-------------------------------------------------------------------------------
(* What the run has fetched of such a provider.                               *)
HonestGot ==
    flaws = {} /\ wrongs = {} =>
        /\ \A u \in DOMAIN got : /\ got[u].st \in {"200", "lost", "spent", "404"}
                                 /\ got[u].st = "404" => u[1] \in {"sibling", "sibling.sig"}
        /\ Has(<<"privacy">>) => got[<<"privacy">>].doc = None
        /\ \A c \in Catalogs : Has(<<"latest", c>>) =>
             /\ L(c).seq \in 1..Len(chain[c]) /\ L(c) = chain[c][L(c).seq]
             /\ \A k \in 1..Len(chain[c]) : k > L(c).seq => chain[c][k].gen >= at
             /\ changes = 0 => L(c).gen <= at
             /\ deadline # None => L(c).gen <= at + HubTime
        /\ \A c \in Catalogs, k \in 1..MaxSeq : Has(<<"sibling", c, k>>) =>
             k \in 1..Len(chain[c]) /\ got[<<"sibling", c, k>>].doc = chain[c][k]

LEMMA NoBad ==
    ASSUME flaws = {}
    PROVE  (\A doc, names : ~Bad(doc, names)) /\ \A s, names : ~IsBad(s, names)
BY DEF Bad, IsBad

(* What an unflawed deployment answers.                                       *)
LEMMA HonestAnswers ==
    ASSUME flaws = {}, NEW u \in Uris
    PROVE  /\ Served(u).st \in {"200", "404"} /\ (Served(u).st = "404" => u[1] \in {"sibling", "sibling.sig"})
           /\ u = M => Served(u) = Ok([ver |-> ver, policy |-> policy])
           /\ u = <<"manifest.sig">> => Served(u) = Ok(ver)
           /\ u = <<"privacy">> => Served(u) = Ok(None)
           /\ \A c : u = <<"policy", c>> => Served(u) = Ok(policy[c])
           /\ \A c : u = <<"latest", c>> => Served(u) = Ok(Last(chain[c]))
           /\ \A c : u = <<"latest.sig", c>> => Served(u) = Ok(Digest(Last(chain[c])))
           /\ \A c, k : u = <<"sibling", c, k>> => Served(u) = Filed(shelf[c][k], shelf[c][k])
           /\ \A c, k : u = <<"sibling.sig", c, k>> => Served(u) = Filed(shelf[c][k], Digest(shelf[c][k]))
           /\ \A x : u = <<"dest", x>> => Served(u) = Ok(None)
<1>0. \A st : <<u, st>> \notin flaws OBVIOUS
<1>1. /\ u = M => Served(u) = Ok([ver |-> ver, policy |-> policy])
      /\ u = <<"manifest.sig">> => Served(u) = Ok(ver)
      /\ u = <<"privacy">> => Served(u) = Ok(None)
      /\ \A c : u = <<"policy", c>> => Served(u) = Ok(policy[c])
      /\ \A c : u = <<"latest", c>> => Served(u) = Ok(Last(chain[c]))
      /\ \A c : u = <<"latest.sig", c>> => Served(u) = Ok(Digest(Last(chain[c])))
      /\ \A c, k : u = <<"sibling", c, k>> => Served(u) = Filed(shelf[c][k], shelf[c][k])
      /\ \A c, k : u = <<"sibling.sig", c, k>> => Served(u) = Filed(shelf[c][k], Digest(shelf[c][k]))
      /\ \A x : u = <<"dest", x>> => Served(u) = Ok(None)
  BY <1>0, ServedIs
<1>2. \A d : Ok(d).st = "200" BY DEF Ok
<1>3. \A s, d : Filed(s, d).st \in {"200", "404"} BY DEF Filed, Ok, Answer
<1>4. CASE u \in {M, <<"manifest.sig">>, <<"privacy">>} BY <1>1, <1>2, <1>4
<1>5. CASE \E c : u = <<"policy", c>> \/ u = <<"latest", c>> \/ u = <<"latest.sig", c>> BY <1>1, <1>2, <1>5
<1>6. CASE \E x : u = <<"dest", x>> BY <1>1, <1>2, <1>6
<1>7. CASE \E c, k : u = <<"sibling", c, k>> BY <1>1, <1>3, <1>7
<1>8. CASE \E c, k : u = <<"sibling.sig", c, k>> BY <1>1, <1>3, <1>8
<1> QED BY <1>1, <1>4, <1>5, <1>6, <1>7, <1>8 DEF Uris

LEMMA HonestFetch ==
    ASSUME Base, Timed, HonestChain, HonestGot, phase = "run", NEW u \in Uris, NEW r, Fetches(u, r)
    PROVE  HonestGot'
<1>1. /\ UNCHANGED <<now, chain, shelf, wrongs, changes, flaws, at, deadline>>
      /\ DOMAIN got' = DOMAIN got \cup {u} /\ got'[u] = r
      /\ \A v \in DOMAIN got : got'[v] = got[v]
  BY FetchKeeps DEF deployment
<1>2. SUFFICES ASSUME flaws = {}, wrongs = {} PROVE HonestGot' BY <1>1 DEF HonestGot
<1>3. u \notin DOMAIN got => (r = Served(u) /\ ~Late) \/ r \in {Answer("lost"), Answer("spent")}
  BY GetIs DEF Fetches
<1>4. \A st : Answer(st).st = st BY DEF Answer
<1>5. ASSUME NEW v \in DOMAIN got'
      PROVE  got'[v].st \in {"200", "lost", "spent", "404"}
             /\ (got'[v].st = "404" => v[1] \in {"sibling", "sibling.sig"})
  <2>1. CASE v \in DOMAIN got BY <1>1, <1>2, <2>1 DEF HonestGot
  <2>2. CASE v \notin DOMAIN got
    <3>1. v = u /\ u \notin DOMAIN got BY <1>1, <2>2
    <3>2. CASE r = Served(u) BY <1>1, <1>2, <3>1, <3>2, HonestAnswers
    <3>3. CASE r \in {Answer("lost"), Answer("spent")} BY <1>1, <1>4, <3>1, <3>3
    <3> QED BY <1>3, <3>1, <3>2, <3>3
  <2> QED BY <2>1, <2>2
<1>6. ASSUME NEW v, Has(v)'
      PROVE  \/ Has(v) /\ got'[v] = got[v]
             \/ v = u /\ v \notin DOMAIN got /\ r = Served(u) /\ ~Late /\ got'[v] = r /\ r.st = "200"
  BY <1>1, <1>3, <1>4, <1>6 DEF Has
<1>7. ASSUME Has(<<"privacy">>)' PROVE got'[<<"privacy">>].doc = None
  <2>1. CASE Has(<<"privacy">>) /\ got'[<<"privacy">>] = got[<<"privacy">>] BY <1>2, <2>1 DEF HonestGot
  <2>2. CASE u = <<"privacy">> /\ r = Served(u) /\ got'[u] = r BY <1>2, <2>2, HonestAnswers DEF Ok
  <2> QED BY <1>6, <1>7, <2>1, <2>2
<1>8. ASSUME NEW c \in Catalogs, Has(<<"latest", c>>)'
      PROVE  (/\ L(c).seq \in 1..Len(chain[c]) /\ L(c) = chain[c][L(c).seq]
              /\ \A k \in 1..Len(chain[c]) : k > L(c).seq => chain[c][k].gen >= at
              /\ changes = 0 => L(c).gen <= at
              /\ deadline # None => L(c).gen <= at + HubTime)'
  <2>1. CASE Has(<<"latest", c>>) /\ got'[<<"latest", c>>] = got[<<"latest", c>>]
    BY <1>1, <1>2, <2>1 DEF HonestGot, L
  <2>2. CASE u = <<"latest", c>> /\ r = Served(u) /\ ~Late /\ got'[u] = r
    <3>1. r = Ok(Last(chain[c])) BY <1>2, <2>2, HonestAnswers
    <3>2. L(c)' = Last(chain[c]) BY <2>2, <3>1 DEF L, Ok
    <3>3. /\ Last(chain[c]) = chain[c][Len(chain[c])] /\ Last(chain[c]).seq = Len(chain[c])
          /\ Len(chain[c]) \in Nat \ {0}
      BY ChainLast DEF Base
    <3>4. Last(chain[c]) \in SnapshotSet BY ChainLast DEF Base
    <3>5. Last(chain[c]).gen \in Nat BY <3>4 DEF SnapshotSet
    <3>6. Last(chain[c]).gen <= now
      <4>1. Clear(c) BY <1>2 DEF HonestChain
      <4>2. Len(chain[c]) \in 1..Len(chain[c]) BY <3>3
      <4> QED BY <3>3, <4>1, <4>2 DEF Clear
    <3>7. /\ at \in Nat /\ now \in Nat /\ HubTime \in Nat /\ (changes = 0 => at = now)
          /\ deadline # None => deadline \in Nat /\ deadline <= at + HubTime
      BY CatalogsFacts DEF Timed, Base, Deployed
    <3>8. deadline # None => now <= deadline BY <2>2, <3>7 DEF Late
    <3>9. \A k \in 1..Len(chain[c]) : ~(k > Len(chain[c])) BY <3>3
    <3>10. Len(chain[c]) \in 1..Len(chain[c]) BY <3>3
    <3>11. changes = 0 => Last(chain[c]).gen <= at BY <3>5, <3>6, <3>7
    <3>12. deadline # None => Last(chain[c]).gen <= at + HubTime BY <3>5, <3>6, <3>7, <3>8
    <3> QED BY <1>1, <3>2, <3>3, <3>9, <3>10, <3>11, <3>12
  <2> QED BY <1>6, <1>8, <2>1, <2>2
<1>9. ASSUME NEW c \in Catalogs, NEW k \in 1..MaxSeq, Has(<<"sibling", c, k>>)'
      PROVE  k \in 1..Len(chain'[c]) /\ got'[<<"sibling", c, k>>].doc = chain'[c][k]
  <2>1. CASE Has(<<"sibling", c, k>>) /\ got'[<<"sibling", c, k>>] = got[<<"sibling", c, k>>]
    BY <1>1, <1>2, <2>1 DEF HonestGot
  <2>2. CASE u = <<"sibling", c, k>> /\ r = Served(u) /\ got'[u] = r /\ r.st = "200"
    <3>1. r = Filed(shelf[c][k], shelf[c][k]) BY <1>2, <2>2, HonestAnswers
    <3>2. shelf[c][k] # None /\ r.doc = shelf[c][k] BY <2>2, <3>1 DEF Filed, Ok, Answer
    <3>3. k <= Len(chain[c]) /\ Len(chain[c]) \in Nat BY <3>2, ChainRange DEF Base, Deployed
    <3>4. k \in 1..Len(chain[c]) BY <3>3
    <3>5. shelf[c][k] = chain[c][k] BY <1>2, <3>2, <3>4 DEF HonestChain, Clear
    <3> QED BY <1>1, <2>2, <3>2, <3>4, <3>5
  <2> QED BY <1>6, <1>9, <2>1, <2>2
<1> QED BY <1>5, <1>7, <1>8, <1>9 DEF HonestGot

(* A provider's step adds to a catalog at the earliest what was published now.*)
LEMMA HonestGrows ==
    ASSUME Deployed, HonestChain, ProviderNext, flaws = {}, wrongs' = {}, NEW c \in Catalogs
    PROVE  /\ \A k \in 1..Len(chain[c]) : chain'[c][k] = chain[c][k] /\ k \in 1..Len(chain'[c])
           /\ \A k \in 1..Len(chain'[c]) : k \notin 1..Len(chain[c]) => chain'[c][k].gen = now
<1>a. Len(chain[c]) \in Nat BY ChainRange
<1>1. CASE Publish(c)
  <2>1. PICK n, s : Published(c, n, s) BY <1>1, PublishSteps
  <2>2. s.gen = now BY <2>1, HonestPublish
  <2>3. /\ n = Len(chain[c]) + 1 /\ Len(chain'[c]) = n /\ chain'[c][n] = s
        /\ \A k \in 1..Len(chain[c]) : chain'[c][k] = chain[c][k]
    BY <2>1 DEF Published
  <2> QED BY <1>a, <2>2, <2>3
<1>2. CASE Prune(c) BY <1>2 DEF Prune
<1>3. CASE UNCHANGED <<chain[c], shelf[c]>> BY <1>3
<1> QED BY <1>1, <1>2, <1>3, HonestSteps

LEMMA HonestGotStep == Base /\ Timed /\ HonestChain /\ HonestGot /\ [Next]_vars => HonestGot'
<1> SUFFICES ASSUME Base, Timed, HonestChain, HonestGot, [Next]_vars PROVE HonestGot' OBVIOUS
<1>1. CASE RunNext
  <2>1. CASE got' = got
    <3>1. UNCHANGED <<now, chain, wrongs, changes, flaws>> BY <1>1, RunKeeps
    <3>2. CASE UNCHANGED <<at, deadline>> BY <2>1, <3>1, <3>2 DEF HonestGot, Has, L
    <3>3. CASE phase \in {"idle", "probed"}
      <4>1. DOMAIN got' = {} BY <2>1, <3>3 DEF Base, Place
      <4> QED BY <4>1 DEF HonestGot, Has
    <3> QED BY <1>1, <3>2, <3>3, RunTimes DEF Start, Finish
  <2>2. CASE \E u \in Uris : \E r : Fetches(u, r) /\ Downward(u)
    <3>a. PICK u \in Uris : \E r : Fetches(u, r) BY <2>2
    <3>1. PICK r : Fetches(u, r) BY <3>a
    <3>2. CASE phase = "run" BY <3>1, <3>2, HonestFetch
    <3>3. CASE phase # "run"
      <4>1. phase' = phase /\ DOMAIN got' = DOMAIN got \cup {u} BY <3>1, FetchKeeps
      <4>2. phase = "idle" BY <1>1, <3>3, <4>1, RunTimes DEF Start, Finish, Doing
      <4> QED BY <1>1, <4>1, <4>2, RunTimes DEF Start, Finish, Doing
    <3> QED BY <3>2, <3>3
  <2> QED BY <1>1, <2>1, <2>2, RunFetches
<1>2. CASE ProviderNext
  <2>1. /\ UNCHANGED <<phase, at, deadline, got, flaws>> /\ wrongs \subseteq wrongs' /\ changes' = changes + 1
        /\ phase \in {"idle", "run"} /\ changes \in Nat
    BY <1>2, ProviderKeeps DEF Base, Deployed
  <2>2. CASE phase = "idle"
    <3>1. DOMAIN got' = {} BY <2>1, <2>2 DEF Base, Place
    <3> QED BY <3>1 DEF HonestGot, Has
  <2>3. CASE phase = "run"
    <3>1. SUFFICES ASSUME flaws = {}, wrongs = {}, wrongs' = {} PROVE HonestGot' BY <2>1 DEF HonestGot
    <3>2. at <= now /\ at \in Nat /\ now \in Nat BY <2>3 DEF Timed, Base, Deployed
    <3>3. ASSUME NEW c \in Catalogs, Has(<<"latest", c>>)
          PROVE  (/\ L(c).seq \in 1..Len(chain[c]) /\ L(c) = chain[c][L(c).seq]
                  /\ \A k \in 1..Len(chain[c]) : k > L(c).seq => chain[c][k].gen >= at
                  /\ changes = 0 => L(c).gen <= at
                  /\ deadline # None => L(c).gen <= at + HubTime)'
      <4>1. /\ L(c).seq \in 1..Len(chain[c]) /\ L(c) = chain[c][L(c).seq]
            /\ \A k \in 1..Len(chain[c]) : k > L(c).seq => chain[c][k].gen >= at
            /\ deadline # None => L(c).gen <= at + HubTime
        BY <3>1, <3>3 DEF HonestGot
      <4>2. /\ \A k \in 1..Len(chain[c]) : chain'[c][k] = chain[c][k] /\ k \in 1..Len(chain'[c])
            /\ \A k \in 1..Len(chain'[c]) : k \notin 1..Len(chain[c]) => chain'[c][k].gen = now
        BY <1>2, <3>1, HonestGrows DEF Base
      <4>3. \A k \in 1..Len(chain'[c]) : k > L(c).seq => chain'[c][k].gen >= at
        BY <3>2, <4>1, <4>2
      <4>4. L(c)' = L(c) BY <2>1 DEF L
      <4> QED BY <2>1, <4>1, <4>2, <4>3, <4>4
    <3>4. ASSUME NEW c \in Catalogs, NEW k \in 1..MaxSeq, Has(<<"sibling", c, k>>)
          PROVE  k \in 1..Len(chain'[c]) /\ got[<<"sibling", c, k>>].doc = chain'[c][k]
      <4>1. k \in 1..Len(chain[c]) /\ got[<<"sibling", c, k>>].doc = chain[c][k]
        BY <3>1, <3>4 DEF HonestGot
      <4>2. \A j \in 1..Len(chain[c]) : chain'[c][j] = chain[c][j] /\ j \in 1..Len(chain'[c])
        BY <1>2, <3>1, HonestGrows DEF Base
      <4> QED BY <4>1, <4>2
    <3>5. /\ \A u \in DOMAIN got : /\ got[u].st \in {"200", "lost", "spent", "404"}
                                   /\ got[u].st = "404" => u[1] \in {"sibling", "sibling.sig"}
          /\ Has(<<"privacy">>) => got[<<"privacy">>].doc = None
      BY <3>1 DEF HonestGot
    <3>6. \A u : Has(u)' <=> Has(u) BY <2>1 DEF Has
    <3> QED BY <2>1, <3>3, <3>4, <3>5, <3>6 DEF HonestGot
  <2> QED BY <2>1, <2>2, <2>3
<1>3. CASE UNCHANGED vars BY <1>3 DEF HonestGot, Has, L, vars, deployment
<1> QED BY <1>1, <1>2, <1>3 DEF Next, Over

-------------------------------------------------------------------------------
(* What may be held against it nevertheless.                                  *)
Excused(f) ==
    \/ changes > 0 /\ f[1] \in Torn \cup Outlasted
    \/ f[1] = "snapshot.fresh" /\ f[2][1] \in Catalogs /\ Lapsed(f[2][1])
FairSet(fs) == \A f \in fs : f[3] = "fail" => Excused(f)
Fair == \A f \in found' : f \in found \/ (f[3] = "fail" => Excused(f))
HonestFound == flaws = {} /\ wrongs = {} => FairSet(found)

(* A step of the run that fetches u has this of what it fetched.              *)
HonestAt(u, r) ==
    /\ Fetches(u, r) /\ u \in DOMAIN got' /\ got'[u] = r
    /\ r.st \in {"200", "lost", "spent", "404"}
    /\ r.st = "404" => u[1] \in {"sibling", "sibling.sig"}
    /\ changes = 0 => r \in {Served(u), Answer("lost"), Answer("spent")}
    /\ \A opt \in BOOLEAN : /\ State(r, opt) \in {"ok", "unknown"} \/ u[1] \in {"sibling", "sibling.sig"}
                            /\ State(r, opt) # "refused"
                            /\ State(r, opt) = "ok" => r.st = "200"

LEMMA HonestResponse ==
    ASSUME flaws = {}, wrongs = {}, HonestGot', StillServed', NEW u, NEW r, Fetches(u, r)
    PROVE  HonestAt(u, r)
<1>1. /\ UNCHANGED <<deployment, flaws>>
      /\ DOMAIN got' = DOMAIN got \cup {u} /\ got'[u] = r
  BY FetchKeeps
<1>2. UNCHANGED <<wrongs, changes, ver, policy, chain, shelf, flaws>> BY <1>1 DEF deployment
<1>3. Served(u)' = Served(u) BY <1>2, ServedKept
<1>4. u \in DOMAIN got' BY <1>1
<1>5. r.st \in {"200", "lost", "spent", "404"} /\ (r.st = "404" => u[1] \in {"sibling", "sibling.sig"})
  BY <1>1, <1>2, <1>4 DEF HonestGot
<1>6. changes = 0 => r \in {Served(u), Answer("lost"), Answer("spent")}
  BY <1>1, <1>2, <1>3, <1>4 DEF StillServed
<1>7. \A opt \in BOOLEAN : /\ State(r, opt) \in {"ok", "unknown"} \/ u[1] \in {"sibling", "sibling.sig"}
                           /\ State(r, opt) # "refused"
                           /\ State(r, opt) = "ok" => r.st = "200"
  BY <1>5 DEF State
<1> QED BY <1>1, <1>4, <1>5, <1>6, <1>7 DEF HonestAt

(* Judging such a provider.                                                   *)
LEMMA HonestJudged ==
    ASSUME flaws = {}
    PROVE  \A check, subject :
             /\ \A doc, names : Judge(check, subject, Bad(doc, names))[3] # "fail"
             /\ \A s, names : Judge(check, subject, IsBad(s, names))[3] # "fail"
             /\ \A bad : ~bad => Judge(check, subject, bad)[3] # "fail"
<1>1. ASSUME NEW check, NEW subject, NEW bad, ~bad PROVE Judge(check, subject, bad)[3] # "fail"
  BY <1>1 DEF Judge, Passed
<1> QED BY <1>1, NoBad

LEMMA FairOutcomes ==
    /\ \A check, subject : Passed(check, subject)[3] # "fail"
    /\ \A checks, subject : FairSet(Block(checks, subject)) /\ FairSet(NotApplicable(checks, subject))
    /\ \A S, T : FairSet(S) /\ FairSet(T) => FairSet(S \cup T)
    /\ \A f : f[3] # "fail" => FairSet({f})
<1>1. \A check, subject : Passed(check, subject)[3] = "pass" BY DEF Passed
<1>2. \A checks, subject : /\ \A f \in Block(checks, subject) : f[3] = "inconclusive"
                           /\ \A f \in NotApplicable(checks, subject) : f[3] = "not-applicable"
  BY DEF Block, NotApplicable
<1> QED BY <1>1, <1>2 DEF FairSet

LEMMA FairFound == ASSUME NEW fs, found' = found \cup fs, FairSet(fs) PROVE Fair
BY DEF Fair, FairSet

LEMMA HonestRequired ==
    ASSUME NEW u, NEW r, HonestAt(u, r), u[1] \notin {"sibling", "sibling.sig"}
    PROVE  \A check, subject : Required(check, subject, r)[3] # "fail"
<1>1. State(r, FALSE) \in {"ok", "unknown"} BY DEF HonestAt
<1> QED BY <1>1 DEF Required

(* The detached signature is the embedded one, if both are of one document.   *)
LEMMA HonestDetached ==
    ASSUME flaws = {}, NEW u, NEW r, HonestAt(u, r), NEW e,
           changes = 0 => (r = Served(u) /\ r.st = "200" => r.doc = e)
    PROVE  \A check, subject : Detached(check, subject, u, r, e)[3] = "fail" => changes # 0
<1>1. State(r, TRUE) # "refused" /\ (State(r, TRUE) = "ok" => r.st = "200") BY DEF HonestAt
<1>2. ~Bad(u, {"size", "form"}) BY NoBad
<1>3. changes = 0 /\ r.st = "200" => r.doc = e
  <2>1. Answer("lost").st = "lost" /\ Answer("spent").st = "spent" BY DEF Answer
  <2> QED BY <2>1 DEF HonestAt
<1>4. ASSUME NEW check, NEW subject, changes = 0 PROVE Detached(check, subject, u, r, e)[3] # "fail"
  <2>1. State(r, TRUE) = "ok" => r.doc = e BY <1>1, <1>3, <1>4
  <2>2. State(r, TRUE) \in {"ok", "unknown", "absent"} BY <1>1, StateIs
  <2> QED BY <1>2, <2>1, <2>2 DEF Detached
<1> QED BY <1>4

LEMMA HonestDocument ==
    ASSUME flaws = {}, NEW u, NEW r, HonestAt(u, r), u[1] \notin {"sibling", "sibling.sig"}, NEW pin
    PROVE  \A check, subject : Document(check, subject, u, r, FALSE, pin)[3] = "fail" =>
               r.st = "200" /\ r.doc # pin
<1>1. State(r, FALSE) \in {"ok", "unknown"} /\ (State(r, FALSE) = "ok" => r.st = "200") BY DEF HonestAt
<1>2. ~Bad(u, {"size"}) /\ ~Bad(u, {"bytes"}) BY NoBad
<1> QED BY <1>1, <1>2 DEF Document

-------------------------------------------------------------------------------
LEMMA FairManifest ==
    ASSUME flaws = {}, wrongs = {}, HonestGot', StillServed', GetManifest
    PROVE  Fair
<1>1. PICK r : /\ Fetches(M, r)
               /\ \/ found' = found \cup {Required("manifest.fetch", M, r)}
                  \/ Bad(M, {"size"})
                  \/ Bad(M, {"parse"})
                  \/ found' = found \cup {Required("manifest.fetch", M, r),
                       Judge("manifest.size", M, Bad(M, {"size"})),
                       Judge("manifest.schema", M, Bad(M, {"parse"}) \/ ManifestSchemaBad),
                       Judge("manifest.identity", M, Bad(M, {"identity", "seat", "key"}))}
  BY Zenon DEF GetManifest, Go, Stop, Fetches, Running
<1>2. HonestAt(M, r) BY <1>1, HonestResponse
<1>3. Required("manifest.fetch", M, r)[3] # "fail" BY <1>2, HonestRequired DEF M
<1>4. /\ Judge("manifest.size", M, Bad(M, {"size"})) = Passed("manifest.size", M)
      /\ Judge("manifest.schema", M, Bad(M, {"parse"}) \/ ManifestSchemaBad) = Passed("manifest.schema", M)
      /\ Judge("manifest.identity", M, Bad(M, {"identity", "seat", "key"})) = Passed("manifest.identity", M)
  BY NoBad DEF ManifestSchemaBad, Judge
<1> QED BY <1>1, <1>3, <1>4, NoBad, FairOutcomes DEF Fair

(* With nothing changed, the manifest fetched is the manifest served.         *)
LEMMA StillManifest ==
    ASSUME flaws = {}, StillServed, changes = 0, Has(M)
    PROVE  got[M].doc.ver = ver /\ got[M].doc.policy = policy
<1>1. Answer("lost").st = "lost" /\ Answer("spent").st = "spent" BY DEF Answer
<1>2. got[M] = Served(M) BY <1>1 DEF StillServed, Has
<1>3. Served(M) = Ok([ver |-> ver, policy |-> policy]) BY HonestAnswers, UriIs
<1> QED BY <1>2, <1>3 DEF Ok

LEMMA StillLatest ==
    ASSUME flaws = {}, StillServed, changes = 0, NEW c \in Catalogs, Has(<<"latest", c>>)
    PROVE  L(c) = Last(chain[c])
<1>1. Answer("lost").st = "lost" /\ Answer("spent").st = "spent" BY DEF Answer
<1>2. got[<<"latest", c>>] = Served(<<"latest", c>>) BY <1>1 DEF StillServed, Has
<1>3. Served(<<"latest", c>>) = Ok(Last(chain[c])) BY HonestAnswers, UriIs
<1> QED BY <1>2, <1>3 DEF Ok, L

LEMMA FairManifestSig ==
    ASSUME flaws = {}, wrongs = {}, Base, StillServed, HonestGot', StillServed', GetManifestSig
    PROVE  Fair
<1> DEFINE u == <<"manifest.sig">>
<1>1. PICK r : /\ Fetches(u, r) /\ Doing(u)
               /\ \/ Bad(M, {"key"})
                  \/ Bad(M, {"unsigned", "signature"})
                  \/ Bad(M, {"catalogs"})
                  \/ found' = found \cup ({Detached("manifest.detached-sig", M, u, r,
                                              IF Bad(M, {"unsigned"}) THEN None ELSE got[M].doc.ver)}
                       \cup {Passed("manifest.signature", M),
                             Judge("manifest.valid-until", M, Bad(M, {"valid-until"}))}
                       \cup PrivacyUri \cup Descriptors)
  BY Zenon DEF GetManifestSig, Go, Stop, Fetches, Running
<1>2. HonestAt(u, r) BY <1>1, HonestResponse
<1>3. Has(M) BY <1>1, AtManifestSig DEF Base, Doing
<1>4. PICK e : e = (IF Bad(M, {"unsigned"}) THEN None ELSE got[M].doc.ver) OBVIOUS
<1>5. e = got[M].doc.ver BY <1>4, NoBad
<1>6. changes = 0 => (r = Served(u) /\ r.st = "200" => r.doc = e)
  <2>1. Served(u) = Ok(ver) BY HonestAnswers, UriIs
  <2> QED BY <1>3, <1>5, <2>1, StillManifest DEF Ok
<1>7. PICK d : d = Detached("manifest.detached-sig", M, u, r, e) OBVIOUS
<1>8. d[3] = "fail" => changes # 0 BY <1>2, <1>6, <1>7, HonestDetached
<1>9. d[1] = "manifest.detached-sig" BY <1>7 DEF Detached
<1>10. changes \in Nat BY DEF Base, Deployed
<1>11. FairSet({d}) BY <1>8, <1>9, <1>10 DEF FairSet, Excused, Torn
<1>12. FairSet(PrivacyUri)
  <2>1. PrivacyUri = {Passed("uri.rules", M)} BY NoBad DEF PrivacyUri
  <2> QED BY <2>1, FairOutcomes
<1>13. FairSet(Descriptors)
  <2>1. Decoded = Catalogs BY NoBad DEF Decoded
  <2>2. Catalogs # {}
    <3>1. Order \in Seq(Catalogs) /\ Order # <<>> BY ConformanceAssumption
    <3>2. Order[1] \in Catalogs BY <3>1
    <3> QED BY <3>2
  <2>3. \A c : /\ Judge("catalog.descriptor-fields", <<c>>, Bad(Descriptor(c), {"fields"}))[3] # "fail"
               /\ Judge("catalog.descriptor-unknown-keys", <<c>>, Bad(Descriptor(c), {"unknown"}))[3] # "fail"
               /\ Judge("uri.rules", <<c>>, Bad(Descriptor(c), {"uri"}))[3] # "fail"
    BY HonestJudged
  <2>4. /\ Judge("catalog.duplicate-id", M, Bad(M, {"duplicate-id"}))[3] # "fail"
        /\ Judge("catalog.decodable", M, Decoded = {})[3] # "fail"
    BY <2>1, <2>2, HonestJudged
  <2> QED BY <2>3, <2>4 DEF Descriptors, FairSet
<1>14. /\ Judge("manifest.valid-until", M, Bad(M, {"valid-until"}))[3] # "fail"
       /\ Passed("manifest.signature", M)[3] # "fail"
  BY HonestJudged, FairOutcomes
<1>15. FairSet({Passed("manifest.signature", M), Judge("manifest.valid-until", M, Bad(M, {"valid-until"}))})
  BY <1>14 DEF FairSet
<1>16. found' = found \cup ({d} \cup {Passed("manifest.signature", M),
                             Judge("manifest.valid-until", M, Bad(M, {"valid-until"}))}
                       \cup PrivacyUri \cup Descriptors)
  BY <1>1, <1>4, <1>7, NoBad
<1> QED BY <1>11, <1>12, <1>13, <1>15, <1>16, FairOutcomes DEF Fair, FairSet

LEMMA FairPrivacy ==
    ASSUME flaws = {}, wrongs = {}, HonestGot', StillServed', GetPrivacy
    PROVE  Fair
<1> DEFINE u == <<"privacy">>
<1>1. PICK r : /\ Fetches(u, r)
               /\ found' = found \cup {Document("privacy.document", M, u, r, Bad(M, {"privacy-digest"}), None)}
  BY Zenon DEF GetPrivacy, Go, Fetches, Running
<1>2. HonestAt(u, r) BY <1>1, HonestResponse
<1>3. Bad(M, {"privacy-digest"}) = FALSE BY NoBad DEF Bad
<1>4. r.st = "200" => r.doc = None
  <2>1. flaws' = flaws /\ wrongs' = wrongs BY <1>1 DEF Fetches, deployment
  <2> QED BY <1>2, <2>1 DEF HonestAt, HonestGot, Has
<1>5. PICK d : d = Document("privacy.document", M, u, r, FALSE, None) OBVIOUS
<1>6. d[3] # "fail" BY <1>2, <1>4, <1>5, HonestDocument
<1> QED BY <1>1, <1>3, <1>5, <1>6 DEF Fair

LEMMA FairPolicy ==
    ASSUME flaws = {}, wrongs = {}, Base, StillServed, HonestGot', StillServed', NEW c, GetPolicy(c)
    PROVE  Fair
<1>1. PICK r : /\ Fetches(<<"policy", c>>, r) /\ Doing(<<"policy", c>>)
               /\ found' = found \cup {Document("policy.document", <<c>>, <<"policy", c>>, r, FALSE,
                                                got[M].doc.policy[c])}
  BY Zenon DEF GetPolicy, Go, Fetches, Running
<1>2. HonestAt(<<"policy", c>>, r) BY <1>1, HonestResponse
<1>3. Has(M) /\ c \in Catalogs BY <1>1, AtCatalog, Spots DEF Base, Doing
<1>4. changes = 0 /\ r.st = "200" => r.doc = got[M].doc.policy[c]
  <2>1. Served(<<"policy", c>>) = Ok(policy[c]) BY <1>3, HonestAnswers, UriIs
  <2>2. Answer("lost").st = "lost" /\ Answer("spent").st = "spent" BY DEF Answer
  <2> QED BY <1>2, <1>3, <2>1, <2>2, StillManifest DEF Ok, HonestAt
<1>5. PICK d : d = Document("policy.document", <<c>>, <<"policy", c>>, r, FALSE, got[M].doc.policy[c])
  OBVIOUS
<1>6. d[3] = "fail" => changes # 0 BY <1>2, <1>4, <1>5, HonestDocument
<1>7. d[1] = "policy.document" BY <1>5 DEF Document
<1>8. changes \in Nat BY DEF Base, Deployed
<1>9. FairSet({d}) BY <1>6, <1>7, <1>8 DEF FairSet, Excused, Torn
<1> QED BY <1>1, <1>5, <1>9, FairFound

LEMMA FairLatest ==
    ASSUME flaws = {}, wrongs = {}, HonestGot', StillServed', NEW c, GetLatest(c)
    PROVE  Fair
<1>1. PICK r : /\ Fetches(<<"latest", c>>, r)
               /\ \/ found' = found \cup ({Required("snapshot.fetch", <<c>>, r)}
                                            \cup Block(SnapshotChecks \cup AfterSignature, <<c>>))
                  \/ IsBad(r.doc, {"size"})
                  \/ IsBad(r.doc, {"parse"})
                  \/ found' = found \cup {Required("snapshot.fetch", <<c>>, r), Passed("snapshot.size", <<c>>),
                                Judge("snapshot.schema", <<c>>, SchemaBad(r.doc)),
                                Judge("snapshot.identity", <<c>>, IdentityBad(r.doc))}
  BY Zenon DEF GetLatest, Go, Fetches, Running
<1>2. HonestAt(<<"latest", c>>, r) BY <1>1, HonestResponse
<1>3. PICK d : d = Required("snapshot.fetch", <<c>>, r) /\ d[3] # "fail"
  BY <1>2, HonestRequired
<1>4. /\ Judge("snapshot.schema", <<c>>, SchemaBad(r.doc))[3] # "fail"
      /\ Judge("snapshot.identity", <<c>>, IdentityBad(r.doc))[3] # "fail"
      /\ Passed("snapshot.size", <<c>>)[3] # "fail"
  BY HonestJudged, FairOutcomes DEF SchemaBad, IdentityBad
<1>5. FairSet(Block(SnapshotChecks \cup AfterSignature, <<c>>)) /\ FairSet({d}) BY <1>3, FairOutcomes
<1>6. CASE found' = found \cup ({d} \cup Block(SnapshotChecks \cup AfterSignature, <<c>>))
  BY <1>5, <1>6, FairOutcomes DEF Fair, FairSet
<1>7. CASE found' = found \cup {d, Passed("snapshot.size", <<c>>),
                                Judge("snapshot.schema", <<c>>, SchemaBad(r.doc)),
                                Judge("snapshot.identity", <<c>>, IdentityBad(r.doc))}
  BY <1>3, <1>4, <1>7 DEF Fair
<1> QED BY <1>1, <1>3, <1>6, <1>7, NoBad

(* The dates of a snapshot of such a provider.                                *)
LEMMA FairTimes ==
    ASSUME flaws = {}, wrongs = {}, Base, Timed, HonestChain, HonestGot, NEW c \in Catalogs,
           Has(<<"latest", c>>)
    PROVE  FairSet(Times(c, L(c)))
<1>1. /\ L(c).seq \in 1..Len(chain[c]) /\ L(c) = chain[c][L(c).seq]
      /\ \A k \in 1..Len(chain[c]) : k > L(c).seq => chain[c][k].gen >= at
      /\ changes = 0 => L(c).gen <= at
      /\ deadline # None => L(c).gen <= at + HubTime
  BY DEF HonestGot
<1>2. Clear(c) BY DEF HonestChain
<1>3. /\ L(c) \in SnapshotSet /\ DOMAIN chain[c] = 1..Len(chain[c]) /\ Len(chain[c]) \in Nat
      /\ \A k \in 1..Len(chain[c]) : chain[c][k] \in SnapshotSet
  BY <1>1, ChainLast DEF Base, Deployed
<1>4. /\ L(c).gen \in Nat /\ L(c).exp \in Nat
      /\ \A k \in 1..Len(chain[c]) : chain[c][k].gen \in Nat /\ chain[c][k].exp \in Nat
  BY <1>3 DEF SnapshotSet
<1>5. L(c).exp = L(c).gen + Window BY <1>1, <1>2 DEF Clear
<1>6. /\ Window \in Nat /\ Window > 0 /\ Window <= ShortWindow /\ ShortWindow < MaxWindow /\ HubTime < Skew
      /\ Skew \in Nat /\ HubTime \in Nat /\ ShortWindow \in Nat /\ MaxWindow \in Nat
      /\ changes \in Nat
  BY CatalogsFacts DEF Base, Deployed
<1>7. at \in Nat
  <2>1. phase \in {"run", "done"} BY DEF Has, Base, Place
  <2> QED BY <2>1 DEF Timed
<1>8. TimesOK(L(c)) BY NoBad DEF TimesOK
<1>9. /\ ~(L(c).exp - L(c).gen > MaxWindow) /\ ~(L(c).exp - L(c).gen > ShortWindow) /\ ~(L(c).exp <= L(c).gen)
  BY <1>4, <1>5, <1>6
<1>10. L(c).gen > at + Skew => changes > 0 /\ deadline = None BY <1>1, <1>4, <1>6, <1>7
<1>11. L(c).exp + Skew < at => Lapsed(c)
  <2>1. ASSUME L(c).exp + Skew < at, NEW k \in DOMAIN chain[c], chain[c][k].gen < at
        PROVE  chain[c][k].exp + Skew < at
    <3>1. k \in 1..Len(chain[c]) /\ k \in Nat BY <1>3
    <3>2. k <= L(c).seq
      <4>1. L(c).seq \in Nat BY <1>1
      <4>2. ~(k > L(c).seq) BY <1>1, <1>4, <1>7, <2>1, <3>1
      <4> QED BY <3>1, <4>1, <4>2
    <3>3. chain[c][k].gen <= L(c).gen BY <1>1, <1>2, <3>1, <3>2 DEF Clear
    <3>4. chain[c][k].exp = chain[c][k].gen + Window BY <1>2, <3>1 DEF Clear
    <3>5. chain[c][k].gen \in Nat BY <1>4, <3>1
    <3> QED BY <1>4, <1>5, <1>6, <1>7, <2>1, <3>3, <3>4, <3>5
  <2> QED BY <2>1 DEF Lapsed
<1>12. PICK a : /\ a = Judge("snapshot.dates", <<c>>, L(c).gen > at + Skew \/ L(c).exp <= L(c).gen)
                /\ a[3] = "fail" => Excused(a)
  <2>1. PICK a : a = Judge("snapshot.dates", <<c>>, L(c).gen > at + Skew \/ L(c).exp <= L(c).gen) OBVIOUS
  <2>2. a[3] = "fail" => L(c).gen > at + Skew BY <1>9, <2>1 DEF Judge, Passed
  <2>3. a[1] = "snapshot.dates" BY <2>1 DEF Judge, Passed, Failed
  <2> QED BY <1>10, <2>1, <2>2, <2>3 DEF Excused, Outlasted
<1>13. PICK b : /\ b = Judge("snapshot.fresh", <<c>>, L(c).exp + Skew < at)
                /\ b[3] = "fail" => Excused(b)
  <2>1. PICK b : b = Judge("snapshot.fresh", <<c>>, L(c).exp + Skew < at) OBVIOUS
  <2>2. b[3] = "fail" => L(c).exp + Skew < at BY <2>1 DEF Judge, Passed
  <2>3. b[1] = "snapshot.fresh" /\ b[2] = <<c>> BY <2>1 DEF Judge, Passed, Failed
  <2> QED BY <1>11, <2>1, <2>2, <2>3 DEF Excused
<1>14. PICK m, w : /\ m = Judge("snapshot.window-max", <<c>>, L(c).exp - L(c).gen > MaxWindow)
                   /\ w = Judge("snapshot.window-short", <<c>>, L(c).exp - L(c).gen > ShortWindow)
                   /\ m[3] # "fail" /\ w[3] # "fail"
  BY <1>9, HonestJudged
<1>15. Times(c, L(c)) = {a, m, w, b} BY <1>8, <1>12, <1>13, <1>14 DEF Times
<1> QED BY <1>12, <1>13, <1>14, <1>15 DEF FairSet

LEMMA FairEntriesOf == ASSUME flaws = {}, NEW c, NEW s PROVE FairSet(Entries(c, s))
<1>1. \A check, flaw, over : FairSet(EntryJudged(check, c, flaw, over))
  BY NoBad, FairOutcomes DEF EntryJudged, FairSet
<1>2. FairSet({Failed("uri.rules", <<c, x>>) : x \in {y \in Listing[c] : Bad(Entry(c, y), {"uri"})}})
  BY NoBad DEF FairSet
<1>3. FairSet({Passed("uri.rules", <<c>>) : x \in Surviving(c)}) BY FairOutcomes DEF FairSet
<1>4. Judge("snapshot.duplicate-component", <<c>>, IsBad(s, {"duplicate"}))[3] # "fail" BY HonestJudged
<1>5. FairSet({Judge("snapshot.duplicate-component", <<c>>, IsBad(s, {"duplicate"}))}) BY <1>4, FairOutcomes
<1>6. FairSet({Passed("snapshot.duplicate-component", <<c>>)}) BY FairOutcomes
<1>7. FairSet(Block(EntryChecks, <<c>>)) BY FairOutcomes
<1> QED BY <1>1, <1>2, <1>3, <1>5, <1>6, <1>7, FairOutcomes DEF Entries

LEMMA FairContent ==
    ASSUME flaws = {}, wrongs = {}, Base, Timed, Untouched, StillServed, HonestChain, HonestGot,
           NEW c \in Catalogs, Has(<<"latest", c>>), Has(M)
    PROVE  FairSet(Content(c, L(c)))
<1>1. PICK p : p = Judge("snapshot.policy-digest", <<c>>,
                         L(c).policy # got[M].doc.policy[c] \/ IsBad(L(c), {"policy"}))
  OBVIOUS
<1>2. changes = 0 => L(c).policy = got[M].doc.policy[c]
  <2>1. SUFFICES ASSUME changes = 0 PROVE L(c).policy = got[M].doc.policy[c] OBVIOUS
  <2>2. got[M].doc.policy = policy /\ policy[c] = 1 BY <2>1, StillManifest DEF Untouched
  <2>3. L(c) = Last(chain[c]) BY <2>1, StillLatest
  <2>4. chain[c] = Founding(c) /\ Len(chain[c]) = Length[c] BY <2>1 DEF Untouched
  <2>5. Last(chain[c]) = Founding(c)[Length[c]] /\ Length[c] \in 1..Length[c]
    BY <2>4, ChainLast DEF Base
  <2>6. \E q : Founding(c)[Length[c]] = Snapshot(c, Length[c], q, 1, Length[c]) BY <2>5 DEF Founding
  <2> QED BY <2>2, <2>3, <2>5, <2>6 DEF Snapshot
<1>3. FairSet({p})
  <2>1. p[3] = "fail" => changes # 0 BY <1>1, <1>2, NoBad DEF Judge, Passed
  <2>2. p[1] = "snapshot.policy-digest" BY <1>1 DEF Judge, Passed, Failed
  <2>3. changes \in Nat BY DEF Base, Deployed
  <2> QED BY <2>1, <2>2, <2>3 DEF FairSet, Excused, Torn
<1>4. Judge("snapshot.chain-fields", <<c>>, ChainFieldsBad(L(c)))[3] # "fail" BY HonestJudged DEF ChainFieldsBad
<1>5. FairSet({Judge("snapshot.chain-fields", <<c>>, ChainFieldsBad(L(c)))}) BY <1>4, FairOutcomes
<1>6. Judge("snapshot.entry-count", <<c>>, IsBad(L(c), {"entry-count"}))[3] # "fail" BY HonestJudged
<1>7. FairSet({Judge("snapshot.entry-count", <<c>>, IsBad(L(c), {"entry-count"}))}) BY <1>6, FairOutcomes
<1>8. FairSet(Block({"snapshot.entry-count"}, <<c>>)) BY FairOutcomes
<1>9. PICK count : /\ count = (IF IsBad(L(c), {"no-entries"}) THEN Block({"snapshot.entry-count"}, <<c>>)
                              ELSE {Judge("snapshot.entry-count", <<c>>, IsBad(L(c), {"entry-count"}))})
                  /\ FairSet(count)
  BY <1>7, <1>8
<1>10. PICK fields : /\ fields = Judge("snapshot.chain-fields", <<c>>, ChainFieldsBad(L(c)))
                     /\ FairSet({fields})
  BY <1>5
<1>11. FairSet(Times(c, L(c))) /\ FairSet(Entries(c, L(c))) BY FairTimes, FairEntriesOf
<1>12. Content(c, L(c)) = {p, fields} \cup Times(c, L(c)) \cup count \cup Entries(c, L(c))
  BY <1>1, <1>9, <1>10 DEF Content
<1>13. \A f \in Content(c, L(c)) :
          f \in {p} \/ f \in {fields} \/ f \in Times(c, L(c)) \/ f \in count \/ f \in Entries(c, L(c))
  BY <1>12
<1> QED BY <1>3, <1>9, <1>10, <1>11, <1>13, Zenon DEF FairSet

LEMMA FairLatestSig ==
    ASSUME flaws = {}, wrongs = {}, Base, Timed, Untouched, StillServed, HonestChain, HonestGot, HonestGot',
           StillServed', NEW c, GetLatestSig(c)
    PROVE  Fair
<1>1. PICK r : /\ Fetches(<<"latest.sig", c>>, r) /\ Doing(<<"latest.sig", c>>)
               /\ LET d == Detached("snapshot.detached-sig", <<c>>, <<"latest.sig", c>>, r,
                                 IF IsBad(L(c), {"unsigned"}) THEN None ELSE Digest(L(c)))
                      judged == {d, Passed("snapshot.signature", <<c>>)} \cup Content(c, L(c))
                  IN  \/ ~SigOK(L(c))
                      \/ IsBad(L(c), {"no-sequence"})
                      \/ found' = found \cup (judged \cup NotApplicable(Chain4 \ {"chain.latest-sibling"}, <<c>>))
                      \/ found' = found \cup judged
  BY Zenon DEF GetLatestSig, Go, Fetches, Running, L
<1>2. HonestAt(<<"latest.sig", c>>, r) BY <1>1, HonestResponse
<1>3. Has(M) /\ c \in Catalogs /\ Has(<<"latest", c>>)
  BY <1>1, AtCatalog, Spots DEF Base, Doing, Readable
<1>4. PICK e : e = (IF IsBad(L(c), {"unsigned"}) THEN None ELSE Digest(L(c))) OBVIOUS
<1>5. PICK d : d = Detached("snapshot.detached-sig", <<c>>, <<"latest.sig", c>>, r, e) OBVIOUS
<1>6. e = Digest(L(c)) BY <1>4, NoBad
<1>7. changes = 0 => (r = Served(<<"latest.sig", c>>) /\ r.st = "200" => r.doc = e)
  <2>1. Served(<<"latest.sig", c>>) = Ok(Digest(Last(chain[c]))) BY <1>3, HonestAnswers, UriIs
  <2> QED BY <1>3, <1>6, <2>1, StillLatest DEF Ok
<1>8. d[3] = "fail" => changes # 0 BY <1>2, <1>5, <1>7, HonestDetached
<1>9. d[1] = "snapshot.detached-sig" BY <1>5 DEF Detached
<1>10. changes \in Nat BY DEF Base, Deployed
<1>11. FairSet({d}) BY <1>8, <1>9, <1>10 DEF FairSet, Excused, Torn
<1>12. FairSet({Passed("snapshot.signature", <<c>>)}) /\ FairSet(Content(c, L(c)))
       /\ FairSet(NotApplicable(Chain4 \ {"chain.latest-sibling"}, <<c>>))
  BY <1>3, FairContent, FairOutcomes
<1>13. SigOK(L(c)) /\ ~IsBad(L(c), {"no-sequence"}) BY NoBad DEF SigOK
<1>14. \/ found' = found \cup ({d, Passed("snapshot.signature", <<c>>)} \cup Content(c, L(c))
                                 \cup NotApplicable(Chain4 \ {"chain.latest-sibling"}, <<c>>))
       \/ found' = found \cup ({d, Passed("snapshot.signature", <<c>>)} \cup Content(c, L(c)))
  BY <1>1, <1>4, <1>5, <1>13
<1> QED BY <1>11, <1>12, <1>14 DEF Fair, FairSet

LEMMA FairNewest ==
    ASSUME flaws = {}, wrongs = {}, Base, HonestGot, HonestGot', StillServed', NEW c, GetNewest(c)
    PROVE  Fair
<1>0. PICK k : k = L(c).seq OBVIOUS
<1>1. PICK r : /\ Fetches(<<"sibling", c, k>>, r) /\ Doing(<<"newest", c>>)
               /\ found' = found \cup {<< "chain.latest-sibling", <<c>>,
                       CASE State(r, TRUE) = "unknown" -> "inconclusive"
                         [] State(r, TRUE) \in {"absent", "refused"} -> "not-applicable"
                         [] State(r, TRUE) = "ok" -> IF r.doc = L(c) THEN "pass" ELSE "fail" >>}
  BY <1>0, Zenon DEF GetNewest, Go, Fetches, Running, L
<1>2. HonestAt(<<"sibling", c, k>>, r) BY <1>1, HonestResponse
<1>3. c \in Public /\ Walked(c) /\ c \in Catalogs /\ Has(<<"latest", c>>)
  BY <1>1, AtCatalog, Spots DEF Base, Doing, Walked, Readable
<1>4. k \in 1..MaxSeq
  <2>1. k \in Nat /\ k >= 1 /\ k <= MaxSeq /\ MaxSeq \in Nat BY <1>0, <1>3, SeqRange, CatalogsFacts DEF Base
  <2> QED BY <2>1
<1>5. r.st = "200" => r.doc = L(c)
  <2>1. UNCHANGED <<chain, flaws, wrongs>> BY <1>1 DEF Fetches, deployment
  <2>2. r.st = "200" => r.doc = chain[c][k] BY <1>2, <1>3, <1>4, <2>1 DEF HonestAt, HonestGot, Has
  <2> QED BY <1>0, <1>3, <2>2 DEF HonestGot
<1>6. State(r, TRUE) \in {"ok", "unknown", "absent", "refused"} /\ (State(r, TRUE) = "ok" => r.st = "200")
  BY StateIs
<1>7. PICK o : /\ o = CASE State(r, TRUE) = "unknown" -> "inconclusive"
                         [] State(r, TRUE) \in {"absent", "refused"} -> "not-applicable"
                         [] State(r, TRUE) = "ok" -> IF r.doc = L(c) THEN "pass" ELSE "fail"
               /\ found' = found \cup {<<"chain.latest-sibling", <<c>>, o>>}
  BY <1>1
<1>8. o # "fail"
  <2>1. CASE State(r, TRUE) = "ok"
    <3>1. r.doc = L(c) BY <1>5, <1>6, <2>1
    <3> QED BY <1>7, <2>1, <3>1
  <2>2. CASE State(r, TRUE) = "unknown" BY <1>7, <2>2
  <2>3. CASE State(r, TRUE) \in {"absent", "refused"} BY <1>7, <2>3
  <2> QED BY <1>6, <2>1, <2>2, <2>3
<1>9. found' = found \cup {<<"chain.latest-sibling", <<c>>, o>>} BY <1>7
<1> QED BY <1>8, <1>9 DEF Fair

LEMMA FairSibling ==
    ASSUME flaws = {}, wrongs = {}, Base, HonestGot', StillServed', NEW c, NEW k, GetSibling(c, k)
    PROVE  Fair
<1>1. PICK r : /\ Fetches(<<"sibling", c, k>>, r) /\ Doing(<<"sibling", c, k>>)
               /\ \/ found' = found
                  \/ IsBad(r.doc, {"size"})
                  \/ /\ State(r, TRUE) = "ok"
                     /\ found' = found \cup {Judge("chain.sibling-valid", <<c, k>>,
                             \/ IsBad(r.doc, {"parse"}) \/ SchemaBad(r.doc) \/ IdentityBad(r.doc)
                             \/ ChainFieldsBad(r.doc) \/ r.doc.seq # k \/ ~SigOK(r.doc))}
  BY Zenon DEF GetSibling, Go, Fetches, Running
<1>2. HonestAt(<<"sibling", c, k>>, r) BY <1>1, HonestResponse
<1>3. c \in Catalogs /\ k \in 1..MaxSeq BY <1>1, AtCatalog, Spots DEF Base, Doing
<1>4. r.st = "200" => r.doc.seq = k
  <2>1. UNCHANGED <<chain, flaws, wrongs>> BY <1>1 DEF Fetches, deployment
  <2>2. r.st = "200" => k \in 1..Len(chain[c]) /\ r.doc = chain[c][k]
    BY <1>2, <1>3, <2>1 DEF HonestAt, HonestGot, Has
  <2> QED BY <1>3, <2>2 DEF Base, Deployed
<1>5. CASE found' = found BY <1>5 DEF Fair
<1>6. CASE /\ State(r, TRUE) = "ok"
           /\ found' = found \cup {Judge("chain.sibling-valid", <<c, k>>,
                             \/ IsBad(r.doc, {"parse"}) \/ SchemaBad(r.doc) \/ IdentityBad(r.doc)
                             \/ ChainFieldsBad(r.doc) \/ r.doc.seq # k \/ ~SigOK(r.doc))}
  <2>1. r.st = "200" BY <1>6, StateIs
  <2>2. ~(\/ IsBad(r.doc, {"parse"}) \/ SchemaBad(r.doc) \/ IdentityBad(r.doc)
          \/ ChainFieldsBad(r.doc) \/ r.doc.seq # k \/ ~SigOK(r.doc))
    BY <1>4, <2>1, NoBad DEF SchemaBad, IdentityBad, ChainFieldsBad, SigOK
  <2>3. found' = found \cup {Passed("chain.sibling-valid", <<c, k>>)} BY <1>6, <2>2 DEF Judge
  <2> QED BY <2>3, FairOutcomes DEF Fair
<1> QED BY <1>1, <1>5, <1>6, NoBad

LEMMA FairSiblingSig ==
    ASSUME flaws = {}, wrongs = {}, Base, StillServed, HonestGot', StillServed', NEW c, NEW k, GetSiblingSig(c, k)
    PROVE  Fair
<1> DEFINE u == <<"sibling.sig", c, k>>
<1>1. PICK r : /\ Fetches(u, r) /\ Doing(u)
               /\ found' = found \cup {Detached("snapshot.detached-sig", <<c, k>>, u, r,
                             IF IsBad(got[<<"sibling", c, k>>].doc, {"unsigned", "parse"}) THEN None
                             ELSE Digest(got[<<"sibling", c, k>>].doc))}
  BY Zenon DEF GetSiblingSig, Go, Fetches, Running
<1>2. HonestAt(u, r) BY <1>1, HonestResponse
<1>3. c \in Catalogs /\ k \in 1..MaxSeq /\ Has(<<"sibling", c, k>>)
  BY <1>1, AtCatalog, Spots DEF Base, Doing
<1>4. PICK e : e = Digest(got[<<"sibling", c, k>>].doc) OBVIOUS
<1>5. PICK d : d = Detached("snapshot.detached-sig", <<c, k>>, u, r, e) OBVIOUS
<1>6. changes = 0 => (r = Served(u) /\ r.st = "200" => r.doc = e)
  <2>1. SUFFICES ASSUME changes = 0, r = Served(u), r.st = "200" PROVE r.doc = e OBVIOUS
  <2>2. Answer("lost").st = "lost" /\ Answer("spent").st = "spent" /\ Answer("404").st = "404" BY DEF Answer
  <2>3. got[<<"sibling", c, k>>] = Served(<<"sibling", c, k>>) BY <1>3, <2>1, <2>2 DEF StillServed, Has
  <2>4. /\ Served(<<"sibling", c, k>>) = Filed(shelf[c][k], shelf[c][k])
        /\ Served(u) = Filed(shelf[c][k], Digest(shelf[c][k]))
    BY <1>3, HonestAnswers, UriIs
  <2>5. got[<<"sibling", c, k>>].doc = shelf[c][k] /\ r.doc = Digest(shelf[c][k])
    BY <1>3, <2>1, <2>2, <2>3, <2>4 DEF Filed, Ok, Has
  <2> QED BY <1>4, <2>5
<1>7. d[3] = "fail" => changes # 0 BY <1>2, <1>5, <1>6, HonestDetached
<1>8. d[1] = "snapshot.detached-sig" BY <1>5 DEF Detached
<1>9. changes \in Nat BY DEF Base, Deployed
<1>10. FairSet({d}) BY <1>7, <1>8, <1>9 DEF FairSet, Excused, Torn
<1>11. found' = found \cup {d} BY <1>1, <1>4, <1>5, NoBad
<1> QED BY <1>10, <1>11, FairFound

LEMMA FairChain ==
    ASSUME flaws = {}, wrongs = {}, Base, Gaps, HonestChain, NEW c, CheckChain(c)
    PROVE  Fair
<1>1. SUFFICES ASSUME NEW f \in found', f \notin found, f[3] = "fail" PROVE FALSE BY DEF Fair
<1>2. ChainEnds(c, f) BY <1>1, FindsChain
<1>3. CASE \E k : /\ f = Failed("chain.retention", <<c, k>>)
              /\ k \in Lowest(L(c).seq)..(L(c).seq - 1)
              /\ Fetched(c, k) \in {"absent", "refused"} /\ Evidence(c, k, Lowest(L(c).seq))
  <2>1. PICK k : c \in Catalogs /\ (NotKept(c, k) \/ ~ExpiryGrows(c)) BY <1>3, GapProves
  <2>2. ~NotKept(c, k) BY NoBad DEF NotKept
  <2>3. Clear(c) BY <2>1 DEF HonestChain
  <2>4. /\ DOMAIN chain[c] = 1..Len(chain[c]) /\ Len(chain[c]) \in Nat
        /\ \A j \in 1..Len(chain[c]) : chain[c][j] \in SnapshotSet
    BY <2>1, ChainLast DEF Base, Deployed
  <2>5. \A j \in 1..Len(chain[c]) : chain[c][j].gen \in Nat BY <2>4 DEF SnapshotSet
  <2>6. Window \in Nat BY CatalogsFacts
  <2>7. ASSUME NEW i \in DOMAIN chain[c], NEW j \in DOMAIN chain[c], i < j
        PROVE  chain[c][i].exp <= chain[c][j].exp
    <3>1. i \in 1..Len(chain[c]) /\ j \in 1..Len(chain[c]) /\ i <= j BY <2>4, <2>7
    <3>2. /\ chain[c][i].gen <= chain[c][j].gen
          /\ chain[c][i].exp = chain[c][i].gen + Window /\ chain[c][j].exp = chain[c][j].gen + Window
      BY <2>3, <3>1 DEF Clear
    <3> QED BY <2>5, <2>6, <3>1, <3>2
  <2> QED BY <2>1, <2>2, <2>7 DEF ExpiryGrows
<1>4. CASE \E k : /\ f = Failed("chain.links", <<c, k>>)
              /\ k \in Lowest(L(c).seq)..(L(c).seq - 1)
              /\ Comparable(c, k) /\ Upper(c, k) # Digest(Sibling(c, k).doc)
  <2>1. PICK k : Forked(c, k) BY <1>4, LinkProves
  <2> QED BY <2>1 DEF Forked
<1> QED BY <1>1, <1>2, <1>3, <1>4 DEF ChainEnds

LEMMA FairEntries ==
    ASSUME flaws = {}, wrongs = {}, ExamineEntries
    PROVE  Fair
<1>1. \A c : FairSet(Block(DestScoped, <<c>>)) BY FairOutcomes
<1>2. FairSet(CrossCatalog)
  <2>1. \A c, x : Bad(Entry(c, x), {"pin"}) = FALSE BY NoBad DEF Bad
  <2>2. ASSUME NEW x PROVE ~(Cardinality(Pins(x)) > 1)
    <3>1. PICK v : Pins(x) \subseteq {v}
      <4>1. \A p \in Pins(x) : p = FALSE BY <2>1, Zenon DEF Pins
      <4>2. Pins(x) \subseteq {FALSE} BY <4>1, Zenon
      <4> QED BY <4>2, Zenon
    <3>2. Pins(x) = {} \/ Pins(x) = {v} BY <3>1
    <3>3. Cardinality({}) = 0 /\ Cardinality({v}) = 1 BY FS_EmptySet, FS_Singleton
    <3> QED BY <3>2, <3>3
  <2>3. ~\E x \in Components : Cardinality(Pins(x)) > 1 BY <2>2
  <2>4. Judge("provider.cross-catalog-digest", M, \E x \in Components : Cardinality(Pins(x)) > 1)[3] # "fail"
    BY <2>3, HonestJudged
  <2> QED BY <2>4 DEF CrossCatalog, FairSet
<1>3. PICK cs : found' = found \cup (CrossCatalog \cup UNION {Block(DestScoped, <<c>>) : c \in cs})
  BY DEF ExamineEntries, Go
<1> QED BY <1>1, <1>2, <1>3 DEF Fair, FairSet

LEMMA FairDest ==
    ASSUME flaws = {}, wrongs = {}, HonestGot', StillServed', NEW x, NEW c, GetDest(x, c)
    PROVE  Fair
<1> DEFINE u == <<"dest", x>>
<1>0. PICK es : es = <<c, x>> OBVIOUS
<1>1. PICK r, fs : /\ Fetches(u, r)
                   /\ \/ /\ ~(State(r, FALSE) = "ok" /\ ~Bad(u, {"size"}))
                         /\ fs = Block(DestScoped \ {"dest.retrievable"}, es)
                         /\ found' = found \cup ({IF State(r, FALSE) = "ok" THEN Failed("dest.retrievable", es)
                                  ELSE Required("dest.retrievable", es, r)} \cup fs)
                      \/ ~(Bad(u, {"changed"}) = Bad(Entry(c, x), {"pin"}))
                      \/ Bad(u, {"parse"})
                      \/ found' = found \cup {Passed("dest.retrievable", es), Passed("dest.digest", es),
                              DestFields(es, u), DestSignature(es, u)}
  BY <1>0, Zenon DEF GetDest, Go, Fetches, Running
<1>2. HonestAt(u, r) BY <1>1, HonestResponse
<1>3. /\ DestFields(es, u)[3] # "fail" /\ DestSignature(es, u)[3] # "fail"
      /\ Passed("dest.retrievable", es)[3] # "fail" /\ Passed("dest.digest", es)[3] # "fail"
  BY NoBad, FairOutcomes DEF DestFields, DestSignature
<1>4. Required("dest.retrievable", es, r)[3] # "fail" BY <1>2, HonestRequired
<1>5. ~Bad(u, {"size"}) /\ ~Bad(u, {"parse"}) /\ Bad(u, {"changed"}) = Bad(Entry(c, x), {"pin"})
  BY NoBad DEF Bad
<1>6. CASE /\ State(r, FALSE) # "ok" /\ fs = Block(DestScoped \ {"dest.retrievable"}, es)
           /\ found' = found \cup ({Required("dest.retrievable", es, r)} \cup fs)
  BY <1>4, <1>6, FairOutcomes DEF Fair, FairSet
<1>7. CASE found' = found \cup {Passed("dest.retrievable", es), Passed("dest.digest", es),
                              DestFields(es, u), DestSignature(es, u)}
  BY <1>3, <1>7 DEF Fair
<1> QED BY <1>1, <1>5, <1>6, <1>7

LEMMA FairFinish == ASSUME flaws = {}, Finish PROVE Fair
<1>1. FairSet(Cookies) BY NoBad, FairOutcomes DEF Cookies, FairSet
<1> QED BY <1>1, FairFound DEF Finish

LEMMA FairStart == ASSUME flaws = {}, Start PROVE FairSet(found)'
<1>1. Judge("manifest.uri", M, Bad(M, {"uri"}))[3] # "fail" BY HonestJudged
<1> QED BY <1>1 DEF Start, FairSet

(* What excuses a provider once excuses it for the rest of the run.           *)
LEMMA ExcusedKept ==
    ASSUME Base, Timed, HonestChain, flaws = {}, wrongs' = {}, ProviderNext, phase = "run",
           NEW f, Excused(f)
    PROVE  Excused(f)'
<1>1. /\ UNCHANGED <<at, deadline>> /\ changes' = changes + 1 /\ changes \in Nat
      /\ at <= now /\ at \in Nat /\ now \in Nat
  BY ProviderKeeps DEF Base, Deployed, Timed
<1>2. CASE changes > 0 /\ f[1] \in Torn \cup Outlasted BY <1>1, <1>2 DEF Excused, Outlasted
<1>3. CASE f[1] = "snapshot.fresh" /\ f[2][1] \in Catalogs /\ Lapsed(f[2][1])
  <2>1. PICK c \in Catalogs : c = f[2][1] BY <1>3
  <2>2. /\ \A k \in 1..Len(chain[c]) : chain'[c][k] = chain[c][k] /\ k \in 1..Len(chain'[c])
        /\ \A k \in 1..Len(chain'[c]) : k \notin 1..Len(chain[c]) => chain'[c][k].gen = now
    BY HonestGrows DEF Base
  <2>3. /\ DOMAIN chain[c] = 1..Len(chain[c])
        /\ DOMAIN chain'[c] = 1..Len(chain'[c])
    <3>1. chain[c] \in Seq(SnapshotSet) BY DEF Base, Deployed
    <3>2. Deployed' BY DeployedStep DEF Base, Next
    <3>3. chain'[c] \in Seq(SnapshotSet) BY <3>2 DEF Deployed
    <3> QED BY <3>1, <3>3
  <2>4. \A k \in DOMAIN chain[c] : chain[c][k].gen < at => chain[c][k].exp + Skew < at
    BY <1>3, <2>1 DEF Lapsed
  <2>5. \A k \in DOMAIN chain'[c] : chain'[c][k].gen < at => chain'[c][k].exp + Skew < at
    BY <1>1, <2>2, <2>3, <2>4
  <2> QED BY <1>1, <1>3, <2>1, <2>5 DEF Excused, Lapsed
<1> QED BY <1>2, <1>3 DEF Excused

LEMMA RunClock == ASSUME RunNext PROVE Start \/ Probe \/ UNCHANGED <<at, deadline>>
<1>1. Finish => UNCHANGED <<at, deadline>> BY DEF Finish
<1>2. GetManifest \/ GetManifestSig \/ GetPrivacy \/ ExamineEntries => UNCHANGED <<at, deadline>>
  BY DEF GetManifest, GetManifestSig, GetPrivacy, ExamineEntries, Running
<1>3. ASSUME NEW c PROVE GetPolicy(c) \/ GetLatest(c) \/ GetLatestSig(c) \/ GetNewest(c) \/ CheckChain(c)
                           => UNCHANGED <<at, deadline>>
  BY DEF GetPolicy, GetLatest, GetLatestSig, GetNewest, CheckChain, Running
<1>4. ASSUME NEW c, NEW k PROVE GetSibling(c, k) \/ GetSiblingSig(c, k) \/ GetDest(k, c)
                                  => UNCHANGED <<at, deadline>>
  BY DEF GetSibling, GetSiblingSig, GetDest, Running
<1> QED BY <1>1, <1>2, <1>3, <1>4 DEF RunNext

LEMMA HonestFoundStep ==
    Base /\ Timed /\ Untouched /\ StillServed /\ HonestChain /\ Gaps /\ HonestGot /\ HonestFound /\ [Next]_vars
        => HonestFound'
<1> SUFFICES ASSUME Base, Timed, Untouched, StillServed, HonestChain, Gaps, HonestGot, HonestFound, [Next]_vars
             PROVE  HonestFound'
  OBVIOUS
<1>1. HonestGot' /\ StillServed' BY HonestGotStep, StillStep
<1>2. CASE ProviderNext
  <2>1. UNCHANGED <<flaws, phase, found>> /\ wrongs \subseteq wrongs' /\ phase \in {"idle", "run"}
    BY <1>2, ProviderKeeps DEF Base
  <2>2. SUFFICES ASSUME flaws = {}, wrongs = {}, wrongs' = {} PROVE FairSet(found)'
    BY <2>1 DEF HonestFound
  <2>3. CASE phase = "idle"
    <3>1. found' = {} BY <2>1, <2>3 DEF Base, Place
    <3> QED BY <3>1 DEF FairSet
  <2>4. CASE phase = "run"
    <3>1. ASSUME NEW f \in found', f[3] = "fail" PROVE Excused(f)'
      <4>1. Excused(f) BY <2>1, <2>2, <3>1 DEF HonestFound, FairSet
      <4> QED BY <1>2, <2>2, <2>4, <4>1, ExcusedKept
    <3> QED BY <3>1 DEF FairSet
  <2> QED BY <2>1, <2>3, <2>4
<1>3. CASE RunNext
  <2>1. UNCHANGED <<chain, wrongs, changes, flaws>> BY <1>3, RunKeeps
  <2>2. SUFFICES ASSUME flaws = {}, wrongs = {} PROVE FairSet(found)' BY <2>1 DEF HonestFound
  <2>3. CASE Start BY <2>2, <2>3, FairStart
  <2>4. CASE Probe
    <3>1. found' = {} BY <2>4 DEF Probe, Base, Place
    <3> QED BY <3>1 DEF FairSet
  <2>5. CASE ~Start /\ ~Probe
    <3>1. UNCHANGED <<at, deadline>> BY <1>3, <2>5, RunClock
    <3>2. Fair
      <4>1. CASE Finish BY <2>2, <4>1, FairFinish
      <4>2. CASE GetManifest BY <1>1, <2>2, <4>2, FairManifest
      <4>3. CASE GetManifestSig BY <1>1, <2>2, <4>3, FairManifestSig
      <4>4. CASE GetPrivacy BY <1>1, <2>2, <4>4, FairPrivacy
      <4>5. CASE ExamineEntries BY <2>2, <4>5, FairEntries
      <4>6. ASSUME NEW c \in Catalogs, GetPolicy(c) PROVE Fair BY <1>1, <2>2, <4>6, FairPolicy
      <4>7. ASSUME NEW c \in Catalogs, GetLatest(c) PROVE Fair BY <1>1, <2>2, <4>7, FairLatest
      <4>8. ASSUME NEW c \in Catalogs, GetLatestSig(c) PROVE Fair BY <1>1, <2>2, <4>8, FairLatestSig
      <4>9. ASSUME NEW c \in Catalogs, GetNewest(c) PROVE Fair BY <1>1, <2>2, <4>9, FairNewest
      <4>10. ASSUME NEW c \in Catalogs, CheckChain(c) PROVE Fair BY <2>2, <4>10, FairChain
      <4>11. ASSUME NEW c \in Catalogs, NEW k \in 1..MaxSeq, GetSibling(c, k) PROVE Fair
        BY <1>1, <2>2, <4>11, FairSibling
      <4>12. ASSUME NEW c \in Catalogs, NEW k \in 1..MaxSeq, GetSiblingSig(c, k) PROVE Fair
        BY <1>1, <2>2, <4>12, FairSiblingSig
      <4>13. ASSUME NEW c \in Catalogs, NEW x \in Components, GetDest(x, c) PROVE Fair
        BY <1>1, <2>2, <4>13, FairDest
      <4> QED BY <1>3, <2>5, <4>1, <4>2, <4>3, <4>4, <4>5, <4>6, <4>7, <4>8, <4>9, <4>10, <4>11, <4>12, <4>13
              DEF RunNext
    <3>3. \A f \in found' : f[3] = "fail" => Excused(f)
      BY <2>2, <3>2 DEF Fair, HonestFound, FairSet
    <3>4. \A f : Excused(f)' <=> Excused(f) BY <2>1, <3>1 DEF Excused, Outlasted, Lapsed
    <3> QED BY <3>3, <3>4 DEF FairSet
  <2> QED BY <2>3, <2>4, <2>5
<1>4. CASE UNCHANGED vars
  BY <1>4 DEF HonestFound, FairSet, Excused, Outlasted, Lapsed, vars, deployment
<1> QED BY <1>2, <1>3, <1>4 DEF Next, Over

LEMMA HonestInitially == Init => HonestGot /\ HonestFound
<1> SUFFICES ASSUME Init PROVE HonestGot /\ HonestFound OBVIOUS
<1>1. DOMAIN got = {} /\ found = {} BY DEF Init
<1> QED BY <1>1 DEF HonestGot, HonestFound, Has, FairSet

(* A provider that only publishes, renews and prunes is accused of nothing:   *)
(* whatever the network loses, whenever it publishes, in any number of        *)
(* catalogs, but for what two torn fetches excuse and what it let lapse.      *)
THEOREM SpecHonestNotBlamed == Spec => []HonestNotBlamed
<1> DEFINE Inv == /\ Base /\ Timed /\ Untouched /\ StillServed /\ HonestChain
                  /\ Gaps /\ HonestGot /\ HonestFound
<1>1. Init => Inv BY BaseInit, UntouchedInit, HonestInit, GapsInit, HonestInitially
<1>2. Inv /\ [Next]_vars => Inv'
  <2> SUFFICES ASSUME Inv, [Next]_vars PROVE Inv' OBVIOUS
  <2>1. Base' BY BaseStep
  <2>2. Timed' BY TimedStep
  <2>3. Untouched' BY UntouchedStep
  <2>4. StillServed' BY StillStep
  <2>5. HonestChain' BY HonestStep
  <2>6. Gaps' BY GapsStep
  <2>7. HonestGot' BY HonestGotStep
  <2>8. HonestFound' BY HonestFoundStep
  <2> QED BY <2>1, <2>2, <2>3, <2>4, <2>5, <2>6, <2>7, <2>8
<1>3. Inv => HonestNotBlamed BY DEF HonestFound, FairSet, Excused, HonestNotBlamed
<1> QED BY <1>1, <1>2, <1>3, PTL DEF Spec

-------------------------------------------------------------------------------
(* What decides a run's result.                                               *)
Counts(f) == f[1] \notin Should /\ f[3] \in {"fail", "inconclusive"}
Clean == \A f \in found : ~Counts(f)
Faultless == \A f \in found : ~(f[1] \notin Should /\ f[3] = "fail")

LEMMA OutcomeFails ==
    ASSUME NEW f \in found
    PROVE  /\ f[3] = "fail" => OutcomeOf(f[1]) = "fail"
           /\ f[3] \in {"fail", "inconclusive"} => OutcomeOf(f[1]) \in {"fail", "inconclusive"}
<1> DEFINE outs == {h[3] : h \in {g \in found : g[1] = f[1]}}
<1>1. f[3] \in outs OBVIOUS
<1>2. outs # {} BY <1>1
<1>3. OutcomeOf(f[1]) = IF outs = {} /\ stopped THEN "inconclusive"
                        ELSE IF "fail" \in outs THEN "fail"
                        ELSE IF "inconclusive" \in outs THEN "inconclusive"
                        ELSE IF "pass" \in outs THEN "pass"
                        ELSE "not-applicable"
  BY DEF OutcomeOf
<1> HIDE DEF outs
<1> QED BY <1>1, <1>2, <1>3

LEMMA FailDecides ==
    ASSUME Typed, ~Faultless
    PROVE  Result = "fail"
<1>1. PICK f \in found : f[1] \notin Should /\ f[3] = "fail" BY DEF Faultless
<1>2. f[1] \in Checks /\ OutcomeOf(f[1]) = "fail" BY <1>1, OutcomeFails DEF Typed, Sound
<1>3. {check \in Checks : OutcomeOf(check) = "fail"} \ Should # {} BY <1>1, <1>2
<1> QED BY <1>3 DEF Result

LEMMA CountsDecides ==
    ASSUME Typed, ~Clean
    PROVE  Result \in {"fail", "inconclusive"}
<1>1. PICK f \in found : f[1] \notin Should /\ f[3] \in {"fail", "inconclusive"} BY DEF Clean, Counts
<1>2. f[1] \in Checks /\ OutcomeOf(f[1]) \in {"fail", "inconclusive"}
  BY <1>1, OutcomeFails DEF Typed, Sound
<1>3. \/ {check \in Checks : OutcomeOf(check) = "fail"} \ Should # {}
      \/ {check \in Checks : OutcomeOf(check) = "inconclusive"} \ Should # {}
  BY <1>1, <1>2
<1> QED BY <1>3 DEF Result

LEMMA RunGrows == ASSUME Place, RunNext PROVE found \subseteq found'
BY RunFinds, FindsChain DEF Finds

LEMMA CleanBefore ==
    ASSUME Place, RunNext
    PROVE  (Clean' => Clean) /\ (Faultless' => Faultless)
BY RunGrows DEF Clean, Faultless

(* What a run that is clear so far has not found.                             *)
LEMMA CleanFinds ==
    ASSUME Clean', NEW check, check \notin Should
    PROVE  /\ \A s : Failed(check, s) \notin found' /\ <<check, s, "inconclusive">> \notin found'
           /\ \A s, bad : Judge(check, s, bad) \in found' => ~bad
           /\ \A s, r : Required(check, s, r) \in found' => State(r, FALSE) = "ok"
           /\ \A s, u, r, e : Detached(check, s, u, r, e) \in found' =>
                \/ State(r, TRUE) = "absent"
                \/ State(r, TRUE) = "ok" /\ ~Bad(u, {"size", "form"})
           /\ \A s, u, r, m, p : Document(check, s, u, r, m, p) \in found' =>
                State(r, FALSE) = "ok" /\ ~Bad(u, {"size"}) /\ ~Bad(u, {"bytes"}) /\ ~m
           /\ \A s, cs : check \in cs => ~(Block(cs, s) \subseteq found')
<1>1. ASSUME NEW s PROVE Failed(check, s) \notin found' /\ <<check, s, "inconclusive">> \notin found'
  BY DEF Clean, Counts, Failed
<1>2. ASSUME NEW s, NEW bad, Judge(check, s, bad) \in found', bad PROVE FALSE
  BY <1>1, <1>2 DEF Judge
<1>3. ASSUME NEW s, NEW r, Required(check, s, r) \in found', State(r, FALSE) # "ok" PROVE FALSE
  BY <1>3 DEF Clean, Counts, Required
<1>4. ASSUME NEW s, NEW u, NEW r, NEW e, Detached(check, s, u, r, e) \in found'
      PROVE  \/ State(r, TRUE) = "absent"
             \/ State(r, TRUE) = "ok" /\ ~Bad(u, {"size", "form"})
  <2>1. State(r, TRUE) \in {"ok", "unknown", "absent", "refused"} BY StateIs
  <2>2. PICK o : o = Detached(check, s, u, r, e)[3] /\ o \notin {"fail", "inconclusive"}
    BY <1>4 DEF Clean, Counts, Detached
  <2>3. State(r, TRUE) # "unknown" /\ State(r, TRUE) # "refused" BY <2>2 DEF Detached
  <2>4. CASE State(r, TRUE) = "ok"
    <3>1. ~Bad(u, {"size", "form"}) BY <2>2, <2>4 DEF Detached
    <3> QED BY <2>4, <3>1
  <2> QED BY <2>1, <2>3, <2>4
<1>5. ASSUME NEW s, NEW u, NEW r, NEW m, NEW p, Document(check, s, u, r, m, p) \in found'
      PROVE  State(r, FALSE) = "ok" /\ ~Bad(u, {"size"}) /\ ~Bad(u, {"bytes"}) /\ ~m
  <2>1. PICK o : o = Document(check, s, u, r, m, p)[3] /\ o \notin {"fail", "inconclusive"}
    BY <1>5 DEF Clean, Counts, Document
  <2>2. State(r, FALSE) = "ok" BY <2>1 DEF Document
  <2>3. ~Bad(u, {"size"}) BY <2>1, <2>2 DEF Document
  <2>4. ~m BY <2>1, <2>2, <2>3 DEF Document
  <2>5. ~Bad(u, {"bytes"}) BY <2>1, <2>2, <2>3, <2>4 DEF Document
  <2> QED BY <2>2, <2>3, <2>4, <2>5
<1>6. ASSUME NEW s, NEW cs, check \in cs, Block(cs, s) \subseteq found' PROVE FALSE
  <2>1. <<check, s, "inconclusive">> \in Block(cs, s) BY <1>6 DEF Block
  <2> QED BY <1>1, <1>6, <2>1
<1> QED BY <1>1, <1>2, <1>3, <1>4, <1>5, <1>6

(* What each step must have met for the run to be clear after it.             *)
Optional(u, r) == State(r, TRUE) = "absent" \/ (State(r, TRUE) = "ok" /\ ~Bad(u, {"size", "form"}))

LEMMA CleanStart == ASSUME Start, Clean' PROVE ~Bad(M, {"uri"})
<1>1. Judge("manifest.uri", M, Bad(M, {"uri"})) \in found' BY DEF Start
<1> QED BY <1>1, CleanFinds DEF Should

LEMMA CleanManifest ==
    ASSUME GetManifest, Clean'
    PROVE  /\ ~Bad(M, {"size", "parse"}) /\ ~ManifestSchemaBad /\ ~Bad(M, {"identity", "seat", "key"})
           /\ \E r : Fetches(M, r) /\ State(r, FALSE) = "ok" /\ doing' = <<"manifest.sig">>
<1>1. PICK r : /\ Fetches(M, r)
               /\ Required("manifest.fetch", M, r) \in found'
               /\ \/ State(r, FALSE) # "ok"
                  \/ Bad(M, {"size"}) /\ Judge("manifest.size", M, Bad(M, {"size"})) \in found'
                  \/ /\ Bad(M, {"parse"})
                     /\ Judge("manifest.schema", M, Bad(M, {"parse"}) \/ ManifestSchemaBad) \in found'
                  \/ /\ ~Bad(M, {"size", "parse"}) /\ doing' = <<"manifest.sig">>
                     /\ Judge("manifest.schema", M, Bad(M, {"parse"}) \/ ManifestSchemaBad) \in found'
                     /\ Judge("manifest.identity", M, Bad(M, {"identity", "seat", "key"})) \in found'
  <2>1. PICK r : /\ Fetches(M, r)
                 /\ \/ State(r, FALSE) # "ok" /\ found' = found \cup {Required("manifest.fetch", M, r)}
                    \/ /\ Bad(M, {"size"})
                       /\ found' = found \cup {Required("manifest.fetch", M, r),
                                               Judge("manifest.size", M, Bad(M, {"size"}))}
                    \/ /\ Bad(M, {"parse"})
                       /\ found' = found \cup {Required("manifest.fetch", M, r),
                                               Judge("manifest.size", M, Bad(M, {"size"})),
                                 Judge("manifest.schema", M, Bad(M, {"parse"}) \/ ManifestSchemaBad)}
                    \/ /\ ~Bad(M, {"size", "parse"}) /\ doing' = <<"manifest.sig">>
                       /\ found' = found \cup {Required("manifest.fetch", M, r),
                                 Judge("manifest.size", M, Bad(M, {"size"})),
                                 Judge("manifest.schema", M, Bad(M, {"parse"}) \/ ManifestSchemaBad),
                                 Judge("manifest.identity", M, Bad(M, {"identity", "seat", "key"}))}
    BY Zenon DEF GetManifest, Go, Stop, Fetches, Running
  <2> QED BY <2>1, Zenon
<1>2. {"manifest.fetch", "manifest.size", "manifest.schema", "manifest.identity"} \cap Should = {}
  BY DEF Should
<1>3. State(r, FALSE) = "ok" BY <1>1, <1>2, CleanFinds
<1>4. ~(Bad(M, {"size"}) /\ Judge("manifest.size", M, Bad(M, {"size"})) \in found') BY <1>2, CleanFinds
<1>5. Judge("manifest.schema", M, Bad(M, {"parse"}) \/ ManifestSchemaBad) \in found'
        => ~Bad(M, {"parse"}) /\ ~ManifestSchemaBad
  BY <1>2, CleanFinds
<1>6. Judge("manifest.identity", M, Bad(M, {"identity", "seat", "key"})) \in found'
        => ~Bad(M, {"identity", "seat", "key"})
  BY <1>2, CleanFinds
<1> QED BY <1>1, <1>3, <1>4, <1>5, <1>6, Zenon

LEMMA CleanPrivacyUri ==
    ASSUME Clean', PrivacyUri \subseteq found'
    PROVE  ~Bad(M, {"privacy-missing"}) /\ ~Bad(M, {"privacy-uri"})
<1>1. ASSUME Bad(M, {"privacy-missing"}) PROVE FALSE
  <2>1. Failed("privacy.document", M) \in found' BY <1>1 DEF PrivacyUri
  <2> QED BY <2>1, CleanFinds DEF Should
<1>2. ASSUME Bad(M, {"privacy-uri"}), ~Bad(M, {"privacy-missing"}) PROVE FALSE
  <2>1. Failed("uri.rules", M) \in found' BY <1>2 DEF PrivacyUri
  <2> QED BY <2>1, CleanFinds DEF Should
<1> QED BY <1>1, <1>2

LEMMA CleanDescriptors ==
    ASSUME Clean', Descriptors \subseteq found'
    PROVE  /\ \A c \in Catalogs : ~Bad(Descriptor(c), {"fields"}) /\ ~Bad(Descriptor(c), {"uri"})
           /\ ~Bad(M, {"duplicate-id"})
<1>1. ASSUME NEW c \in Catalogs, Bad(Descriptor(c), {"fields"}) PROVE FALSE
  <2>1. Judge("catalog.descriptor-fields", <<c>>, Bad(Descriptor(c), {"fields"})) \in Descriptors
    BY DEF Descriptors
  <2> QED BY <1>1, <2>1, CleanFinds DEF Should
<1>2. ASSUME NEW c \in Catalogs, Bad(Descriptor(c), {"uri"}) PROVE FALSE
  <2>1. Judge("uri.rules", <<c>>, Bad(Descriptor(c), {"uri"})) \in Descriptors
    BY <1>2 DEF Descriptors
  <2> QED BY <1>2, <2>1, CleanFinds DEF Should
<1>3. ASSUME Decoded = {} PROVE FALSE
  <2>1. Judge("catalog.decodable", M, Decoded = {}) \in Descriptors BY DEF Descriptors
  <2> QED BY <1>3, <2>1, CleanFinds DEF Should
<1>4. Judge("catalog.duplicate-id", M, Bad(M, {"duplicate-id"})) \in Descriptors BY <1>3 DEF Descriptors
<1>5. ~Bad(M, {"duplicate-id"}) BY <1>4, CleanFinds DEF Should
<1> QED BY <1>1, <1>2, <1>5

LEMMA CleanManifestSig ==
    ASSUME GetManifestSig, Clean'
    PROVE  /\ ~Bad(M, {"unsigned", "signature"}) /\ ~Bad(M, {"valid-until"}) /\ ~Bad(M, {"catalogs"})
           /\ ~Bad(M, {"privacy-missing"}) /\ ~Bad(M, {"privacy-uri"}) /\ ~Bad(M, {"duplicate-id"})
           /\ \A c \in Catalogs : ~Bad(Descriptor(c), {"fields"}) /\ ~Bad(Descriptor(c), {"uri"})
           /\ \E r : /\ Fetches(<<"manifest.sig">>, r) /\ Optional(<<"manifest.sig">>, r)
                     /\ doing' = <<"privacy">>
<1> DEFINE u == <<"manifest.sig">>
<1>1. PICK r, e : /\ Fetches(u, r)
                  /\ Detached("manifest.detached-sig", M, u, r, e) \in found'
                  /\ \/ Block({"manifest.signature"}, M) \subseteq found'
                     \/ Failed("manifest.signature", M) \in found'
                     \/ Block(DescriptorChecks \cup CatalogScoped, M) \subseteq found'
                     \/ /\ ~Bad(M, {"key", "unsigned", "signature", "catalogs"})
                        /\ Judge("manifest.valid-until", M, Bad(M, {"valid-until"})) \in found'
                        /\ PrivacyUri \subseteq found' /\ Descriptors \subseteq found'
                        /\ doing' = IF Bad(M, {"privacy-missing", "privacy-uri"}) THEN AfterPrivacy
                                    ELSE <<"privacy">>
  <2>1. PICK r : /\ Fetches(u, r)
                 /\ LET sig == Detached("manifest.detached-sig", M, u, r,
                                        IF Bad(M, {"unsigned"}) THEN None ELSE got[M].doc.ver)
                        valid == {Passed("manifest.signature", M),
                                  Judge("manifest.valid-until", M, Bad(M, {"valid-until"}))}
                    IN \/ found' = found \cup ({sig} \cup Block({"manifest.signature"}, M))
                       \/ found' = found \cup {sig, Failed("manifest.signature", M)}
                       \/ found' = found \cup ({sig} \cup valid \cup PrivacyUri
                                                 \cup Block(DescriptorChecks \cup CatalogScoped, M))
                       \/ /\ ~Bad(M, {"key", "unsigned", "signature", "catalogs"})
                          /\ found' = found \cup ({sig} \cup valid \cup PrivacyUri \cup Descriptors)
                          /\ doing' = IF Bad(M, {"privacy-missing", "privacy-uri"}) THEN AfterPrivacy
                                      ELSE <<"privacy">>
    BY Zenon DEF GetManifestSig, Go, Stop, Fetches, Running
  <2>2. PICK e : e = (IF Bad(M, {"unsigned"}) THEN None ELSE got[M].doc.ver) OBVIOUS
  <2>3. PICK sig : sig = Detached("manifest.detached-sig", M, u, r, e) OBVIOUS
  <2>4. PICK valid : valid = {Passed("manifest.signature", M),
                              Judge("manifest.valid-until", M, Bad(M, {"valid-until"}))}
    OBVIOUS
  <2>5. \/ found' = found \cup ({sig} \cup Block({"manifest.signature"}, M))
        \/ found' = found \cup {sig, Failed("manifest.signature", M)}
        \/ found' = found \cup ({sig} \cup valid \cup PrivacyUri
                                  \cup Block(DescriptorChecks \cup CatalogScoped, M))
        \/ /\ ~Bad(M, {"key", "unsigned", "signature", "catalogs"})
           /\ found' = found \cup ({sig} \cup valid \cup PrivacyUri \cup Descriptors)
           /\ doing' = IF Bad(M, {"privacy-missing", "privacy-uri"}) THEN AfterPrivacy
                       ELSE <<"privacy">>
    BY <2>1, <2>2, <2>3, <2>4
  <2>6. Judge("manifest.valid-until", M, Bad(M, {"valid-until"})) \in valid BY <2>4
  <2>7. sig \in found' BY <2>5, Zenon
  <2> QED BY <2>1, <2>3, <2>5, <2>6, <2>7, Zenon
<1>2. /\ {"manifest.detached-sig", "manifest.signature", "manifest.valid-until", "catalog.decodable"} \cap Should = {}
      /\ "catalog.decodable" \in DescriptorChecks \cup CatalogScoped
  BY DEF Should, DescriptorChecks
<1>3. Optional(u, r) BY <1>1, <1>2, CleanFinds DEF Optional
<1>4. ~(Block({"manifest.signature"}, M) \subseteq found') /\ Failed("manifest.signature", M) \notin found'
  BY <1>2, CleanFinds
<1>5. ~(Block(DescriptorChecks \cup CatalogScoped, M) \subseteq found')
  <2>1. "catalog.decodable" \notin Should BY <1>2
  <2> QED BY <1>2, <2>1, CleanFinds
<1>6. /\ ~Bad(M, {"key", "unsigned", "signature", "catalogs"})
      /\ Judge("manifest.valid-until", M, Bad(M, {"valid-until"})) \in found'
      /\ PrivacyUri \subseteq found' /\ Descriptors \subseteq found'
      /\ doing' = IF Bad(M, {"privacy-missing", "privacy-uri"}) THEN AfterPrivacy ELSE <<"privacy">>
  BY <1>1, <1>4, <1>5, Zenon
<1>7. ~Bad(M, {"valid-until"}) BY <1>2, <1>6, CleanFinds
<1>8. ~Bad(M, {"privacy-missing"}) /\ ~Bad(M, {"privacy-uri"}) BY <1>6, CleanPrivacyUri
<1>9. ~Bad(M, {"unsigned", "signature"}) /\ ~Bad(M, {"catalogs"}) /\ ~Bad(M, {"privacy-missing", "privacy-uri"})
  BY <1>6, <1>8 DEF Bad
<1>10. doing' = <<"privacy">> BY <1>6, <1>9
<1> QED BY <1>1, <1>3, <1>6, <1>7, <1>8, <1>9, <1>10, CleanDescriptors

LEMMA CleanPrivacy ==
    ASSUME GetPrivacy, Clean'
    PROVE  /\ ~Bad(<<"privacy">>, {"size"}) /\ ~Bad(<<"privacy">>, {"bytes"})
           /\ \E r : Fetches(<<"privacy">>, r) /\ State(r, FALSE) = "ok" /\ doing' = AfterPrivacy
<1>1. PICK r, m : /\ Fetches(<<"privacy">>, r) /\ doing' = AfterPrivacy
                  /\ Document("privacy.document", M, <<"privacy">>, r, m, None) \in found'
  BY DEF GetPrivacy, Go, Fetches, Running
<1>2. "privacy.document" \notin Should BY DEF Should
<1>3. State(r, FALSE) = "ok" /\ ~Bad(<<"privacy">>, {"size"}) /\ ~Bad(<<"privacy">>, {"bytes"})
  BY <1>1, <1>2, CleanFinds
<1> QED BY <1>1, <1>3

LEMMA CleanPolicy ==
    ASSUME NEW c, GetPolicy(c), Clean'
    PROVE  /\ ~Bad(<<"policy", c>>, {"size"}) /\ ~Bad(<<"policy", c>>, {"bytes"})
           /\ \E r : Fetches(<<"policy", c>>, r) /\ State(r, FALSE) = "ok" /\ doing' = <<"latest", c>>
<1>1. PICK r, m, p : /\ Fetches(<<"policy", c>>, r) /\ doing' = <<"latest", c>>
                     /\ Document("policy.document", <<c>>, <<"policy", c>>, r, m, p) \in found'
  BY DEF GetPolicy, Go, Fetches, Running
<1>2. "policy.document" \notin Should BY DEF Should
<1>3. State(r, FALSE) = "ok" /\ ~Bad(<<"policy", c>>, {"size"}) /\ ~Bad(<<"policy", c>>, {"bytes"})
  BY <1>1, <1>2, CleanFinds
<1> QED BY <1>1, <1>3

LEMMA CleanLatest ==
    ASSUME NEW c, GetLatest(c), Clean'
    PROVE  \E r : /\ Fetches(<<"latest", c>>, r) /\ State(r, FALSE) = "ok" /\ doing' = <<"latest.sig", c>>
                  /\ ~IsBad(r.doc, {"size"}) /\ ~IsBad(r.doc, {"parse"})
                  /\ ~SchemaBad(r.doc) /\ ~IdentityBad(r.doc)
<1>1. PICK r : /\ Fetches(<<"latest", c>>, r)
               /\ \/ Block(SnapshotChecks \cup AfterSignature, <<c>>) \subseteq found'
                  \/ Block((SnapshotChecks \ {"snapshot.size"}) \cup AfterSignature, <<c>>) \subseteq found'
                  \/ Failed("snapshot.schema", <<c>>) \in found'
                  \/ /\ State(r, FALSE) = "ok" /\ doing' = <<"latest.sig", c>>
                     /\ ~IsBad(r.doc, {"size", "parse"})
                     /\ Judge("snapshot.schema", <<c>>, SchemaBad(r.doc)) \in found'
                     /\ Judge("snapshot.identity", <<c>>, IdentityBad(r.doc)) \in found'
  <2>1. PICK r : /\ Fetches(<<"latest", c>>, r)
                 /\ \/ found' = found \cup ({Required("snapshot.fetch", <<c>>, r)}
                                              \cup Block(SnapshotChecks \cup AfterSignature, <<c>>))
                    \/ found' = found \cup ({Required("snapshot.fetch", <<c>>, r), Failed("snapshot.size", <<c>>)}
                               \cup Block((SnapshotChecks \ {"snapshot.size"}) \cup AfterSignature, <<c>>))
                    \/ found' = found \cup ({Required("snapshot.fetch", <<c>>, r), Passed("snapshot.size", <<c>>),
                                             Failed("snapshot.schema", <<c>>)}
                               \cup Block({"snapshot.identity", "snapshot.signature",
                                           "snapshot.detached-sig"} \cup AfterSignature, <<c>>))
                    \/ /\ State(r, FALSE) = "ok" /\ doing' = <<"latest.sig", c>>
                       /\ ~IsBad(r.doc, {"size", "parse"})
                       /\ found' = found \cup {Required("snapshot.fetch", <<c>>, r), Passed("snapshot.size", <<c>>),
                                Judge("snapshot.schema", <<c>>, SchemaBad(r.doc)),
                                Judge("snapshot.identity", <<c>>, IdentityBad(r.doc))}
    BY Zenon DEF GetLatest, Go, Fetches, Running
  <2> QED BY <2>1, Zenon
<1>2. /\ "snapshot.schema" \notin Should /\ "snapshot.identity" \notin Should
      /\ "snapshot.schema" \in SnapshotChecks \cup AfterSignature
      /\ "snapshot.schema" \in (SnapshotChecks \ {"snapshot.size"}) \cup AfterSignature
  BY DEF Should, SnapshotChecks
<1>3. ~(Block(SnapshotChecks \cup AfterSignature, <<c>>) \subseteq found') BY <1>2, CleanFinds
<1>4. ~(Block((SnapshotChecks \ {"snapshot.size"}) \cup AfterSignature, <<c>>) \subseteq found')
  <2>1. PICK cs : cs = (SnapshotChecks \ {"snapshot.size"}) \cup AfterSignature OBVIOUS
  <2>2. "snapshot.schema" \in cs /\ "snapshot.schema" \notin Should BY <1>2, <2>1
  <2>3. ~(Block(cs, <<c>>) \subseteq found') BY <2>2, CleanFinds
  <2> QED BY <2>1, <2>3
<1>5. Failed("snapshot.schema", <<c>>) \notin found' BY <1>2, CleanFinds
<1>6. /\ State(r, FALSE) = "ok" /\ doing' = <<"latest.sig", c>> /\ ~IsBad(r.doc, {"size", "parse"})
      /\ Judge("snapshot.schema", <<c>>, SchemaBad(r.doc)) \in found'
      /\ Judge("snapshot.identity", <<c>>, IdentityBad(r.doc)) \in found'
  BY <1>1, <1>3, <1>4, <1>5, Zenon
<1>7. ~SchemaBad(r.doc) /\ ~IdentityBad(r.doc) BY <1>2, <1>6, CleanFinds
<1>8. ~IsBad(r.doc, {"size"}) /\ ~IsBad(r.doc, {"parse"}) BY <1>6 DEF IsBad, Bad
<1> QED BY <1>1, <1>6, <1>7, <1>8

(* The findings on a latest snapshot's content.                               *)
LEMMA CleanEntries ==
    ASSUME NEW c, NEW s, Clean', Entries(c, s) \subseteq found'
    PROVE  /\ ~IsBad(s, {"no-entries"})
           /\ Listing[c] # {} => ~IsBad(s, {"duplicate"})
           /\ \A x \in Listing[c] : ~Bad(Entry(c, x), {"fields"}) /\ ~Bad(Entry(c, x), {"uri"})
<1>1. /\ "entry.fields" \in EntryChecks /\ "entry.fields" \notin Should /\ "uri.rules" \notin Should
      /\ "snapshot.duplicate-component" \notin Should
  BY DEF EntryChecks, Should
<1>2. ASSUME IsBad(s, {"no-entries"}) PROVE FALSE
  <2>1. Block(EntryChecks, <<c>>) \subseteq found' BY <1>2 DEF Entries
  <2> QED BY <1>1, <2>1, CleanFinds
<1>3. CASE Listing[c] = {} BY <1>2, <1>3
<1>4. CASE Listing[c] # {}
  <2>1. /\ EntryJudged("entry.fields", c, "fields", Listing[c]) \subseteq found'
        /\ {Failed("uri.rules", <<c, x>>) : x \in {y \in Listing[c] : Bad(Entry(c, y), {"uri"})}} \subseteq found'
        /\ Judge("snapshot.duplicate-component", <<c>>, IsBad(s, {"duplicate"})) \in found'
    BY <1>2, <1>4 DEF Entries
  <2>2. ~IsBad(s, {"duplicate"}) BY <1>1, <2>1, CleanFinds
  <2>3. ASSUME NEW x \in Listing[c], Bad(Entry(c, x), {"fields"}) PROVE FALSE
    <3>1. Failed("entry.fields", <<c, x>>) \in EntryJudged("entry.fields", c, "fields", Listing[c])
      BY <2>3 DEF EntryJudged
    <3> QED BY <1>1, <2>1, <3>1, CleanFinds
  <2>4. ASSUME NEW x \in Listing[c], Bad(Entry(c, x), {"uri"}) PROVE FALSE
    <3>1. Failed("uri.rules", <<c, x>>) \in found' BY <2>1, <2>4
    <3> QED BY <1>1, <3>1, CleanFinds
  <2> QED BY <1>2, <2>2, <2>3, <2>4
<1> QED BY <1>3, <1>4

LEMMA CleanContent ==
    ASSUME NEW c, NEW s, Clean', Content(c, s) \subseteq found'
    PROVE  /\ ~IsBad(s, {"policy"}) /\ ~ChainFieldsBad(s) /\ TimesOK(s) /\ ~IsBad(s, {"entry-count"})
           /\ ~(s.gen > at + Skew \/ s.exp <= s.gen) /\ ~(s.exp - s.gen > MaxWindow)
           /\ Entries(c, s) \subseteq found'
<1>1. /\ Judge("snapshot.policy-digest", <<c>>,
               s.policy # got[M].doc.policy[c] \/ IsBad(s, {"policy"})) \in found'
      /\ Judge("snapshot.chain-fields", <<c>>, ChainFieldsBad(s)) \in found'
      /\ Times(c, s) \subseteq found' /\ Entries(c, s) \subseteq found'
      /\ (IF IsBad(s, {"no-entries"}) THEN Block({"snapshot.entry-count"}, <<c>>)
          ELSE {Judge("snapshot.entry-count", <<c>>, IsBad(s, {"entry-count"}))}) \subseteq found'
  BY DEF Content
<1>2. {"snapshot.policy-digest", "snapshot.chain-fields", "snapshot.dates", "snapshot.window-max",
       "snapshot.entry-count"} \cap Should = {}
  BY DEF Should
<1>3. ~(s.policy # got[M].doc.policy[c] \/ IsBad(s, {"policy"})) BY <1>1, <1>2, CleanFinds
<1>4. ~ChainFieldsBad(s) BY <1>1, <1>2, CleanFinds
<1>5. ASSUME ~TimesOK(s) PROVE FALSE
  <2>1. Failed("snapshot.dates", <<c>>) \in found' BY <1>1, <1>5 DEF Times
  <2> QED BY <1>2, <2>1, CleanFinds
<1>6. /\ Judge("snapshot.dates", <<c>>, s.gen > at + Skew \/ s.exp <= s.gen) \in found'
      /\ Judge("snapshot.window-max", <<c>>, s.exp - s.gen > MaxWindow) \in found'
  BY <1>1, <1>5 DEF Times
<1>7. ~(s.gen > at + Skew \/ s.exp <= s.gen) BY <1>2, <1>6, CleanFinds
<1>8. ~(s.exp - s.gen > MaxWindow) BY <1>2, <1>6, CleanFinds
<1>9. ~IsBad(s, {"no-entries"}) BY <1>1, CleanEntries
<1>10. Judge("snapshot.entry-count", <<c>>, IsBad(s, {"entry-count"})) \in found' BY <1>1, <1>9
<1>11. ~IsBad(s, {"entry-count"}) BY <1>2, <1>10, CleanFinds
<1> QED BY <1>1, <1>3, <1>4, <1>5, <1>7, <1>8, <1>11

LEMMA CleanLatestSig ==
    ASSUME NEW c, GetLatestSig(c), Clean'
    PROVE  /\ SigOK(L(c)) /\ ~IsBad(L(c), {"no-sequence"}) /\ Content(c, L(c)) \subseteq found'
           /\ Passed("snapshot.signature", <<c>>) \in found'
           /\ \E r : /\ Fetches(<<"latest.sig", c>>, r) /\ Optional(<<"latest.sig", c>>, r)
                     /\ doing' = <<"newest", c>>
<1>1. PICK r, d, e : /\ Fetches(<<"latest.sig", c>>, r)
                     /\ d = Detached("snapshot.detached-sig", <<c>>, <<"latest.sig", c>>, r, e)
                     /\ \/ found' = found \cup ({d, Failed("snapshot.signature", <<c>>)}
                                                  \cup Block(AfterSignature, <<c>>))
                        \/ found' = found \cup (({d, Passed("snapshot.signature", <<c>>)} \cup Content(c, L(c)))
                                                  \cup Block(Chain4, <<c>>))
                        \/ /\ SigOK(L(c)) /\ ~IsBad(L(c), {"no-sequence"}) /\ doing' = <<"newest", c>>
                           /\ \/ found' = found \cup (({d, Passed("snapshot.signature", <<c>>)} \cup Content(c, L(c)))
                                            \cup NotApplicable(Chain4 \ {"chain.latest-sibling"}, <<c>>))
                              \/ found' = found \cup ({d, Passed("snapshot.signature", <<c>>)} \cup Content(c, L(c)))
  BY Zenon DEF GetLatestSig, Go, Fetches, Running, L
<1>2. /\ "snapshot.detached-sig" \notin Should /\ "snapshot.signature" \notin Should
      /\ "chain.links" \in Chain4 /\ "chain.links" \notin Should
  BY DEF Should, Chain4
<1>3. d \in found' BY <1>1, Zenon
<1>4. Optional(<<"latest.sig", c>>, r) BY <1>1, <1>2, <1>3, CleanFinds DEF Optional
<1>5. Failed("snapshot.signature", <<c>>) \notin found' BY <1>2, CleanFinds
<1>6. ~(Block(Chain4, <<c>>) \subseteq found') BY <1>2, CleanFinds
<1>7. /\ SigOK(L(c)) /\ ~IsBad(L(c), {"no-sequence"}) /\ doing' = <<"newest", c>>
      /\ \/ found' = found \cup (({d, Passed("snapshot.signature", <<c>>)} \cup Content(c, L(c)))
                       \cup NotApplicable(Chain4 \ {"chain.latest-sibling"}, <<c>>))
         \/ found' = found \cup ({d, Passed("snapshot.signature", <<c>>)} \cup Content(c, L(c)))
  BY <1>1, <1>5, <1>6, Zenon
<1>8. Content(c, L(c)) \subseteq found' /\ Passed("snapshot.signature", <<c>>) \in found' BY <1>7, Zenon
<1> QED BY <1>1, <1>4, <1>7, <1>8

LEMMA CleanNewest ==
    ASSUME NEW c, GetNewest(c), Clean'
    PROVE  \E r : Fetches(<<"sibling", c, L(c).seq>>, r) /\ State(r, TRUE) # "unknown"
<1>1. PICK r, d : /\ Fetches(<<"sibling", c, L(c).seq>>, r) /\ d \in found'
                  /\ d = << "chain.latest-sibling", <<c>>,
                       CASE State(r, TRUE) = "unknown" -> "inconclusive"
                         [] State(r, TRUE) \in {"absent", "refused"} -> "not-applicable"
                         [] State(r, TRUE) = "ok" -> IF r.doc = L(c) THEN "pass" ELSE "fail" >>
  BY Zenon DEF GetNewest, Go, Fetches, Running, L
<1>2. "chain.latest-sibling" \notin Should BY DEF Should
<1>3. State(r, TRUE) = "unknown" => d = <<"chain.latest-sibling", <<c>>, "inconclusive">> BY <1>1
<1>4. State(r, TRUE) # "unknown" BY <1>1, <1>2, <1>3, CleanFinds
<1> QED BY <1>1, <1>4

LEMMA CleanSibling ==
    ASSUME NEW c, NEW k, GetSibling(c, k), Clean'
    PROVE  \E r : /\ Fetches(<<"sibling", c, k>>, r)
                  /\ State(r, TRUE) = "ok" =>
                       /\ ~IsBad(r.doc, {"size"}) /\ ~IsBad(r.doc, {"parse"}) /\ ~SchemaBad(r.doc)
                       /\ ~IdentityBad(r.doc) /\ ~ChainFieldsBad(r.doc) /\ SigOK(r.doc)
<1>1. PICK r : /\ Fetches(<<"sibling", c, k>>, r)
               /\ \/ State(r, TRUE) # "ok"
                  \/ Failed("chain.sibling-valid", <<c, k>>) \in found'
                  \/ /\ ~IsBad(r.doc, {"size"})
                     /\ Judge("chain.sibling-valid", <<c, k>>,
                             \/ IsBad(r.doc, {"parse"}) \/ SchemaBad(r.doc) \/ IdentityBad(r.doc)
                             \/ ChainFieldsBad(r.doc) \/ r.doc.seq # k \/ ~SigOK(r.doc)) \in found'
  BY Zenon DEF GetSibling, Go, Fetches, Running
<1>2. "chain.sibling-valid" \notin Should BY DEF Should
<1>3. Failed("chain.sibling-valid", <<c, k>>) \notin found' BY <1>2, CleanFinds
<1>4. Judge("chain.sibling-valid", <<c, k>>,
                             \/ IsBad(r.doc, {"parse"}) \/ SchemaBad(r.doc) \/ IdentityBad(r.doc)
                             \/ ChainFieldsBad(r.doc) \/ r.doc.seq # k \/ ~SigOK(r.doc)) \in found'
        => ~(\/ IsBad(r.doc, {"parse"}) \/ SchemaBad(r.doc) \/ IdentityBad(r.doc)
             \/ ChainFieldsBad(r.doc) \/ r.doc.seq # k \/ ~SigOK(r.doc))
  BY <1>2, CleanFinds
<1> QED BY <1>1, <1>3, <1>4, Zenon

LEMMA CleanSiblingSig ==
    ASSUME NEW c, NEW k, GetSiblingSig(c, k), Clean'
    PROVE  \E r : Fetches(<<"sibling.sig", c, k>>, r) /\ State(r, TRUE) # "unknown"
<1>1. PICK r, e : /\ Fetches(<<"sibling.sig", c, k>>, r)
                  /\ Detached("snapshot.detached-sig", <<c, k>>, <<"sibling.sig", c, k>>, r, e) \in found'
  BY Zenon DEF GetSiblingSig, Go, Fetches, Running
<1>2. "snapshot.detached-sig" \notin Should BY DEF Should
<1>3. State(r, TRUE) # "unknown" BY <1>1, <1>2, CleanFinds
<1> QED BY <1>1, <1>3

LEMMA CleanChain ==
    ASSUME NEW c, CheckChain(c), Clean'
    PROVE  \A k \in Lowest(L(c).seq)..(L(c).seq - 1) : Fetched(c, k) # "unknown"
<1>1. "chain.retention" \notin Should BY DEF Should
<1>2. ASSUME NEW k \in Lowest(L(c).seq)..(L(c).seq - 1), Fetched(c, k) = "unknown" PROVE FALSE
  <2>1. <<"chain.retention", <<c, k>>, "inconclusive">> \in Retention(c, Lowest(L(c).seq), L(c).seq - 1)
    BY <1>2 DEF Retention
  <2>2. Retention(c, Lowest(L(c).seq), L(c).seq - 1) \subseteq found' BY Zenon DEF CheckChain, Go, L
  <2> QED BY <1>1, <2>1, <2>2, CleanFinds
<1> QED BY <1>2

LEMMA CleanDest ==
    ASSUME NEW x, NEW c, GetDest(x, c), Clean'
    PROVE  /\ ~Bad(<<"dest", x>>, {"size"}) /\ ~Bad(<<"dest", x>>, {"parse"})
           /\ ~Bad(<<"dest", x>>, {"conflict"}) /\ ~Bad(<<"dest", x>>, {"unsure"})
           /\ ~Bad(<<"dest", x>>, {"foreign-key", "unsigned", "foreign-signature"})
           /\ ~Bad(<<"dest", x>>, {"signature"})
           /\ Bad(<<"dest", x>>, {"changed"}) = Bad(Entry(c, x), {"pin"})
           /\ \E r : /\ Fetches(<<"dest", x>>, r) /\ State(r, FALSE) = "ok"
                     /\ doing' = Presenting(doing[2] \ {<<c, x>>})
<1> DEFINE u == <<"dest", x>>
<1>0. PICK es : es = <<c, x>> OBVIOUS
<1>1. PICK r : /\ Fetches(u, r) /\ doing' = Presenting(doing[2] \ {es})
               /\ \/ Block(DestScoped \ {"dest.retrievable"}, es) \subseteq found'
                  \/ Block({"dest.fields", "dest.signature"}, es) \subseteq found'
                  \/ /\ State(r, FALSE) = "ok" /\ ~Bad(u, {"size"}) /\ ~Bad(u, {"parse"})
                     /\ Bad(u, {"changed"}) = Bad(Entry(c, x), {"pin"})
                     /\ DestFields(es, u) \in found' /\ DestSignature(es, u) \in found'
  <2>1. PICK r, f : /\ Fetches(u, r) /\ doing' = Presenting(doing[2] \ {es})
                 /\ \/ found' = found \cup ({f} \cup Block(DestScoped \ {"dest.retrievable"}, es))
                    \/ found' = found \cup ({Passed("dest.retrievable", es), Failed("dest.digest", es)}
                               \cup Block({"dest.fields", "dest.signature"}, es))
                    \/ found' = found \cup ({Passed("dest.retrievable", es), Passed("dest.digest", es)}
                               \cup Block({"dest.fields", "dest.signature"}, es))
                    \/ /\ State(r, FALSE) = "ok" /\ ~Bad(u, {"size"}) /\ ~Bad(u, {"parse"})
                       /\ Bad(u, {"changed"}) = Bad(Entry(c, x), {"pin"})
                       /\ found' = found \cup {Passed("dest.retrievable", es), Passed("dest.digest", es),
                              DestFields(es, u), DestSignature(es, u)}
    BY <1>0, Zenon DEF GetDest, Go, Fetches, Running
  <2> QED BY <2>1, Zenon
<1>2. /\ "dest.fields" \notin Should /\ "dest.signature" \notin Should
      /\ "dest.fields" \in DestScoped \ {"dest.retrievable"}
  BY DEF Should, DestScoped
<1>3. ~(Block(DestScoped \ {"dest.retrievable"}, es) \subseteq found')
  <2>1. PICK cs : cs = DestScoped \ {"dest.retrievable"} OBVIOUS
  <2>2. "dest.fields" \in cs /\ "dest.fields" \notin Should BY <1>2, <2>1
  <2>3. ~(Block(cs, es) \subseteq found') BY <2>2, CleanFinds
  <2> QED BY <2>1, <2>3
<1>4. ~(Block({"dest.fields", "dest.signature"}, es) \subseteq found') BY <1>2, CleanFinds
<1>5. /\ State(r, FALSE) = "ok" /\ ~Bad(u, {"size"}) /\ ~Bad(u, {"parse"})
      /\ Bad(u, {"changed"}) = Bad(Entry(c, x), {"pin"})
      /\ DestFields(es, u) \in found' /\ DestSignature(es, u) \in found'
  BY <1>1, <1>3, <1>4, Zenon
<1>6. ~Bad(u, {"conflict"}) /\ ~Bad(u, {"unsure"})
  <2>1. Bad(u, {"conflict"}) => DestFields(es, u) = Failed("dest.fields", es) BY DEF DestFields, Failed
  <2>2. ~Bad(u, {"conflict"}) BY <1>2, <1>5, <2>1, CleanFinds
  <2>3. Bad(u, {"unsure"}) => DestFields(es, u) = <<"dest.fields", es, "inconclusive">>
    BY <2>2 DEF DestFields
  <2> QED BY <1>2, <1>5, <2>2, <2>3, CleanFinds
<1>7. ~Bad(u, {"foreign-key", "unsigned", "foreign-signature"}) /\ ~Bad(u, {"signature"})
  <2>1. Bad(u, {"foreign-key", "unsigned", "foreign-signature"})
          => DestSignature(es, u) = <<"dest.signature", es, "inconclusive">>
    BY DEF DestSignature
  <2>2. ~Bad(u, {"foreign-key", "unsigned", "foreign-signature"}) BY <1>2, <1>5, <2>1, CleanFinds
  <2>3. Bad(u, {"signature"}) => DestSignature(es, u) = Failed("dest.signature", es)
    BY <2>2 DEF DestSignature, Failed
  <2> QED BY <1>2, <1>5, <2>2, <2>3, CleanFinds
<1> QED BY <1>0, <1>1, <1>5, <1>6, <1>7

LEMMA CleanFinish == ASSUME Finish, Clean' PROVE \A u \in Answered : ~Bad(u, {"cookie"})
<1>1. "serving.no-cookies" \notin Should BY DEF Should
<1>2. ASSUME NEW u \in Answered, Bad(u, {"cookie"}) PROVE FALSE
  <2>1. Failed("serving.no-cookies", u) \in Cookies BY <1>2 DEF Cookies
  <2>2. Failed("serving.no-cookies", u) \in found' BY <2>1 DEF Finish
  <2> QED BY <1>1, <2>2, CleanFinds
<1> QED BY <1>2

-------------------------------------------------------------------------------
(* What is not known. Only the siblings of the walk that is under way can     *)
(* have been lost in a run that is clear so far.                              *)
Unknown(u) == State(got[u], TRUE) = "unknown"
Walking(c) == doing[1] \in {"sibling", "sibling.sig", "chain"} /\ doing[2] = c
Excusable(u) ==
    \E c \in Catalogs : \E k : /\ u = <<"sibling", c, k>> /\ k \in Lowest(L(c).seq)..(L(c).seq - 1)
                               /\ Walking(c) /\ Walked(c)
LossInv == Clean => \A u \in DOMAIN got : Unknown(u) => Excusable(u)

LEMMA Known ==
    ASSUME NEW r
    PROVE  /\ State(r, FALSE) = "ok" => State(r, TRUE) # "unknown"
           /\ \A u : Optional(u, r) => State(r, TRUE) # "unknown"
BY StateIs DEF Optional

(* A step that learns what it fetches, of a run that has lost nothing.        *)
LEMMA LossFetch ==
    ASSUME LossInv, Clean, NEW u, NEW r, Fetches(u, r), State(r, TRUE) # "unknown",
           doing[1] \notin {"sibling", "sibling.sig", "chain"}
    PROVE  LossInv'
<1>1. DOMAIN got' = DOMAIN got \cup {u} /\ got'[u] = r /\ \A v \in DOMAIN got : got'[v] = got[v]
  BY FetchKeeps
<1>2. ASSUME NEW v \in DOMAIN got' PROVE ~(State(got'[v], TRUE) = "unknown")
  <2>1. CASE v = u BY <1>1, <2>1
  <2>2. CASE v \in DOMAIN got
    <3>1. ~Unknown(v) BY <2>2 DEF LossInv, Excusable, Walking
    <3>2. got'[v] = got[v] BY <1>1, <2>2
    <3> QED BY <3>1, <3>2 DEF Unknown
  <2> QED BY <1>1, <2>1, <2>2
<1>3. \A v \in DOMAIN got' : State(got[v], TRUE)' # "unknown" BY <1>2 DEF State
<1> QED BY <1>3 DEF LossInv, Unknown

(* A step of the walk.                                                        *)
LEMMA LossWalk ==
    ASSUME LossInv, Clean, NEW u, NEW r, Fetches(u, r), NEW c \in Catalogs, Walked(c), Walking(c), Walking(c)',
           \/ State(r, TRUE) # "unknown"
           \/ \E k \in Lowest(L(c).seq)..(L(c).seq - 1) : u = <<"sibling", c, k>>
    PROVE  LossInv'
<1>1. DOMAIN got' = DOMAIN got \cup {u} /\ got'[u] = r /\ \A v \in DOMAIN got : got'[v] = got[v]
  BY FetchKeeps
<1>2. Walked(c)' /\ L(c)' = L(c) BY FetchKeeps
<1>3. ASSUME NEW v \in DOMAIN got', Unknown(v)' PROVE Excusable(v)'
  <2>1. PICK k \in Lowest(L(c).seq)..(L(c).seq - 1) : v = <<"sibling", c, k>>
    <3>1. CASE v \in DOMAIN got
      <4>1. Unknown(v) BY <1>1, <1>3, <3>1 DEF Unknown, State
      <4>2. Excusable(v) BY <3>1, <4>1 DEF LossInv
      <4> QED BY <4>2 DEF Excusable, Walking
    <3>2. CASE v = u
      <4>1. State(r, TRUE) = "unknown" BY <1>1, <1>3, <3>2 DEF Unknown, State
      <4> QED BY <3>2, <4>1
    <3> QED BY <1>1, <3>1, <3>2
  <2> QED BY <1>2, <2>1 DEF Excusable
<1> QED BY <1>3 DEF LossInv

LEMMA WalkIsWalking ==
    ASSUME NEW c, NEW n, NEW k, doing' = Walk(c, n, k)
    PROVE  Walking(c)'
BY WalkIs DEF Walking

LEMMA LossGet ==
    ASSUME LossInv, Clean, Clean', RunNext,
           ~Start, ~Probe, ~Finish, \A c \in Catalogs : \A k : ~GetSibling(c, k) /\ ~GetSiblingSig(c, k) /\ ~CheckChain(c),
           ~ExamineEntries
    PROVE  \E u, r : /\ Fetches(u, r) /\ State(r, TRUE) # "unknown"
                     /\ doing[1] \notin {"sibling", "sibling.sig", "chain"}
<1>1. CASE GetManifest
  <2>1. doing[1] = "manifest" BY <1>1 DEF GetManifest, Doing, M
  <2> QED BY <1>1, <2>1, CleanManifest, Known
<1>2. CASE GetManifestSig
  <2>1. doing[1] = "manifest.sig" BY <1>2 DEF GetManifestSig, Doing
  <2> QED BY <1>2, <2>1, CleanManifestSig, Known
<1>3. CASE GetPrivacy
  <2>1. doing[1] = "privacy" BY <1>3 DEF GetPrivacy, Doing
  <2> QED BY <1>3, <2>1, CleanPrivacy, Known
<1>4. ASSUME NEW c, GetPolicy(c)
      PROVE  \E u, r : /\ Fetches(u, r) /\ State(r, TRUE) # "unknown"
                       /\ doing[1] \notin {"sibling", "sibling.sig", "chain"}
  <2>1. doing[1] = "policy" BY <1>4 DEF GetPolicy, Doing
  <2> QED BY <1>4, <2>1, CleanPolicy, Known
<1>5. ASSUME NEW c, GetLatest(c)
      PROVE  \E u, r : /\ Fetches(u, r) /\ State(r, TRUE) # "unknown"
                       /\ doing[1] \notin {"sibling", "sibling.sig", "chain"}
  <2>1. doing[1] = "latest" BY <1>5 DEF GetLatest, Doing
  <2> QED BY <1>5, <2>1, CleanLatest, Known
<1>6. ASSUME NEW c, GetLatestSig(c)
      PROVE  \E u, r : /\ Fetches(u, r) /\ State(r, TRUE) # "unknown"
                       /\ doing[1] \notin {"sibling", "sibling.sig", "chain"}
  <2>1. doing[1] = "latest.sig" BY <1>6 DEF GetLatestSig, Doing
  <2> QED BY <1>6, <2>1, CleanLatestSig, Known
<1>7. ASSUME NEW c, GetNewest(c)
      PROVE  \E u, r : /\ Fetches(u, r) /\ State(r, TRUE) # "unknown"
                       /\ doing[1] \notin {"sibling", "sibling.sig", "chain"}
  <2>1. doing[1] = "newest" BY <1>7 DEF GetNewest, Doing
  <2> QED BY <1>7, <2>1, CleanNewest
<1>8. ASSUME NEW c, NEW x, GetDest(x, c)
      PROVE  \E u, r : /\ Fetches(u, r) /\ State(r, TRUE) # "unknown"
                       /\ doing[1] \notin {"sibling", "sibling.sig", "chain"}
  <2>1. doing[1] = "dests" BY <1>8 DEF GetDest
  <2> QED BY <1>8, <2>1, CleanDest, Known
<1> QED BY <1>1, <1>2, <1>3, <1>4, <1>5, <1>6, <1>7, <1>8 DEF RunNext

LEMMA LossStep == Base /\ LossInv /\ [Next]_vars => LossInv'
<1> SUFFICES ASSUME Base, LossInv, [Next]_vars PROVE LossInv' OBVIOUS
<1>1. CASE ProviderNext \/ UNCHANGED vars
  <2>1. UNCHANGED <<got, found, doing, flaws>> BY <1>1, ProviderKeeps DEF Base, vars
  <2>2. ASSUME NEW u, Unknown(u)' PROVE Unknown(u) BY <2>1, <2>2 DEF Unknown, State
  <2>3. ASSUME NEW u, Excusable(u) PROVE Excusable(u)'
    <3>1. PICK c \in Catalogs : \E k : /\ u = <<"sibling", c, k>> /\ k \in Lowest(L(c).seq)..(L(c).seq - 1)
                                       /\ Walking(c) /\ Walked(c)
      BY <2>3 DEF Excusable
    <3>2. Walking(c)' /\ Walked(c)' /\ L(c)' = L(c)
      BY <2>1, <3>1 DEF Walking, Walked, Readable, Has, L, IsBad, Bad, SigOK
    <3>3. PICK n : n = L(c).seq OBVIOUS
    <3>4. PICK k : u = <<"sibling", c, k>> /\ k \in Lowest(n)..(n - 1) BY <3>1, <3>3
    <3>5. L(c)'.seq = n BY <3>2, <3>3
    <3> QED BY <3>2, <3>4, <3>5 DEF Excusable
  <2>4. Clean' => Clean BY <2>1 DEF Clean
  <2> QED BY <2>1, <2>2, <2>3, <2>4 DEF LossInv
<1>2. CASE RunNext
  <2>1. SUFFICES ASSUME Clean, Clean' PROVE LossInv'
    BY <1>2, CleanBefore DEF LossInv, Base
  <2>2. CASE Start \/ Probe
    <3>1. DOMAIN got = {} /\ got' = got BY <2>2 DEF Start, Probe, Base, Place
    <3> QED BY <3>1 DEF LossInv
  <2>3. CASE Finish \/ ExamineEntries
    <3>1. doing[1] \notin {"sibling", "sibling.sig", "chain"} /\ got' = got
      BY <2>3 DEF Finish, ExamineEntries, Doing, End
    <3>2. \A v \in DOMAIN got : ~Unknown(v) BY <2>1, <3>1 DEF LossInv, Excusable, Walking
    <3>3. \A v \in DOMAIN got : ~Unknown(v)' BY <3>1, <3>2 DEF Unknown, State
    <3> QED BY <3>1, <3>3 DEF LossInv
  <2>4. ASSUME NEW c \in Catalogs, CheckChain(c) PROVE LossInv'
    <3>1. doing = <<"chain", c>> /\ got' = got BY <2>4, MoveChain DEF Doing
    <3>2. \A v \in DOMAIN got : ~Unknown(v)
      <4>1. ASSUME NEW v \in DOMAIN got, Unknown(v) PROVE FALSE
        <5>1. Excusable(v) BY <2>1, <4>1 DEF LossInv
        <5>2. PICK k \in Lowest(L(c).seq)..(L(c).seq - 1) : v = <<"sibling", c, k>>
          BY <3>1, <5>1 DEF Excusable, Walking
        <5>3. Fetched(c, k) # "unknown" BY <2>1, <2>4, CleanChain
        <5> QED BY <4>1, <5>2, <5>3 DEF Unknown, Fetched, Sibling
      <4> QED BY <4>1
    <3>3. \A v \in DOMAIN got : ~Unknown(v)' BY <3>1, <3>2 DEF Unknown, State
    <3> QED BY <3>1, <3>3 DEF LossInv
  <2>5. ASSUME NEW c \in Catalogs, NEW k, GetSibling(c, k) PROVE LossInv'
    <3>1. PICK r : /\ Fetches(<<"sibling", c, k>>, r) /\ doing = <<"sibling", c, k>>
                   /\ \/ doing' = Walk(c, L(c).seq, k)
                      \/ doing' = <<"sibling.sig", c, k>>
      BY <2>5, MoveSibling DEF Doing
    <3>2. Before(c, k) BY <3>1, AtCatalog DEF Base
    <3>3. Walked(c) /\ k \in Lowest(L(c).seq)..(L(c).seq - 1) BY <3>2 DEF Before
    <3>4. Walking(c) BY <3>1 DEF Walking
    <3>5. Walking(c)' BY <3>1, WalkIsWalking DEF Walking
    <3> QED BY <2>1, <3>1, <3>3, <3>4, <3>5, LossWalk
  <2>6. ASSUME NEW c \in Catalogs, NEW k, GetSiblingSig(c, k) PROVE LossInv'
    <3>1. doing = <<"sibling.sig", c, k>> /\ doing' = Walk(c, L(c).seq, k)
      BY <2>6, MoveSiblingSig DEF Doing
    <3>2. PICK r : Fetches(<<"sibling.sig", c, k>>, r) /\ State(r, TRUE) # "unknown"
      BY <2>1, <2>6, CleanSiblingSig
    <3>3. Before(c, k) BY <3>1, AtCatalog DEF Base
    <3>4. Walked(c) BY <3>3 DEF Before
    <3>5. Walking(c) BY <3>1 DEF Walking
    <3>6. Walking(c)' BY <3>1, WalkIsWalking
    <3> QED BY <2>1, <3>2, <3>4, <3>5, <3>6, LossWalk
  <2>7. CASE /\ ~Start /\ ~Probe /\ ~Finish /\ ~ExamineEntries
             /\ \A c \in Catalogs : \A k : ~GetSibling(c, k) /\ ~GetSiblingSig(c, k) /\ ~CheckChain(c)
    BY <1>2, <2>1, <2>7, LossGet, LossFetch
  <2> QED BY <2>2, <2>3, <2>4, <2>5, <2>6, <2>7
<1> QED BY <1>1, <1>2 DEF Next, Over

LEMMA LossInit == Init => LossInv
<1> SUFFICES ASSUME Init PROVE LossInv OBVIOUS
<1>1. DOMAIN got = {} BY DEF Init
<1> QED BY <1>1 DEF LossInv

LEMMA LossIs == Base /\ Typed /\ LossInv => LossNeverClears
<1> SUFFICES ASSUME Base, Typed, LossInv, phase = "done", NEW u \in DOMAIN got, State(got[u], TRUE) = "unknown"
             PROVE  Result \in {"fail", "inconclusive"}
  BY DEF LossNeverClears
<1>1. doing = End BY DEF Base, Place
<1>2. ~Excusable(u) BY <1>1 DEF Excusable, Walking, End
<1>3. ~Clean BY <1>2 DEF LossInv, Unknown
<1> QED BY <1>3, CountsDecides

-------------------------------------------------------------------------------
(* Equivocation. What a run that has failed nothing has fetched of a catalog. *)
LEMMA FaultlessFinds ==
    ASSUME Faultless', NEW check, check \notin Should, NEW s
    PROVE  /\ <<check, s, "fail">> \notin found'
           /\ \A bad : Judge(check, s, bad) \in found' => ~bad
<1>1. <<check, s, "fail">> \notin found' BY DEF Faultless
<1>2. ASSUME NEW bad, Judge(check, s, bad) \in found', bad PROVE FALSE
  BY <1>1, <1>2 DEF Judge, Failed
<1> QED BY <1>1, <1>2

(* A sibling that agrees with what it is the sibling of.                      *)
Signed(s) == SigOK(s) /\ ~IsBad(s, {"size", "parse", "catalog", "no-sequence"})
Fits(c, k, s) ==
    \/ k = L(c).seq /\ s = L(c)
    \/ k # L(c).seq /\ s.seq = k /\ Signed(s)

LEMMA FitsNewest ==
    ASSUME NEW c, GetNewest(c), Faultless'
    PROVE  \E r : Fetches(<<"sibling", c, L(c).seq>>, r) /\ (r.st = "200" => Fits(c, L(c).seq, r.doc))
<1>1. PICK r, d : /\ Fetches(<<"sibling", c, L(c).seq>>, r) /\ d \in found'
                  /\ d = << "chain.latest-sibling", <<c>>,
                       CASE State(r, TRUE) = "unknown" -> "inconclusive"
                         [] State(r, TRUE) \in {"absent", "refused"} -> "not-applicable"
                         [] State(r, TRUE) = "ok" -> IF r.doc = L(c) THEN "pass" ELSE "fail" >>
  BY Zenon DEF GetNewest, Go, Fetches, Running, L
<1>2. "chain.latest-sibling" \notin Should BY DEF Should
<1>3. ASSUME r.st = "200" PROVE r.doc = L(c)
  <2>1. State(r, TRUE) = "ok" BY <1>3, StateIs
  <2>2. r.doc # L(c) => d = <<"chain.latest-sibling", <<c>>, "fail">> BY <1>1, <2>1
  <2> QED BY <1>1, <1>2, <2>2, FaultlessFinds
<1> QED BY <1>1, <1>3 DEF Fits

LEMMA FitsSibling ==
    ASSUME NEW c, NEW k, GetSibling(c, k), Faultless', k # L(c).seq
    PROVE  \E r : Fetches(<<"sibling", c, k>>, r) /\ (r.st = "200" => Fits(c, k, r.doc))
<1>1. PICK r : /\ Fetches(<<"sibling", c, k>>, r)
               /\ \/ State(r, TRUE) # "ok"
                  \/ Failed("chain.sibling-valid", <<c, k>>) \in found'
                  \/ /\ ~IsBad(r.doc, {"size"})
                     /\ Judge("chain.sibling-valid", <<c, k>>,
                             \/ IsBad(r.doc, {"parse"}) \/ SchemaBad(r.doc) \/ IdentityBad(r.doc)
                             \/ ChainFieldsBad(r.doc) \/ r.doc.seq # k \/ ~SigOK(r.doc)) \in found'
  BY Zenon DEF GetSibling, Go, Fetches, Running
<1>2. "chain.sibling-valid" \notin Should BY DEF Should
<1>3. Failed("chain.sibling-valid", <<c, k>>) \notin found' BY <1>2, FaultlessFinds DEF Failed
<1>4. Judge("chain.sibling-valid", <<c, k>>,
                             \/ IsBad(r.doc, {"parse"}) \/ SchemaBad(r.doc) \/ IdentityBad(r.doc)
                             \/ ChainFieldsBad(r.doc) \/ r.doc.seq # k \/ ~SigOK(r.doc)) \in found'
        => ~(\/ IsBad(r.doc, {"parse"}) \/ SchemaBad(r.doc) \/ IdentityBad(r.doc)
             \/ ChainFieldsBad(r.doc) \/ r.doc.seq # k \/ ~SigOK(r.doc))
  BY <1>2, FaultlessFinds
<1>5. ASSUME r.st = "200" PROVE Fits(c, k, r.doc)
  <2>1. State(r, TRUE) = "ok" BY <1>5, StateIs
  <2>2. ~IsBad(r.doc, {"size"}) /\ ~IsBad(r.doc, {"parse"}) /\ ~SchemaBad(r.doc) /\ ~IdentityBad(r.doc)
        /\ ~ChainFieldsBad(r.doc) /\ r.doc.seq = k /\ SigOK(r.doc)
    BY <1>1, <1>3, <1>4, <2>1, Zenon
  <2>3. ~IsBad(r.doc, {"size", "parse", "catalog", "no-sequence"})
    BY <2>2 DEF SchemaBad, IdentityBad, IsBad, Bad
  <2> QED BY <2>2, <2>3 DEF Fits, Signed
<1> QED BY <1>1, <1>5

(* Every sibling the run has fits.                                            *)
AgreeInv ==
    Faultless => \A c \in Catalogs, k \in 1..MaxSeq : Has(<<"sibling", c, k>>) =>
                    Fits(c, k, got[<<"sibling", c, k>>].doc)

LEMMA FitsKept ==
    ASSUME NEW c, NEW k, NEW s, Fits(c, k, s), L(c)' = L(c), flaws' = flaws
    PROVE  Fits(c, k, s)'
<1>1. Signed(s) => Signed(s)' BY DEF Signed, SigOK, IsBad, Bad
<1>2. s' = s OBVIOUS
<1> QED BY <1>1 DEF Fits

LEMMA AgreeFetches ==
    ASSUME Base, RunNext, Faultless'
    PROVE  \/ got' = got
           \/ \E u, r : /\ Fetches(u, r)
                        /\ \A c, k : u = <<"sibling", c, k>> /\ r.st = "200" => Fits(c, k, r.doc)
<1>0. SUFFICES ASSUME ~(got' = got)
               PROVE  \E u, r : /\ Fetches(u, r)
                                /\ \A c, k : u = <<"sibling", c, k>> /\ r.st = "200" => Fits(c, k, r.doc)
  OBVIOUS
<1>1. ASSUME NEW c, GetNewest(c)
      PROVE  \E u, r : /\ Fetches(u, r)
                       /\ \A d, k : u = <<"sibling", d, k>> /\ r.st = "200" => Fits(d, k, r.doc)
  <2>1. PICK r : Fetches(<<"sibling", c, L(c).seq>>, r) /\ (r.st = "200" => Fits(c, L(c).seq, r.doc))
    BY <1>1, FitsNewest
  <2>2. PICK u : u = <<"sibling", c, L(c).seq>> OBVIOUS
  <2>3. ASSUME NEW d, NEW k, u = <<"sibling", d, k>>, r.st = "200" PROVE Fits(d, k, r.doc)
    <3>1. d = c /\ k = L(c).seq BY <2>2, <2>3
    <3> QED BY <2>1, <2>3, <3>1
  <2> QED BY <2>1, <2>2, <2>3
<1>2. ASSUME NEW c, NEW k, GetSibling(c, k)
      PROVE  \E u, r : /\ Fetches(u, r)
                       /\ \A d, j : u = <<"sibling", d, j>> /\ r.st = "200" => Fits(d, j, r.doc)
  <2>0. doing = <<"sibling", c, k>> BY <1>2, MoveSibling DEF Doing
  <2>1. c \in Public /\ Before(c, k) /\ k \in 1..MaxSeq BY <2>0, AtCatalog DEF Base
  <2>2. L(c).seq \in Nat /\ L(c).seq >= 1 BY <2>1, SeqRange DEF Before, Base
  <2>3. k # L(c).seq BY <2>1, <2>2, LowestIs DEF Before
  <2>4. PICK r : Fetches(<<"sibling", c, k>>, r) /\ (r.st = "200" => Fits(c, k, r.doc))
    BY <1>2, <2>3, FitsSibling
  <2>5. PICK u : u = <<"sibling", c, k>> OBVIOUS
  <2>6. ASSUME NEW d, NEW j, u = <<"sibling", d, j>>, r.st = "200" PROVE Fits(d, j, r.doc)
    <3>1. d = c /\ j = k BY <2>5, <2>6
    <3> QED BY <2>4, <2>6, <3>1
  <2> QED BY <2>4, <2>5, <2>6
<1>3. ASSUME NEW u, NEW r, Fetches(u, r), \A c, k : u # <<"sibling", c, k>>
      PROVE  \E v, q : /\ Fetches(v, q)
                       /\ \A d, j : v = <<"sibling", d, j>> /\ q.st = "200" => Fits(d, j, q.doc)
  BY <1>3
<1>4. CASE GetManifest
  <2>1. PICK r : Fetches(M, r) BY <1>4, MoveManifest
  <2>2. \A c, k : M # <<"sibling", c, k>> BY ManifestUri
  <2> QED BY <1>3, <2>1, <2>2
<1>5. CASE GetManifestSig
  <2>1. PICK r : Fetches(<<"manifest.sig">>, r) BY <1>5, MoveManifestSig
  <2> QED BY <1>3, <2>1
<1>6. CASE GetPrivacy
  <2>1. PICK r : Fetches(<<"privacy">>, r) BY <1>6, MovePrivacy
  <2> QED BY <1>3, <2>1
<1>7. ASSUME NEW c, GetPolicy(c)
      PROVE  \E u, r : Fetches(u, r) /\ \A d, k : u # <<"sibling", d, k>>
  <2>1. PICK r : Fetches(<<"policy", c>>, r) BY <1>7, MovePolicy
  <2> QED BY <2>1
<1>8. ASSUME NEW c, GetLatest(c)
      PROVE  \E u, r : Fetches(u, r) /\ \A d, k : u # <<"sibling", d, k>>
  <2>1. PICK r : Fetches(<<"latest", c>>, r) BY <1>8, MoveLatest
  <2> QED BY <2>1
<1>9. ASSUME NEW c, GetLatestSig(c)
      PROVE  \E u, r : Fetches(u, r) /\ \A d, k : u # <<"sibling", d, k>>
  <2>1. PICK r : Fetches(<<"latest.sig", c>>, r) BY <1>9, MoveLatestSig
  <2> QED BY <2>1
<1>10. ASSUME NEW c, NEW k, GetSiblingSig(c, k)
       PROVE  \E u, r : Fetches(u, r) /\ \A d, j : u # <<"sibling", d, j>>
  <2>1. PICK r : Fetches(<<"sibling.sig", c, k>>, r) BY <1>10, MoveSiblingSig
  <2> QED BY <2>1
<1>11. ASSUME NEW c, NEW x, GetDest(x, c)
       PROVE  \E u, r : Fetches(u, r) /\ \A d, j : u # <<"sibling", d, j>>
  <2>1. PICK r : Fetches(<<"dest", x>>, r) BY <1>11, MoveDest
  <2> QED BY <2>1
<1>12. ASSUME NEW c, CheckChain(c) PROVE FALSE BY <1>0, <1>12, MoveChain
<1>13. ~ExamineEntries BY <1>0, MoveEntries
<1>14. ~Probe /\ ~Start /\ ~Finish BY <1>0 DEF Probe, Start, Finish
<1> QED
  BY <1>1, <1>2, <1>3, <1>4, <1>5, <1>6, <1>7, <1>8, <1>9, <1>10, <1>11, <1>12, <1>13, <1>14 DEF RunNext

LEMMA AgreeStep == Base /\ AgreeInv /\ [Next]_vars => AgreeInv'
<1> SUFFICES ASSUME Base, AgreeInv, [Next]_vars, Faultless',
                    NEW c \in Catalogs, NEW k \in 1..MaxSeq, Has(<<"sibling", c, k>>)'
             PROVE  Fits(c, k, got[<<"sibling", c, k>>].doc)'
  BY DEF AgreeInv
<1>u. PICK v : v = <<"sibling", c, k>> OBVIOUS
<1>1. ASSUME got' = got, flaws' = flaws, Faultless PROVE Fits(c, k, got[<<"sibling", c, k>>].doc)'
  <2>1. Has(v) BY <1>1, <1>u DEF Has
  <2>2. Fits(c, k, got[v].doc) BY <1>1, <1>u, <2>1 DEF AgreeInv
  <2>3. PICK s : s = got[v].doc OBVIOUS
  <2>4. L(c)' = L(c) BY <1>1 DEF L
  <2>5. Fits(c, k, s)' BY <1>1, <2>2, <2>3, <2>4, FitsKept
  <2>6. s = got[<<"sibling", c, k>>].doc' BY <1>1, <1>u, <2>3
  <2> QED BY <2>5, <2>6
<1>2. CASE ProviderNext \/ UNCHANGED vars
  <2>1. UNCHANGED <<got, found, flaws>> BY <1>2, ProviderKeeps DEF Base, vars
  <2> QED BY <1>1, <2>1 DEF Faultless
<1>3. CASE RunNext
  <2>0. Faultless /\ flaws' = flaws BY <1>3, CleanBefore, RunKeeps DEF Base
  <2>1. CASE got' = got BY <1>1, <2>0, <2>1
  <2>2. CASE got' # got
    <3>1. PICK u, r : /\ Fetches(u, r)
                      /\ \A d, j : u = <<"sibling", d, j>> /\ r.st = "200" => Fits(d, j, r.doc)
      BY <1>3, <2>2, AgreeFetches
    <3>2. /\ DOMAIN got' = DOMAIN got \cup {u} /\ got'[u] = r
          /\ \A w \in DOMAIN got : got'[w] = got[w]
      BY <3>1, FetchKeeps
    <3>3. PICK s : s = got'[v].doc OBVIOUS
    <3>4. v \in DOMAIN got' /\ got'[v].st = "200" BY <1>u DEF Has
    <3>5. Fits(c, k, s) /\ L(c)' = L(c)
      <4>1. CASE v # u
        <5>1. Has(v) /\ v \in DOMAIN got /\ s = got[v].doc BY <3>2, <3>3, <3>4, <4>1 DEF Has
        <5>2. Fits(c, k, s) BY <1>u, <2>0, <5>1 DEF AgreeInv
        <5>3. Walked(c) BY <1>u, <5>1 DEF Base, Place, WalkedBack
        <5>4. L(c)' = L(c) BY <3>1, <5>3, FetchKeeps
        <5> QED BY <5>2, <5>4
      <4>2. CASE v = u
        <5>1. r.st = "200" /\ s = r.doc BY <3>2, <3>3, <3>4, <4>2
        <5>2. Fits(c, k, s) BY <1>u, <3>1, <4>2, <5>1
        <5>3. Base' BY <1>3, BaseStep DEF Next
        <5>4. <<"latest", c>> \in DOMAIN got'
          <6>1. Walked(c)' BY <1>u, <3>4, <5>3 DEF Base, Place, WalkedBack
          <6> QED BY <6>1 DEF Walked, Readable, Has
        <5>5. <<"latest", c>> # u BY <1>u, <4>2
        <5>6. L(c)' = L(c) BY <3>2, <5>4, <5>5 DEF L
        <5> QED BY <5>2, <5>6
      <4> QED BY <4>1, <4>2
    <3>6. Fits(c, k, s)' BY <2>0, <3>5, FitsKept
    <3>7. s = got[<<"sibling", c, k>>].doc' BY <1>u, <3>3
    <3> QED BY <3>6, <3>7
  <2> QED BY <2>1, <2>2
<1> QED BY <1>2, <1>3 DEF Next, Over

(* The links of a catalog's snapshots, as the run has them.                   *)
Above(c, k, t) ==
    \/ k + 1 = L(c).seq /\ t = L(c)
    \/ k + 1 # L(c).seq /\ Has(<<"sibling", c, k + 1>>) /\ t = got[<<"sibling", c, k + 1>>].doc
Linked(c) ==
    \A k \in 1..MaxSeq : Has(<<"sibling", c, k>>) /\ k # L(c).seq =>
        \A t : Above(c, k, t) /\ ~IsBad(t, {"chain-fields"}) /\ t.prev # None =>
            t.prev = Digest(got[<<"sibling", c, k>>].doc)
LinkInv == Faultless => \A c \in Public : Position(c) < SpotOf(doing) => Linked(c)

LEMMA SpotNat ==
    ASSUME Place
    PROVE  SpotOf(doing) \in Nat /\ \A c \in Public : Position(c) \in Nat /\ c \in Catalogs
<1>1. \A c \in Public : Position(c) \in Nat /\ c \in Catalogs BY Spots
<1>2. CASE doing \in {M, <<"manifest.sig">>, <<"privacy">>, <<"entries">>, End}
  BY <1>2, Kinds, Spots
<1>3. ASSUME NEW es, doing = <<"dests", es>> PROVE SpotOf(doing) \in Nat
  <2>1. SpotOf(doing) = Len(Order) + 1 BY <1>3, Kinds
  <2> QED BY <2>1, Spots
<1>4. ASSUME NEW c \in Public, TaskOf(c) PROVE SpotOf(doing) \in Nat
  <2>1. SpotOf(doing) = Position(c) BY <1>4, Kinds DEF TaskOf
  <2> QED BY <1>1, <2>1
<1> QED BY <1>1, <1>2, <1>3, <1>4 DEF Place, Task

(* A catalog the run is not at is linked, or nothing was fetched of it yet.   *)
LEMMA LinkOther ==
    ASSUME Base, Faultless, LinkInv, NEW c \in Public, SpotOf(doing) # Position(c)
    PROVE  Linked(c) \/ Unwalked(c)
<1>1. SpotOf(doing) \in Nat /\ Position(c) \in Nat BY SpotNat DEF Base
<1>2. CASE Position(c) < SpotOf(doing) BY <1>2 DEF LinkInv
<1>3. CASE SpotOf(doing) < Position(c) BY <1>3 DEF Base, Place, Unseen
<1> QED BY <1>1, <1>2, <1>3

(* A catalog's links stay as they are while nothing of it is fetched.         *)
LEMMA LinkedSame ==
    ASSUME NEW c, Linked(c), flaws' = flaws,
           \A k \in 1..MaxSeq : Has(<<"sibling", c, k>>)' => L(c)' = L(c),
           \A k : Has(<<"sibling", c, k>>)' =>
               Has(<<"sibling", c, k>>) /\ got'[<<"sibling", c, k>>] = got[<<"sibling", c, k>>]
    PROVE  Linked(c)'
<1> SUFFICES ASSUME NEW k \in 1..MaxSeq, Has(<<"sibling", c, k>>)', (k # L(c).seq)', NEW t,
                    Above(c, k, t)', ~IsBad(t, {"chain-fields"})', t.prev # None
             PROVE  t.prev = Digest(got'[<<"sibling", c, k>>].doc)
  BY DEF Linked, Digest
<1>1. L(c)' = L(c) /\ Has(<<"sibling", c, k>>) /\ got'[<<"sibling", c, k>>] = got[<<"sibling", c, k>>] OBVIOUS
<1>2. Above(c, k, t) BY <1>1 DEF Above
<1>3. ~IsBad(t, {"chain-fields"}) BY DEF IsBad, Bad
<1>4. t.prev = Digest(got[<<"sibling", c, k>>].doc) BY <1>1, <1>2, <1>3 DEF Linked
<1> QED BY <1>1, <1>4

LEMMA UnwalkedLinked ==
    ASSUME NEW c, Unwalked(c), \A k : Has(<<"sibling", c, k>>)' => Has(<<"sibling", c, k>>)
    PROVE  Linked(c)'
<1>1. ASSUME NEW k, Has(<<"sibling", c, k>>)' PROVE FALSE BY <1>1 DEF Unwalked, Has
<1> QED BY <1>1 DEF Linked

LEMMA LinkFetch ==
    ASSUME Base, NEW c \in Public, NEW u, NEW r, Fetches(u, r),
           \A k : u # <<"sibling", c, k>>, Linked(c) \/ Unwalked(c)
    PROVE  Linked(c)'
<1>1. /\ DOMAIN got' = DOMAIN got \cup {u} /\ got'[u] = r /\ flaws' = flaws
      /\ \A w \in DOMAIN got : got'[w] = got[w]
  BY FetchKeeps
<1>2. ASSUME NEW k, Has(<<"sibling", c, k>>)'
      PROVE  Has(<<"sibling", c, k>>) /\ got'[<<"sibling", c, k>>] = got[<<"sibling", c, k>>]
  <2>1. PICK v : v = <<"sibling", c, k>> OBVIOUS
  <2>2. v \in DOMAIN got' /\ got'[v].st = "200" /\ v # u BY <1>2, <2>1 DEF Has
  <2>3. v \in DOMAIN got /\ got'[v] = got[v] BY <1>1, <2>2
  <2> QED BY <2>1, <2>2, <2>3 DEF Has
<1>3. ASSUME NEW k \in 1..MaxSeq, Has(<<"sibling", c, k>>)' PROVE L(c)' = L(c)
  <2>1. <<"sibling", c, k>> \in DOMAIN got BY <1>2, <1>3 DEF Has
  <2>2. c \in Catalogs BY Spots
  <2>3. Walked(c) BY <2>1, <2>2 DEF Base, Place, WalkedBack
  <2> QED BY <2>3, FetchKeeps
<1> QED BY <1>1, <1>2, <1>3, LinkedSame, UnwalkedLinked

LEMMA LinkStill ==
    ASSUME NEW c, got' = got, flaws' = flaws, Linked(c) \/ Unwalked(c)
    PROVE  Linked(c)'
<1>1. ASSUME NEW k, Has(<<"sibling", c, k>>)'
      PROVE  Has(<<"sibling", c, k>>) /\ got'[<<"sibling", c, k>>] = got[<<"sibling", c, k>>]
  BY <1>1 DEF Has
<1>2. L(c)' = L(c) BY DEF L
<1> QED BY <1>1, <1>2, LinkedSame, UnwalkedLinked

(* The first sibling, of the latest sequence itself, has no link to break.    *)
LEMMA LinkNewest ==
    ASSUME Base, NEW c \in Public, GetNewest(c)
    PROVE  Linked(c)'
<1>1. doing = <<"newest", c>> BY MoveNewest DEF Doing
<1>2. Walked(c) /\ Unwalked(c) BY <1>1, AtCatalog DEF Base
<1>3. PICK r : Fetches(<<"sibling", c, L(c).seq>>, r) BY MoveNewest
<1>4. PICK n : n = L(c).seq OBVIOUS
<1>5. PICK u : u = <<"sibling", c, n>> OBVIOUS
<1>6. DOMAIN got' = DOMAIN got \cup {u} /\ L(c)' = L(c) BY <1>2, <1>3, <1>4, <1>5, FetchKeeps
<1>7. ASSUME NEW k, Has(<<"sibling", c, k>>)' PROVE k = L(c)'.seq
  <2>1. PICK v : v = <<"sibling", c, k>> OBVIOUS
  <2>2. v \in DOMAIN got' BY <1>7, <2>1 DEF Has
  <2>3. v \notin DOMAIN got BY <1>2, <2>1 DEF Unwalked
  <2>4. v = u BY <1>6, <2>2, <2>3
  <2>5. k = n BY <1>5, <2>1, <2>4
  <2> QED BY <1>4, <1>6, <2>5
<1> QED BY <1>7 DEF Linked

(* At its end the walk has compared every link it can.                        *)
LEMMA LinkChain ==
    ASSUME Base, AgreeInv, Faultless', NEW c \in Public, CheckChain(c)
    PROVE  Linked(c)'
<1>1. doing = <<"chain", c>> /\ got' = got /\ flaws' = flaws BY MoveChain DEF Doing, Running
<1>2. WalkDone(c) /\ Walked(c) BY <1>1, AtCatalog DEF Base, WalkDone
<1>3. /\ L(c).seq \in Nat /\ L(c).seq >= 1 /\ L(c).seq <= MaxSeq /\ SnapOK(c, L(c)) /\ c \in Catalogs
      /\ MaxSeq \in Nat
  BY <1>2, SeqRange, CatalogsFacts DEF Base
<1>4. PICK n : n = L(c).seq OBVIOUS
<1>5. PICK lo : lo = Lowest(n) OBVIOUS
<1>6. lo \in Nat /\ n \in Nat /\ lo >= 1 /\ n <= MaxSeq BY <1>3, <1>4, <1>5, LowestIs
<1>7. Links(c, lo, n - 1) \subseteq found' BY <1>4, <1>5, Zenon DEF CheckChain, Go, L
<1>8. Faultless BY CleanBefore, <1>1 DEF RunNext, Base, Faultless, CheckChain, Go
<1>9. ASSUME NEW k \in 1..MaxSeq, Has(<<"sibling", c, k>>), k # n
      PROVE  /\ k \in lo..(n - 1) /\ Usable(c, k)
             /\ Sibling(c, k).doc \in SnapshotSet
  <2>1. <<"sibling", c, k>> \in DOMAIN got BY <1>9 DEF Has
  <2>2. k \in lo..n BY <1>3, <1>4, <1>5, <2>1 DEF Base, Place, WalkedBack
  <2>3. Fits(c, k, got[<<"sibling", c, k>>].doc) BY <1>3, <1>8, <1>9 DEF AgreeInv
  <2>4. got[<<"sibling", c, k>>].doc.seq = k /\ Signed(got[<<"sibling", c, k>>].doc)
    BY <1>4, <1>9, <2>3 DEF Fits
  <2>5. Fetched(c, k) = "ok" BY <1>9, StateIs DEF Fetched, Sibling, Has
  <2>6. Usable(c, k) BY <2>4, <2>5 DEF Usable, Signed, Sibling
  <2>7. SnapOK(c, got[<<"sibling", c, k>>].doc) BY <1>3, <1>9, <2>1 DEF Base, FetchInv
  <2> QED BY <1>6, <1>9, <2>2, <2>6, <2>7 DEF SnapOK, Sibling
<1>10. ASSUME NEW k \in 1..MaxSeq, Has(<<"sibling", c, k>>), k # n, NEW t,
              Above(c, k, t), ~IsBad(t, {"chain-fields"}), t.prev # None
       PROVE  t.prev = Digest(got[<<"sibling", c, k>>].doc)
  <2>1. k \in lo..(n - 1) /\ Usable(c, k) BY <1>9, <1>10
  <2>2. Upper(c, k) = t.prev
    <3>1. CASE k + 1 = n
      <4>1. t = L(c) /\ k + 1 = got[<<"latest", c>>].doc.seq BY <1>4, <1>10, <3>1 DEF Above, L
      <4>2. L(c) # None BY <1>3, NoneAssumption DEF SnapOK
      <4> QED BY <1>10, <4>1, <4>2 DEF Upper, L
    <3>2. CASE k + 1 # n
      <4>1. Has(<<"sibling", c, k + 1>>) /\ t = Sibling(c, k + 1).doc BY <1>4, <1>10, <3>2 DEF Above, Sibling
      <4>2. k + 1 \in 1..MaxSeq BY <1>3, <1>6, <2>1
      <4>3. Usable(c, k + 1) /\ t \in SnapshotSet BY <1>9, <3>2, <4>1, <4>2
      <4>4. t # None BY <4>3, NoneAssumption
      <4>5. ~(k + 1 = got[<<"latest", c>>].doc.seq) BY <1>4, <3>2 DEF L
      <4> QED BY <1>10, <4>1, <4>3, <4>4, <4>5 DEF Upper
    <3> QED BY <3>1, <3>2
  <2>3. Comparable(c, k) BY <1>10, <2>1, <2>2 DEF Comparable
  <2>4. PICK bad : bad = (Upper(c, k) # Digest(Sibling(c, k).doc)) OBVIOUS
  <2>5. Judge("chain.links", <<c, k>>, Upper(c, k) # Digest(Sibling(c, k).doc)) \in Links(c, lo, n - 1)
    BY <2>1, <2>3 DEF Links
  <2>6. Judge("chain.links", <<c, k>>, bad) \in found' BY <1>7, <2>4, <2>5
  <2>7. ~bad
    <3>1. "chain.links" \notin Should BY DEF Should
    <3> QED BY <2>6, <3>1, FaultlessFinds
  <2> QED BY <2>2, <2>4, <2>7 DEF Sibling
<1>11. Linked(c) BY <1>4, <1>10 DEF Linked
<1> QED BY <1>1, <1>11, LinkStill

(* A run's step of another catalog than c, or of c before its walk.           *)
LEMMA LinkRun ==
    ASSUME Base, AgreeInv, LinkInv, RunNext, Faultless', NEW c \in Public, (Position(c) < SpotOf(doing))'
    PROVE  Linked(c)'
<1>0. /\ Faultless /\ flaws' = flaws /\ c \in Catalogs /\ Position(c) \in Nat \ {0} /\ Position(c) <= Len(Order)
      /\ Len(Order) \in Nat
  BY CleanBefore, RunKeeps, Spots DEF Base
<1>1. ASSUME NEW u, NEW r, Fetches(u, r), \A k : u # <<"sibling", c, k>>, SpotOf(doing) # Position(c)
      PROVE  Linked(c)'
  BY <1>0, <1>1, LinkOther, LinkFetch
<1>2. ASSUME NEW u, NEW r, Fetches(u, r), \A k : u # <<"sibling", c, k>>, Unwalked(c)
      PROVE  Linked(c)'
  BY <1>2, LinkFetch
<1>3. ASSUME got' = got, SpotOf(doing) # Position(c) PROVE Linked(c)'
  BY <1>0, <1>3, LinkOther, LinkStill
<1>4. CASE GetManifest
  <2>1. PICK r : Fetches(M, r) BY <1>4, MoveManifest
  <2>2. SpotOf(doing) = 0 BY <1>4, MoveManifest, Kinds DEF Doing
  <2>3. \A k : M # <<"sibling", c, k>> BY ManifestUri
  <2> QED BY <1>0, <1>1, <2>1, <2>2, <2>3
<1>5. CASE GetManifestSig
  <2>1. PICK r : Fetches(<<"manifest.sig">>, r) BY <1>5, MoveManifestSig
  <2>2. SpotOf(doing) = 0 BY <1>5, MoveManifestSig, Kinds DEF Doing
  <2> QED BY <1>0, <1>1, <2>1, <2>2
<1>6. CASE GetPrivacy
  <2>1. PICK r : Fetches(<<"privacy">>, r) BY <1>6, MovePrivacy
  <2>2. SpotOf(doing) = 0 BY <1>6, MovePrivacy, Kinds DEF Doing
  <2> QED BY <1>0, <1>1, <2>1, <2>2
<1>7. ASSUME NEW d, d # c, \/ doing \in {<<"policy", d>>, <<"latest", d>>, <<"latest.sig", d>>, <<"newest", d>>, <<"chain", d>>}
                           \/ \E k : doing \in {<<"sibling", d, k>>, <<"sibling.sig", d, k>>}
      PROVE  SpotOf(doing) # Position(c)
  BY <1>0, <1>7, AtCatalog, Spots DEF Base
<1>8. ASSUME NEW d, GetPolicy(d) PROVE Linked(c)'
  <2>1. PICK r : Fetches(<<"policy", d>>, r) BY <1>8, MovePolicy
  <2>2. doing = <<"policy", d>> BY <1>8, MovePolicy DEF Doing
  <2>3. d = c => Unwalked(c) BY <2>2, AtCatalog DEF Base, Unseen
  <2> QED BY <1>1, <1>2, <1>7, <2>1, <2>2, <2>3
<1>9. ASSUME NEW d, GetLatest(d) PROVE Linked(c)'
  <2>1. PICK r : Fetches(<<"latest", d>>, r) BY <1>9, MoveLatest
  <2>2. doing = <<"latest", d>> BY <1>9, MoveLatest DEF Doing
  <2>3. d = c => Unwalked(c) BY <2>2, AtCatalog DEF Base, Unseen
  <2> QED BY <1>1, <1>2, <1>7, <2>1, <2>2, <2>3
<1>10. ASSUME NEW d, GetLatestSig(d) PROVE Linked(c)'
  <2>1. PICK r : Fetches(<<"latest.sig", d>>, r) BY <1>10, MoveLatestSig
  <2>2. doing = <<"latest.sig", d>> BY <1>10, MoveLatestSig DEF Doing
  <2>3. d = c => Unwalked(c) BY <2>2, AtCatalog DEF Base
  <2> QED BY <1>1, <1>2, <1>7, <2>1, <2>2, <2>3
<1>11. ASSUME NEW d, GetNewest(d) PROVE Linked(c)'
  <2>1. CASE d = c BY <1>11, <2>1, LinkNewest
  <2>2. CASE d # c
    <3>1. PICK r : Fetches(<<"sibling", d, L(d).seq>>, r) BY <1>11, MoveNewest
    <3>2. doing = <<"newest", d>> BY <1>11, MoveNewest DEF Doing
    <3>3. PICK u : u = <<"sibling", d, L(d).seq>> OBVIOUS
    <3>4. \A k : u # <<"sibling", c, k>> BY <2>2, <3>3
    <3> QED BY <1>1, <1>7, <2>2, <3>1, <3>2, <3>3, <3>4
  <2> QED BY <2>1, <2>2
<1>12. ASSUME NEW d, NEW k, GetSibling(d, k) PROVE Linked(c)'
  <2>1. PICK r : /\ Fetches(<<"sibling", d, k>>, r)
                 /\ doing' = Walk(d, L(d).seq, k) \/ doing' = <<"sibling.sig", d, k>>
    BY <1>12, MoveSibling
  <2>2. doing = <<"sibling", d, k>> BY <1>12, MoveSibling DEF Doing
  <2>3. d # c
    <3>1. SUFFICES ASSUME d = c PROVE FALSE OBVIOUS
    <3>2. SpotOf(doing') = Position(c)
      <4>1. \/ doing' = <<"sibling", c, k - 1>> \/ doing' = <<"chain", c>> \/ doing' = <<"sibling.sig", c, k>>
        BY <2>1, <3>1, WalkIs
      <4> QED BY <4>1, Kinds
    <3> QED BY <1>0, <3>2
  <2> QED BY <1>1, <1>7, <2>1, <2>2, <2>3
<1>13. ASSUME NEW d, NEW k, GetSiblingSig(d, k) PROVE Linked(c)'
  <2>1. PICK r : Fetches(<<"sibling.sig", d, k>>, r) /\ doing' = Walk(d, L(d).seq, k) BY <1>13, MoveSiblingSig
  <2>2. doing = <<"sibling.sig", d, k>> BY <1>13, MoveSiblingSig DEF Doing
  <2>3. d # c
    <3>1. SUFFICES ASSUME d = c PROVE FALSE OBVIOUS
    <3>2. SpotOf(doing') = Position(c)
      <4>1. doing' = <<"sibling", c, k - 1>> \/ doing' = <<"chain", c>> BY <2>1, <3>1, WalkIs
      <4> QED BY <4>1, Kinds
    <3> QED BY <1>0, <3>2
  <2> QED BY <1>1, <1>7, <2>1, <2>2, <2>3
<1>14. ASSUME NEW d, CheckChain(d) PROVE Linked(c)'
  <2>1. CASE d = c BY <1>14, <2>1, LinkChain
  <2>2. CASE d # c
    <3>1. doing = <<"chain", d>> /\ got' = got BY <1>14, MoveChain DEF Doing
    <3> QED BY <1>3, <1>7, <2>2, <3>1
  <2> QED BY <2>1, <2>2
<1>15. CASE ExamineEntries
  <2>1. SpotOf(doing) = Len(Order) + 1 /\ got' = got BY <1>15, MoveEntries, Kinds DEF Doing
  <2> QED BY <1>0, <1>3, <2>1
<1>16. ASSUME NEW d, NEW x, GetDest(x, d) PROVE Linked(c)'
  <2>1. PICK r : Fetches(<<"dest", x>>, r) BY <1>16, MoveDest
  <2>2. SpotOf(doing) = Len(Order) + 1 BY <1>16, MoveDest, AtDests DEF Base
  <2> QED BY <1>0, <1>1, <2>1, <2>2
<1>17. CASE Probe \/ Start
  <2>1. got' = got /\ phase \in {"idle", "probed"} BY <1>17 DEF Probe, Start
  <2>2. Unwalked(c) BY <2>1 DEF Base, Place, Unwalked
  <2> QED BY <1>0, <2>1, <2>2, LinkStill
<1>18. CASE Finish
  <2>1. got' = got /\ doing = End BY <1>18 DEF Finish, Doing
  <2>2. SpotOf(doing) = Len(Order) + 1 BY <2>1, Kinds
  <2> QED BY <1>0, <1>3, <2>1, <2>2
<1> QED
  BY <1>4, <1>5, <1>6, <1>8, <1>9, <1>10, <1>11, <1>12, <1>13, <1>14, <1>15, <1>16, <1>17, <1>18 DEF RunNext

LEMMA LinkStep == Base /\ AgreeInv /\ LinkInv /\ [Next]_vars => LinkInv'
<1> SUFFICES ASSUME Base, AgreeInv, LinkInv, [Next]_vars PROVE LinkInv' OBVIOUS
<1>1. CASE ProviderNext \/ UNCHANGED vars
  <2>1. UNCHANGED <<got, found, flaws, doing>> BY <1>1, ProviderKeeps DEF Base, vars
  <2>2. Public' = Public BY <2>1 DEF Public, Decoded, Bad
  <2>3. Faultless' => Faultless BY <2>1 DEF Faultless
  <2>4. ASSUME NEW c \in Public, Linked(c) PROVE Linked(c)' BY <2>1, <2>4, LinkStill
  <2>5. ASSUME NEW c PROVE (Position(c) < SpotOf(doing))' => Position(c) < SpotOf(doing) BY <2>1
  <2> QED BY <2>2, <2>3, <2>4, <2>5 DEF LinkInv
<1>2. CASE RunNext
  <2>1. Public' = Public
    <3>1. flaws' = flaws BY <1>2, RunKeeps
    <3> QED BY <3>1 DEF Public, Decoded, Bad
  <2>2. ASSUME NEW c \in Public, Faultless', (Position(c) < SpotOf(doing))' PROVE Linked(c)'
    BY <1>2, <2>2, LinkRun
  <2> QED BY <2>1, <2>2 DEF LinkInv
<1> QED BY <1>1, <1>2 DEF Next, Over

(* The snapshots of a run that is over, by their sequence.                    *)
LEMMA SnapshotsBy ==
    ASSUME Base, AgreeInv, Faultless, NEW c \in Catalogs, NEW s \in Snapshots(c)
    PROVE  \/ s = L(c) /\ Has(<<"latest", c>>)
           \/ \E k \in 1..MaxSeq : /\ Has(<<"sibling", c, k>>) /\ k # L(c).seq
                                   /\ s = got[<<"sibling", c, k>>].doc /\ s.seq = k
<1>1. PICK u \in DOMAIN got : /\ u[1] \in {"latest", "sibling"} /\ u[2] = c
                              /\ State(got[u], TRUE) = "ok" /\ s = got[u].doc
  BY DEF Snapshots
<1>2. Has(u) BY <1>1, StateIs DEF Has
<1>3. u \in Uris BY <1>1 DEF Base, FetchInv
<1>4. CASE u[1] = "latest"
  <2>1. u = <<"latest", c>> BY <1>1, <1>3, <1>4 DEF Uris, M
  <2> QED BY <1>1, <1>2, <2>1 DEF L
<1>5. CASE u[1] = "sibling"
  <2>1. PICK k \in 1..MaxSeq : u = <<"sibling", c, k>> BY <1>1, <1>3, <1>5 DEF Uris, M
  <2>2. Fits(c, k, s) BY <1>1, <1>2, <2>1 DEF AgreeInv
  <2>3. CASE k # L(c).seq BY <1>1, <1>2, <2>1, <2>2, <2>3 DEF Fits
  <2>4. CASE k = L(c).seq
    <3>1. s = L(c) BY <2>2, <2>4 DEF Fits
    <3>2. <<"sibling", c, k>> \in DOMAIN got BY <1>2, <2>1 DEF Has
    <3>3. Walked(c) BY <3>2 DEF Base, Place, WalkedBack
    <3> QED BY <3>1, <3>3 DEF Walked, Readable
  <2> QED BY <2>3, <2>4
<1> QED BY <1>1, <1>4, <1>5

LEMMA SnapshotsTyped ==
    ASSUME Base, AgreeInv, Faultless, NEW c \in Catalogs, NEW s \in Snapshots(c)
    PROVE  /\ SnapOK(c, s) /\ s.seq \in Nat /\ s.alt \in {0, 1}
           /\ s.prev # None => s.prev \in Nat \X {0, 1} /\ s.prev[1] = s.seq - 1
<1>1. SnapOK(c, s)
  <2>1. CASE s = L(c) /\ Has(<<"latest", c>>) BY <2>1 DEF Base, FetchInv
  <2>2. CASE \E k \in 1..MaxSeq : /\ Has(<<"sibling", c, k>>) /\ s = got[<<"sibling", c, k>>].doc
    <3>1. PICK k \in 1..MaxSeq : Has(<<"sibling", c, k>>) /\ s = got[<<"sibling", c, k>>].doc BY <2>2
    <3>2. <<"sibling", c, k>> \in DOMAIN got BY <3>1 DEF Has
    <3> QED BY <3>1, <3>2 DEF Base, FetchInv
  <2> QED BY <2>1, <2>2, SnapshotsBy
<1>2. s \in SnapshotSet BY <1>1 DEF SnapOK
<1> QED BY <1>1, <1>2 DEF SnapOK, SnapshotSet

LEMMA SnapshotsAgree ==
    ASSUME Base, AgreeInv, Faultless, NEW c \in Catalogs, NEW s \in Snapshots(c), NEW t \in Snapshots(c),
           s.seq = t.seq
    PROVE  s = t
<1>1. \/ s = L(c) /\ Has(<<"latest", c>>)
      \/ \E k \in 1..MaxSeq : /\ Has(<<"sibling", c, k>>) /\ k # L(c).seq
                              /\ s = got[<<"sibling", c, k>>].doc /\ s.seq = k
  BY SnapshotsBy
<1>2. \/ t = L(c) /\ Has(<<"latest", c>>)
      \/ \E k \in 1..MaxSeq : /\ Has(<<"sibling", c, k>>) /\ k # L(c).seq
                              /\ t = got[<<"sibling", c, k>>].doc /\ t.seq = k
  BY SnapshotsBy
<1> QED BY <1>1, <1>2

(* The link from one to the one before it.                                    *)
LEMMA SnapshotsLinked ==
    ASSUME Base, AgreeInv, LinkInv, Faultless, doing = End, NEW c \in Catalogs,
           NEW s \in Snapshots(c), NEW t \in Snapshots(c), t.prev # None, ~IsBad(t, {"chain-fields"}),
           s.seq = t.seq - 1
    PROVE  t.prev = Digest(s)
<1>1. s.seq \in Nat /\ t.seq \in Nat BY SnapshotsTyped
<1>2. \/ s = L(c)
      \/ \E k \in 1..MaxSeq : /\ Has(<<"sibling", c, k>>) /\ k # L(c).seq
                              /\ s = got[<<"sibling", c, k>>].doc /\ s.seq = k
  BY SnapshotsBy
<1>3. \/ t = L(c)
      \/ \E k \in 1..MaxSeq : /\ Has(<<"sibling", c, k>>) /\ k # L(c).seq
                              /\ t = got[<<"sibling", c, k>>].doc /\ t.seq = k
  BY SnapshotsBy
<1>4. ASSUME NEW k \in 1..MaxSeq, Has(<<"sibling", c, k>>)
      PROVE  c \in Public /\ Walked(c) /\ k \in Lowest(L(c).seq)..L(c).seq
  <2>1. <<"sibling", c, k>> \in DOMAIN got BY <1>4 DEF Has
  <2> QED BY <2>1 DEF Base, Place, WalkedBack
<1>5. CASE s = L(c)
  <2>1. s # t BY <1>1
  <2>2. PICK k \in 1..MaxSeq : Has(<<"sibling", c, k>>) /\ t.seq = k BY <1>3, <1>5, <2>1
  <2>3. Walked(c) /\ k \in Lowest(L(c).seq)..L(c).seq BY <1>4, <2>2
  <2> QED BY <1>1, <1>5, <2>2, <2>3
<1>6. CASE s # L(c)
  <2>1. PICK k \in 1..MaxSeq : /\ Has(<<"sibling", c, k>>) /\ k # L(c).seq
                               /\ s = got[<<"sibling", c, k>>].doc /\ s.seq = k
    BY <1>2, <1>6
  <2>2. c \in Public BY <1>4, <2>1
  <2>3. Linked(c)
    <3>1. SpotOf(doing) = Len(Order) + 1 BY Kinds
    <3>2. Position(c) < SpotOf(doing) BY <3>1, Spots
    <3> QED BY <2>2, <3>2 DEF LinkInv
  <2>4. Above(c, k, t)
    <3>1. CASE t = L(c) BY <1>1, <2>1, <3>1 DEF Above
    <3>2. CASE t # L(c)
      <4>1. PICK j \in 1..MaxSeq : /\ Has(<<"sibling", c, j>>) /\ j # L(c).seq
                                   /\ t = got[<<"sibling", c, j>>].doc /\ t.seq = j
        BY <1>3, <3>2
      <4>2. j = k + 1 BY <1>1, <2>1, <4>1
      <4> QED BY <4>1, <4>2 DEF Above
    <3> QED BY <3>1, <3>2
  <2> QED BY <2>1, <2>3, <2>4 DEF Linked
<1> QED BY <1>5, <1>6

LEMMA EquivocationIs == Base /\ Typed /\ AgreeInv /\ LinkInv => EquivocationCaught
<1> SUFFICES ASSUME Base, Typed, AgreeInv, LinkInv, phase = "done", NEW c \in Verified,
                    NEW a \in Claims(c), NEW b \in Claims(c), a[1] = b[1], a[2] # b[2]
             PROVE  Result = "fail"
  BY DEF EquivocationCaught
<1>0. SUFFICES ASSUME Faultless PROVE FALSE BY FailDecides
<1>1. doing = End /\ c \in Catalogs BY Spots DEF Base, Place, Verified
<1>2. PICK s \in Snapshots(c) : a \in {Digest(s), s.prev} \ {None} /\ ~IsBad(s, {"chain-fields"})
  BY DEF Claims, IsBad, Bad
<1>3. PICK t \in Snapshots(c) : b \in {Digest(t), t.prev} \ {None} /\ ~IsBad(t, {"chain-fields"})
  BY DEF Claims, IsBad, Bad
<1>4. /\ s.seq \in Nat /\ (s.prev # None => s.prev \in Nat \X {0, 1} /\ s.prev[1] = s.seq - 1)
      /\ t.seq \in Nat /\ (t.prev # None => t.prev \in Nat \X {0, 1} /\ t.prev[1] = t.seq - 1)
  BY <1>0, <1>1, SnapshotsTyped
<1>5. Digest(s)[1] = s.seq /\ Digest(t)[1] = t.seq BY DEF Digest
<1>6. CASE s.seq = t.seq
  <2>1. s = t BY <1>0, <1>1, <1>6, SnapshotsAgree
  <2> QED BY <1>2, <1>3, <1>4, <1>5, <2>1
<1>7. CASE s.seq # t.seq
  <2>1. CASE a = Digest(s) /\ b = t.prev /\ t.prev # None
    <3>1. s.seq = t.seq - 1 BY <1>4, <1>5, <2>1
    <3> QED BY <1>0, <1>1, <1>3, <2>1, <3>1, SnapshotsLinked
  <2>2. CASE b = Digest(t) /\ a = s.prev /\ s.prev # None
    <3>1. t.seq = s.seq - 1 BY <1>4, <1>5, <2>2
    <3> QED BY <1>0, <1>1, <1>2, <2>2, <3>1, SnapshotsLinked
  <2>3. CASE a = Digest(s) /\ b = Digest(t) BY <1>5, <1>7, <2>3
  <2>4. CASE a = s.prev /\ s.prev # None /\ b = t.prev /\ t.prev # None
    <3>1. s.seq - 1 = t.seq - 1 BY <1>4, <2>4
    <3> QED BY <1>4, <1>7, <3>1
  <2> QED BY <1>2, <1>3, <2>1, <2>2, <2>3, <2>4
<1> QED BY <1>6, <1>7

LEMMA AgreeInit == Init => AgreeInv /\ LinkInv
<1> SUFFICES ASSUME Init PROVE AgreeInv /\ LinkInv OBVIOUS
<1>1. DOMAIN got = {} BY DEF Init
<1>2. \A u : ~Has(u) BY <1>1 DEF Has
<1> QED BY <1>2 DEF AgreeInv, LinkInv, Linked

(* A fork is reported exactly when there is one to be seen: two signed        *)
(* documents the run fetched that disagree on a sequence fail the run, however*)
(* the provider's steps fall between its fetches.                             *)
THEOREM SpecForkExact == Spec => []ForkExact
<1>1. Init => Base /\ Typed /\ AgreeInv /\ LinkInv BY BaseInit, TypedInit, AgreeInit
<1>2. Base /\ Typed /\ AgreeInv /\ LinkInv /\ [Next]_vars => Base' /\ Typed' /\ AgreeInv' /\ LinkInv'
  BY BaseStep, TypedStep, AgreeStep, LinkStep
<1>3. Base /\ Typed /\ AgreeInv /\ LinkInv => EquivocationCaught BY EquivocationIs
<1>4. Spec => []EquivocationCaught BY <1>1, <1>2, <1>3, PTL DEF Spec
<1>5. ForkIsProof /\ EquivocationCaught => ForkExact BY DEF ForkExact
<1> QED BY <1>4, <1>5, SpecForkIsProof, PTL

-------------------------------------------------------------------------------
(* Flaws. What a deployment nobody has touched serves: each flaw of a document*)
(* it was founded with is a flaw of what the run fetches.                     *)
Flawed == flaws \in FlawSets

LEMMA FlawedStep == Flawed /\ [Next]_vars => Flawed'
<1> SUFFICES ASSUME Flawed, [Next]_vars PROVE flaws' = flaws BY DEF Flawed
<1>1. CASE ProviderNext
  BY <1>1 DEF ProviderNext, Tick, Redeclare, Publish, Prune, Equivocate, Drop, Replace, Acts
<1> QED BY <1>1, RunKeeps DEF Next, Over, vars

(* The k-th snapshot of catalog c as it was founded.                          *)
Founded1(c, k, s) ==
    /\ s.cat = c /\ s.seq = k /\ s.alt = 0 /\ s.gen \in Nat /\ s.exp = s.gen + Life(c, k)
    /\ Bad(<<"snapshot", c, k>>, {"future"}) => s.gen = MaxTime + Skew + 1

LEMMA FoundedIs ==
    ASSUME Base, Untouched, changes = 0, NEW c \in Catalogs
    PROVE  /\ Last(chain[c]) = chain[c][Length[c]] /\ Length[c] \in 1..MaxSeq /\ Length[c] \in Nat
           /\ Len(chain[c]) = Length[c]
           /\ \A k \in 1..Length[c] : /\ Founded1(c, k, chain[c][k]) /\ shelf[c][k] = chain[c][k]
                                      /\ chain[c][k] \in SnapshotSet /\ k \in 1..MaxSeq
<1>1. /\ chain[c] = Founding(c) /\ Len(chain[c]) = Length[c]
      /\ \A k \in 1..Length[c] : shelf[c][k] = chain[c][k]
  BY DEF Untouched
<1>2. Length[c] \in 1..MaxSeq /\ MaxSeq \in Nat /\ Length[c] \in Nat BY CatalogsFacts
<1>3. Last(chain[c]) = chain[c][Length[c]] BY <1>1, ChainLast DEF Base
<1>4. ASSUME NEW k \in 1..Length[c]
      PROVE  Founded1(c, k, chain[c][k]) /\ chain[c][k] \in SnapshotSet /\ k \in 1..MaxSeq
  <2>1. PICK s : s = chain[c][k] OBVIOUS
  <2>2. s \in SnapshotSet /\ k \in 1..MaxSeq BY <1>1, <2>1, ChainLast DEF Base
  <2>3. \E p : s = Snapshot(c, k, p, 1, k) BY <1>1, <2>1 DEF Founding
  <2>4. PICK p : s = Snapshot(c, k, p, 1, k) BY <2>3
  <2>5. s.cat = c /\ s.seq = k /\ s.alt = 0 /\ s.exp = s.gen + Life(c, k) BY <2>4 DEF Snapshot
  <2>6. Bad(<<"snapshot", c, k>>, {"future"}) => s.gen = MaxTime + Skew + 1 BY <2>4 DEF Snapshot
  <2>7. s.gen \in Nat BY <2>2 DEF SnapshotSet
  <2> QED BY <2>1, <2>2, <2>5, <2>6, <2>7 DEF Founded1
<1> QED BY <1>1, <1>2, <1>3, <1>4

LEMMA FoundedBad ==
    ASSUME NEW c, NEW k, NEW s, Founded1(c, k, s), NEW names
    PROVE  IsBad(s, names) <=> Bad(<<"snapshot", c, k>>, names)
BY DEF IsBad, Founded1

(* What the run fetches while nothing changes.                                *)
LEMMA StillFetched ==
    ASSUME StillServed, changes = 0, NEW u, Has(u)
    PROVE  got[u] = Served(u) /\ Served(u).st = "200" /\ ~Bad(u, Statuses)
<1>1. Answer("lost").st = "lost" /\ Answer("spent").st = "spent" /\ \A st \in Statuses : Answer(st).st # "200"
  BY DEF Answer, Statuses
<1>2. got[u] = Served(u) /\ Served(u).st = "200" BY <1>1 DEF StillServed, Has
<1> QED BY <1>1, <1>2, ServedIs

LEMMA StillResponse ==
    ASSUME StillServed', changes = 0, NEW u, NEW r, Fetches(u, r)
    PROVE  /\ r.st = "200" => r = Served(u) /\ ~Bad(u, Statuses)
           /\ r \in {Served(u), Answer("lost"), Answer("spent")}
<1>1. /\ u \in DOMAIN got' /\ got'[u] = r /\ UNCHANGED <<ver, policy, chain, shelf, flaws, changes>>
  BY FetchKeeps DEF deployment
<1>2. Served(u)' = Served(u) BY <1>1, ServedKept
<1>3. got[u]' \in {Served(u)', Answer("lost"), Answer("spent")} BY <1>1 DEF StillServed
<1>4. r \in {Served(u), Answer("lost"), Answer("spent")} BY <1>1, <1>2, <1>3
<1>5. Answer("lost").st = "lost" /\ Answer("spent").st = "spent" /\ \A st \in Statuses : Answer(st).st # "200"
  BY DEF Answer, Statuses
<1> QED BY <1>4, <1>5, ServedIs

LEMMA StillSnapshot ==
    ASSUME Base, Untouched, StillServed, changes = 0, NEW c \in Catalogs, Has(<<"latest", c>>)
    PROVE  L(c) = chain[c][Length[c]] /\ L(c).seq = Length[c] /\ Founded1(c, Length[c], L(c))
<1>1. got[<<"latest", c>>] = Served(<<"latest", c>>) /\ Served(<<"latest", c>>).st = "200"
  BY StillFetched
<1>2. Served(<<"latest", c>>).doc = Last(chain[c]) BY <1>1, ServedSnapshot DEF Base
<1>3. Last(chain[c]) = chain[c][Length[c]] /\ Founded1(c, Length[c], chain[c][Length[c]])
  <2>1. Length[c] \in 1..Length[c] BY CatalogsFacts
  <2> QED BY <2>1, FoundedIs
<1> QED BY <1>1, <1>2, <1>3 DEF L, Founded1

(* The documents beside a document may be missing.                            *)
Detachable(u) == Bad(u, {"404", "403"}) \/ ~(Bad(u, {"size", "form"}) \/ Bad(u, Statuses))

LEMMA DetachableIs ==
    ASSUME StillServed', changes = 0, NEW u, NEW r, Fetches(u, r), Optional(u, r),
           \/ u = <<"manifest.sig">>
           \/ \E c : u = <<"latest.sig", c>>
    PROVE  Detachable(u)
<1>1. CASE State(r, TRUE) = "ok" /\ ~Bad(u, {"size", "form"})
  <2>1. r.st = "200" BY <1>1, StateIs
  <2> QED BY <1>1, <2>1, StillResponse DEF Detachable
<1>2. CASE State(r, TRUE) = "absent"
  <2>1. r.st \in {"404", "403"} BY <1>2, StateIs
  <2>2. Answer("lost").st = "lost" /\ Answer("spent").st = "spent" /\ \A st : Answer(st).st = st
    BY DEF Answer
  <2>3. r = Served(u) BY <2>1, <2>2, StillResponse
  <2>4. \A doc : Ok(doc).st = "200" BY DEF Ok
  <2>5. \/ \E st \in Statuses : <<u, st>> \in flaws /\ Served(u) = Answer(st)
        \/ \E doc : Served(u) = Ok(doc)
    BY ServedIs
  <2>6. PICK st \in Statuses : <<u, st>> \in flaws /\ Served(u) = Answer(st) BY <2>1, <2>3, <2>4, <2>5
  <2>7. st \in {"404", "403"} BY <2>1, <2>2, <2>3, <2>6
  <2> QED BY <2>6, <2>7 DEF Detachable, Bad
<1> QED BY <1>1, <1>2 DEF Optional

(* What a run that is clear so far shows of each document it has fetched.     *)
ManifestFlaws ==
    {"seat", "size", "parse", "schema", "identity", "key", "unsigned", "privacy-missing",
     "privacy-digest", "catalogs"}
LatestFlaws == {"size", "parse", "schema", "unsigned", "no-sequence", "no-entries", "identity", "catalog"}
ContentFlaws ==
    {"signature", "policy", "chain-fields", "times", "entry-count", "future", "born-expired",
     "window-max", "duplicate"}
Spotless(u, names) == ~Bad(u, Statuses) /\ \A n \in names : ~Bad(u, {n})
Fine(u, r) ==
    /\ u = M => Spotless(M, ManifestFlaws)
    /\ u = <<"manifest.sig">> =>
         /\ Detachable(u) /\ \A n \in {"signature", "valid-until", "privacy-uri", "duplicate-id"} : ~Bad(M, {n})
         /\ \A c \in Catalogs : ~Bad(Descriptor(c), {"fields"}) /\ ~Bad(Descriptor(c), {"uri"})
    /\ u[1] \in {"privacy", "policy"} => Spotless(u, {"size", "bytes"})
    /\ \A c \in Catalogs : u = <<"latest", c>> =>
         ~Bad(u, Statuses) /\ \A n \in LatestFlaws : ~Bad(<<"snapshot", c, Length[c]>>, {n})
    /\ \A c \in Catalogs : u = <<"latest.sig", c>> =>
         /\ Detachable(u) /\ \A n \in ContentFlaws : <<<<"snapshot", c, Length[c]>>, n>> \notin flaws
         /\ \A x \in Listing[c] : ~Bad(Entry(c, x), {"fields"}) /\ ~Bad(Entry(c, x), {"uri"})
    /\ \A c \in Catalogs, k \in 1..MaxSeq : u = <<"sibling", c, k>> /\ k < Length[c] /\ r.st = "200" =>
         \A n \in SiblingGrave : ~Bad(<<"snapshot", c, k>>, {n})

FineFetch == \E u, r : Fetches(u, r) /\ Fine(u, r)

LEMMA StateOk == \A r : State(r, FALSE) = "ok" => r.st = "200"
BY StateIs

LEMMA FineOther ==
    ASSUME NEW u, u[1] \in {"sibling.sig", "dest"}, NEW r
    PROVE  Fine(u, r)
BY DEF Fine, M

LEMMA FineManifest ==
    ASSUME StillServed', changes = 0, Clean', GetManifest
    PROVE  FineFetch
<1>1. PICK r : Fetches(M, r) /\ State(r, FALSE) = "ok" BY CleanManifest
<1>2. ~Bad(M, Statuses) BY <1>1, StateOk, StillResponse
<1>3. ~Bad(M, {"size", "parse"}) /\ ~ManifestSchemaBad /\ ~Bad(M, {"identity", "seat", "key"})
  BY CleanManifest
<1>4. \A n \in ManifestFlaws : ~Bad(M, {n}) BY <1>3 DEF Bad, ManifestSchemaBad, ManifestFlaws
<1>5. Fine(M, r) BY <1>2, <1>4 DEF Fine, M, Spotless
<1> QED BY <1>1, <1>5 DEF FineFetch

LEMMA FineManifestSig ==
    ASSUME StillServed', changes = 0, Clean', GetManifestSig
    PROVE  FineFetch
<1>1. PICK u : u = <<"manifest.sig">> OBVIOUS
<1>2. PICK r : Fetches(u, r) /\ Optional(u, r) BY <1>1, CleanManifestSig
<1>3. Detachable(u) BY <1>1, <1>2, DetachableIs
<1>4. \A n \in {"signature", "valid-until", "privacy-uri", "duplicate-id"} : ~Bad(M, {n})
  <2>1. ~Bad(M, {"unsigned", "signature"}) /\ ~Bad(M, {"valid-until"}) /\ ~Bad(M, {"privacy-uri"})
        /\ ~Bad(M, {"duplicate-id"})
    BY CleanManifestSig
  <2>2. ~Bad(M, {"signature"}) BY <2>1 DEF Bad
  <2> QED BY <2>1, <2>2
<1>5. \A c \in Catalogs : ~Bad(Descriptor(c), {"fields"}) /\ ~Bad(Descriptor(c), {"uri"}) BY CleanManifestSig
<1>6. Fine(u, r) BY <1>1, <1>3, <1>4, <1>5 DEF Fine, M
<1> QED BY <1>2, <1>6 DEF FineFetch

LEMMA FinePrivacy ==
    ASSUME StillServed', changes = 0, Clean', GetPrivacy
    PROVE  FineFetch
<1>1. PICK u : u = <<"privacy">> OBVIOUS
<1>2. PICK r : Fetches(u, r) /\ State(r, FALSE) = "ok" BY <1>1, CleanPrivacy
<1>3. ~Bad(u, Statuses) BY <1>2, StateOk, StillResponse
<1>4. Spotless(u, {"size", "bytes"}) BY <1>1, <1>3, CleanPrivacy DEF Spotless
<1>5. Fine(u, r) BY <1>1, <1>4 DEF Fine, M
<1> QED BY <1>2, <1>5 DEF FineFetch

LEMMA FinePolicy ==
    ASSUME StillServed', changes = 0, Clean', NEW c, GetPolicy(c)
    PROVE  FineFetch
<1>1. PICK u : u = <<"policy", c>> OBVIOUS
<1>2. PICK r : Fetches(u, r) /\ State(r, FALSE) = "ok" BY <1>1, CleanPolicy
<1>3. ~Bad(u, Statuses) BY <1>2, StateOk, StillResponse
<1>4. Spotless(u, {"size", "bytes"}) BY <1>1, <1>3, CleanPolicy DEF Spotless
<1>5. Fine(u, r) BY <1>1, <1>4 DEF Fine, M
<1> QED BY <1>2, <1>5 DEF FineFetch

LEMMA FineLatest ==
    ASSUME Base, Untouched, StillServed', changes = 0, Clean', NEW c \in Catalogs, GetLatest(c)
    PROVE  FineFetch
<1>1. PICK u : u = <<"latest", c>> OBVIOUS
<1>2. PICK r : /\ Fetches(u, r) /\ State(r, FALSE) = "ok"
               /\ ~IsBad(r.doc, {"size"}) /\ ~IsBad(r.doc, {"parse"})
               /\ ~SchemaBad(r.doc) /\ ~IdentityBad(r.doc)
  BY <1>1, CleanLatest
<1>3. r = Served(u) /\ ~Bad(u, Statuses) /\ r.st = "200" BY <1>2, StateOk, StillResponse
<1>4. r.doc = Last(chain[c]) BY <1>1, <1>3, ServedSnapshot DEF Base
<1>5. Founded1(c, Length[c], r.doc)
  <2>1. Length[c] \in 1..Length[c] BY CatalogsFacts
  <2> QED BY <1>4, <2>1, FoundedIs
<1>6. \A names : ~IsBad(r.doc, names) => ~Bad(<<"snapshot", c, Length[c]>>, names) BY <1>5, FoundedBad
<1>7. \A n \in LatestFlaws : ~Bad(<<"snapshot", c, Length[c]>>, {n})
  <2>1. /\ ~Bad(<<"snapshot", c, Length[c]>>, {"schema", "unsigned", "no-sequence", "no-entries"})
        /\ ~Bad(<<"snapshot", c, Length[c]>>, {"identity", "catalog"})
        /\ ~Bad(<<"snapshot", c, Length[c]>>, {"size"}) /\ ~Bad(<<"snapshot", c, Length[c]>>, {"parse"})
    BY <1>2, <1>6 DEF SchemaBad, IdentityBad
  <2> QED BY <2>1 DEF Bad, LatestFlaws
<1>8. \A d \in Catalogs : u = <<"latest", d>> => d = c BY <1>1
<1>9. Fine(u, r) BY <1>1, <1>3, <1>7, <1>8 DEF Fine, M
<1> QED BY <1>2, <1>9 DEF FineFetch

(* The latest snapshot's dates, if it was founded flawed.                     *)
LEMMA FoundedDates ==
    ASSUME Deployed, NEW c \in Catalogs, NEW k, NEW s, Founded1(c, k, s), at \in Nat, at <= now,
           ~(s.gen > at + Skew \/ s.exp <= s.gen), ~(s.exp - s.gen > MaxWindow)
    PROVE  \A n \in {"future", "born-expired", "window-max"} : ~Bad(<<"snapshot", c, k>>, {n})
<1>1. /\ MaxWindow \in Nat /\ Skew \in Nat /\ MaxTime \in Nat /\ now \in Nat /\ now <= MaxTime
      /\ s.gen \in Nat /\ s.exp = s.gen + Life(c, k)
  BY CatalogsFacts DEF Deployed, Founded1
<1>2. ~Bad(<<"snapshot", c, k>>, {"future"}) BY <1>1 DEF Founded1
<1>3. ~Bad(<<"snapshot", c, k>>, {"window-max"})
  <2>1. SUFFICES ASSUME Bad(<<"snapshot", c, k>>, {"window-max"}) PROVE FALSE OBVIOUS
  <2>2. Life(c, k) = MaxWindow + 1 BY <2>1 DEF Life
  <2> QED BY <1>1, <2>2
<1>4. ~Bad(<<"snapshot", c, k>>, {"born-expired"})
  <2>1. SUFFICES ASSUME Bad(<<"snapshot", c, k>>, {"born-expired"}) PROVE FALSE OBVIOUS
  <2>2. Life(c, k) = 0 BY <1>3, <2>1 DEF Life
  <2> QED BY <1>1, <2>2
<1> QED BY <1>2, <1>3, <1>4

LEMMA FineLatestSig ==
    ASSUME Base, Timed, Flawed, Untouched, StillServed, StillServed', changes = 0, Clean',
           NEW c \in Catalogs, GetLatestSig(c)
    PROVE  FineFetch
<1>1. PICK u : u = <<"latest.sig", c>> OBVIOUS
<1>2. PICK r : Fetches(u, r) /\ Optional(u, r) BY <1>1, CleanLatestSig
<1>3. Detachable(u) BY <1>1, <1>2, DetachableIs
<1>4. doing = <<"latest.sig", c>> /\ phase = "run" BY MoveLatestSig DEF Doing
<1>5. Has(<<"latest", c>>) BY <1>4, AtCatalog DEF Base, Readable
<1>6. PICK s : s = L(c) OBVIOUS
<1>7. PICK n : n = Length[c] OBVIOUS
<1>8. Founded1(c, n, s) BY <1>5, <1>6, <1>7, StillSnapshot
<1>9. SigOK(s) /\ Content(c, s) \subseteq found' BY <1>6, CleanLatestSig
<1>10. /\ ~IsBad(s, {"policy"}) /\ ~ChainFieldsBad(s) /\ TimesOK(s) /\ ~IsBad(s, {"entry-count"})
       /\ ~(s.gen > at + Skew \/ s.exp <= s.gen) /\ ~(s.exp - s.gen > MaxWindow)
       /\ Entries(c, s) \subseteq found'
  BY <1>9, CleanContent
<1>11. /\ Listing[c] # {} => ~IsBad(s, {"duplicate"})
       /\ \A x \in Listing[c] : ~Bad(Entry(c, x), {"fields"}) /\ ~Bad(Entry(c, x), {"uri"})
  BY <1>10, CleanEntries
<1>12. at \in Nat /\ at <= now BY <1>4 DEF Timed
<1>13. \A m \in {"future", "born-expired", "window-max"} : ~Bad(<<"snapshot", c, n>>, {m})
  BY <1>8, <1>10, <1>12, FoundedDates DEF Base
<1>14. \A names : ~IsBad(s, names) => ~Bad(<<"snapshot", c, n>>, names) BY <1>8, FoundedBad
<1>15. <<<<"snapshot", c, n>>, "duplicate">> \notin flaws
  <2>1. SUFFICES ASSUME <<<<"snapshot", c, n>>, "duplicate">> \in flaws PROVE FALSE OBVIOUS
  <2>2. PICK f : f = <<<<"snapshot", c, n>>, "duplicate">> OBVIOUS
  <2>3. f \in flaws /\ f[1] = <<"snapshot", c, n>> /\ f[2] = "duplicate" BY <2>1, <2>2
  <2>4. f[1][1] = "snapshot" /\ f[1][2] = c BY <2>3
  <2>5. Listing[c] # {} BY <2>3, <2>4, FlawsAssumption DEF Flawed
  <2>6. ~Bad(<<"snapshot", c, n>>, {"duplicate"}) BY <1>11, <1>14, <2>5
  <2> QED BY <2>1, <2>6 DEF Bad
<1>16. \A m \in ContentFlaws : <<<<"snapshot", c, n>>, m>> \notin flaws
  <2>1. ~Bad(<<"snapshot", c, n>>, {"policy"}) /\ ~Bad(<<"snapshot", c, n>>, {"entry-count"})
    BY <1>10, <1>14
  <2>2. ~Bad(<<"snapshot", c, n>>, {"times"}) BY <1>10, <1>14 DEF TimesOK
  <2>3. ~Bad(<<"snapshot", c, n>>, {"chain-fields", "no-sequence"}) BY <1>10, <1>14 DEF ChainFieldsBad
  <2>4. ~Bad(<<"snapshot", c, n>>, {"unsigned", "signature"}) BY <1>9, <1>14 DEF SigOK
  <2>5. /\ ~Bad(<<"snapshot", c, n>>, {"future"}) /\ ~Bad(<<"snapshot", c, n>>, {"born-expired"})
        /\ ~Bad(<<"snapshot", c, n>>, {"window-max"})
    BY <1>13
  <2> QED BY <1>15, <2>1, <2>2, <2>3, <2>4, <2>5 DEF Bad, ContentFlaws
<1>17. \A d \in Catalogs : u = <<"latest.sig", d>> => d = c BY <1>1
<1>18. Fine(u, r) BY <1>1, <1>3, <1>7, <1>11, <1>16, <1>17 DEF Fine, M
<1> QED BY <1>2, <1>18 DEF FineFetch

LEMMA FineNewest ==
    ASSUME Base, Untouched, StillServed, changes = 0, NEW c \in Catalogs, GetNewest(c)
    PROVE  FineFetch
<1>1. PICK r : Fetches(<<"sibling", c, L(c).seq>>, r) BY MoveNewest
<1>2. doing = <<"newest", c>> BY MoveNewest DEF Doing
<1>3. Has(<<"latest", c>>) BY <1>2, AtCatalog DEF Base, Walked, Readable
<1>4. PICK n : n = L(c).seq OBVIOUS
<1>5. n = Length[c] /\ n \in Nat BY <1>3, <1>4, StillSnapshot, CatalogsFacts
<1>6. PICK u : u = <<"sibling", c, n>> OBVIOUS
<1>7. \A d \in Catalogs, k \in 1..MaxSeq : u = <<"sibling", d, k>> => ~(k < Length[d]) BY <1>5, <1>6
<1>8. Fine(u, r) BY <1>6, <1>7 DEF Fine, M
<1> QED BY <1>1, <1>4, <1>6, <1>8 DEF FineFetch

LEMMA FineSibling ==
    ASSUME Base, Untouched, StillServed', changes = 0, Clean', NEW c \in Catalogs, NEW k, GetSibling(c, k)
    PROVE  FineFetch
<1>1. PICK r : /\ Fetches(<<"sibling", c, k>>, r)
               /\ State(r, TRUE) = "ok" =>
                       /\ ~IsBad(r.doc, {"size"}) /\ ~IsBad(r.doc, {"parse"}) /\ ~SchemaBad(r.doc)
                       /\ ~IdentityBad(r.doc) /\ ~ChainFieldsBad(r.doc) /\ SigOK(r.doc)
  BY CleanSibling
<1>2. PICK u : u = <<"sibling", c, k>> OBVIOUS
<1>3. ASSUME k \in 1..MaxSeq, k < Length[c], r.st = "200", NEW n \in SiblingGrave
      PROVE  ~Bad(<<"snapshot", c, k>>, {n})
  <2>1. r = Served(u) BY <1>1, <1>2, <1>3, StillResponse
  <2>2. r.doc = shelf[c][k] BY <1>2, <1>3, <2>1, ServedSnapshot DEF Base
  <2>3. k \in 1..Length[c] BY <1>3, CatalogsFacts
  <2>4. Founded1(c, k, r.doc) BY <2>2, <2>3, FoundedIs
  <2>5. \A names : ~IsBad(r.doc, names) => ~Bad(<<"snapshot", c, k>>, names) BY <2>4, FoundedBad
  <2>6. State(r, TRUE) = "ok" BY <1>3, StateIs
  <2>7. /\ ~Bad(<<"snapshot", c, k>>, {"size"}) /\ ~Bad(<<"snapshot", c, k>>, {"parse"})
        /\ ~Bad(<<"snapshot", c, k>>, {"schema", "unsigned", "no-sequence", "no-entries"})
        /\ ~Bad(<<"snapshot", c, k>>, {"identity", "catalog"})
        /\ ~Bad(<<"snapshot", c, k>>, {"chain-fields", "no-sequence"})
        /\ ~Bad(<<"snapshot", c, k>>, {"unsigned", "signature"})
    BY <1>1, <2>5, <2>6 DEF SchemaBad, IdentityBad, ChainFieldsBad, SigOK
  <2> QED BY <1>3, <2>7 DEF Bad, SiblingGrave
<1>4. \A d \in Catalogs, j \in 1..MaxSeq : u = <<"sibling", d, j>> => d = c /\ j = k BY <1>2
<1>5. Fine(u, r) BY <1>2, <1>3, <1>4 DEF Fine, M
<1> QED BY <1>1, <1>2, <1>5 DEF FineFetch

(* Whatever the run has fetched is fine, if it is clear.                      *)
GoodInv == changes = 0 /\ Clean => \A u \in DOMAIN got : Fine(u, got[u])

LEMMA GoodFetches ==
    ASSUME Base, Timed, Flawed, Untouched, StillServed, StillServed', changes = 0, Clean', RunNext
    PROVE  got' = got \/ FineFetch
<1>1. ASSUME NEW c, NEW k, GetSiblingSig(c, k) PROVE FineFetch
  <2>1. PICK u, r : Fetches(u, r) /\ u = <<"sibling.sig", c, k>> BY <1>1, MoveSiblingSig
  <2> QED BY <2>1, FineOther DEF FineFetch
<1>2. ASSUME NEW c, NEW x, GetDest(x, c) PROVE FineFetch
  <2>1. PICK u, r : Fetches(u, r) /\ u = <<"dest", x>> BY <1>2, MoveDest
  <2> QED BY <2>1, FineOther DEF FineFetch
<1>3. ASSUME NEW c \in Catalogs, GetPolicy(c) \/ GetLatest(c) \/ GetLatestSig(c) \/ GetNewest(c) PROVE FineFetch
  BY <1>3, FinePolicy, FineLatest, FineLatestSig, FineNewest
<1>4. ASSUME NEW c \in Catalogs, NEW k, GetSibling(c, k) PROVE FineFetch BY <1>4, FineSibling
<1>5. ASSUME NEW c, CheckChain(c) PROVE got' = got BY <1>5, MoveChain
<1>6. CASE ExamineEntries BY <1>6, MoveEntries
<1>7. CASE Probe \/ Start \/ Finish BY <1>7 DEF Probe, Start, Finish
<1>8. CASE GetManifest \/ GetManifestSig \/ GetPrivacy BY <1>8, FineManifest, FineManifestSig, FinePrivacy
<1> QED BY <1>1, <1>2, <1>3, <1>4, <1>5, <1>6, <1>7, <1>8 DEF RunNext

LEMMA FineKept ==
    ASSUME flaws' = flaws, NEW u, NEW r, Fine(u, r)
    PROVE  Fine(u, r)'
BY DEF Fine, Spotless, Detachable, Bad

LEMMA GoodStep ==
    Base /\ Timed /\ Flawed /\ Untouched /\ StillServed /\ GoodInv /\ [Next]_vars => GoodInv'
<1> SUFFICES ASSUME Base, Timed, Flawed, Untouched, StillServed, GoodInv, [Next]_vars PROVE GoodInv' OBVIOUS
<1>1. CASE ProviderNext
  <2>1. changes' # 0 BY <1>1, ProviderKeeps DEF Base, Deployed
  <2> QED BY <2>1 DEF GoodInv
<1>2. ASSUME UNCHANGED <<got, flaws, changes>>, Clean' => Clean PROVE GoodInv'
  <2>1. SUFFICES ASSUME changes = 0, Clean, NEW u \in DOMAIN got PROVE Fine(u, got[u])'
    BY <1>2 DEF GoodInv
  <2>2. PICK r : r = got[u] OBVIOUS
  <2>3. Fine(u, r) BY <2>1, <2>2 DEF GoodInv
  <2>4. Fine(u, r)' BY <1>2, <2>3, FineKept
  <2>5. r = got[u]' BY <1>2, <2>2
  <2> QED BY <2>4, <2>5
<1>3. CASE UNCHANGED vars
  <2>1. UNCHANGED <<got, flaws, changes, found>> BY <1>3 DEF vars, deployment
  <2> QED BY <1>2, <2>1 DEF Clean
<1>4. CASE RunNext
  <2>1. UNCHANGED <<flaws, changes>> /\ (Clean' => Clean) BY <1>4, RunKeeps, CleanBefore DEF Base
  <2>2. SUFFICES ASSUME changes = 0, Clean', got' # got PROVE GoodInv'
    BY <1>2, <2>1 DEF GoodInv
  <2>3. StillServed' BY StillStep
  <2>4. PICK u, r : Fetches(u, r) /\ Fine(u, r) BY <1>4, <2>2, <2>3, GoodFetches DEF FineFetch
  <2>5. /\ DOMAIN got' = DOMAIN got \cup {u} /\ got'[u] = r
        /\ \A w \in DOMAIN got : got'[w] = got[w]
    BY <2>4, FetchKeeps
  <2>6. ASSUME NEW v \in DOMAIN got' PROVE Fine(v, got[v])'
    <3>1. PICK q : q = got'[v] OBVIOUS
    <3>2. Fine(v, q)
      <4>1. CASE v = u BY <2>4, <2>5, <3>1, <4>1
      <4>2. CASE v # u
        <5>1. v \in DOMAIN got /\ q = got[v] BY <2>5, <2>6, <3>1, <4>2
        <5> QED BY <2>1, <2>2, <5>1 DEF GoodInv
      <4> QED BY <4>1, <4>2
    <3>3. Fine(v, q)' BY <2>1, <3>2, FineKept
    <3> QED BY <3>1, <3>3
  <2> QED BY <2>6 DEF GoodInv
<1> QED BY <1>1, <1>3, <1>4 DEF Next, Over

(* What a run that is clear so far has fetched by the time it is where it is. *)
CatalogDone(c) ==
    /\ <<"policy", c>> \in DOMAIN got /\ <<"latest", c>> \in DOMAIN got /\ <<"latest.sig", c>> \in DOMAIN got
    /\ Passed("snapshot.signature", <<c>>) \in found
    /\ \A k \in Lowest(L(c).seq)..(L(c).seq - 1) : <<"sibling", c, k>> \in DOMAIN got
Midway(c) ==
    /\ doing # <<"policy", c>> => <<"policy", c>> \in DOMAIN got
    /\ doing \notin {<<"policy", c>>, <<"latest", c>>, <<"latest.sig", c>>} =>
         <<"latest.sig", c>> \in DOMAIN got /\ Passed("snapshot.signature", <<c>>) \in found
PastNow ==
    /\ doing # M => M \in DOMAIN got
    /\ doing \notin {M, <<"manifest.sig">>} => <<"manifest.sig">> \in DOMAIN got
    /\ doing \notin {M, <<"manifest.sig">>, <<"privacy">>} => <<"privacy">> \in DOMAIN got
    /\ \A c \in Public : Position(c) < SpotOf(doing) => CatalogDone(c)
    /\ \A c \in Public : SpotOf(doing) = Position(c) => Midway(c)
PastInv == changes = 0 /\ Clean => PastNow

Grows ==
    /\ found \subseteq found' /\ DOMAIN got \subseteq DOMAIN got' /\ flaws' = flaws
    /\ \A v \in DOMAIN got : got'[v] = got[v]

LEMMA DoneKept ==
    ASSUME Grows, NEW c, CatalogDone(c)
    PROVE  CatalogDone(c)'
<1>1. L(c)' = L(c) BY DEF Grows, CatalogDone, L
<1>2. PICK n : n = L(c).seq OBVIOUS
<1>3. L(c)'.seq = n BY <1>1, <1>2
<1>4. \A k \in Lowest(n)..(n - 1) : <<"sibling", c, k>> \in DOMAIN got' BY <1>2 DEF CatalogDone, Grows
<1>5. /\ <<"policy", c>> \in DOMAIN got' /\ <<"latest", c>> \in DOMAIN got' /\ <<"latest.sig", c>> \in DOMAIN got'
      /\ Passed("snapshot.signature", <<c>>) \in found'
  BY DEF CatalogDone, Grows
<1>6. \A k \in Lowest(L(c)'.seq)..(L(c)'.seq - 1) : <<"sibling", c, k>> \in DOMAIN got' BY <1>3, <1>4
<1> QED BY <1>5, <1>6 DEF CatalogDone, Passed

LEMMA PublicSame == ASSUME flaws' = flaws PROVE Public' = Public
BY DEF Public, Decoded, Bad

(* The first three documents, once the run is past them.                      *)
LEMMA PastFirst ==
    ASSUME PastNow, Grows, SpotOf(doing) # 0
    PROVE  M \in DOMAIN got' /\ <<"manifest.sig">> \in DOMAIN got' /\ <<"privacy">> \in DOMAIN got'
<1>1. doing \notin {M, <<"manifest.sig">>, <<"privacy">>} BY Kinds
<1> QED BY <1>1 DEF PastNow, Grows, M

LEMMA PastWithin ==
    ASSUME Base, PastNow, Grows, NEW c \in Public, SpotOf(doing) = Position(c), SpotOf(doing') = Position(c),
           Midway(c)'
    PROVE  PastNow'
<1>1. Position(c) # 0 /\ c \in Catalogs BY Spots
<1>2. M \in DOMAIN got' /\ <<"manifest.sig">> \in DOMAIN got' /\ <<"privacy">> \in DOMAIN got'
  BY <1>1, PastFirst
<1>3. Public' = Public BY PublicSame DEF Grows
<1>4. ASSUME NEW d \in Public, Position(d) < SpotOf(doing') PROVE CatalogDone(d)'
  <2>1. Position(d) < SpotOf(doing) BY <1>4
  <2> QED BY <2>1, DoneKept DEF PastNow
<1>5. ASSUME NEW d \in Public, SpotOf(doing') = Position(d) PROVE Midway(d)'
  <2>1. d = c BY <1>5, Spots
  <2> QED BY <2>1
<1>6. \A d : Position(d)' = Position(d) /\ SpotOf(doing)' = SpotOf(doing') BY DEF SpotOf
<1> QED BY <1>2, <1>3, <1>4, <1>5, <1>6 DEF PastNow

LEMMA PastOnward ==
    ASSUME Base, Grows, NEW i \in Nat, doing' = Following(i),
           M \in DOMAIN got', <<"manifest.sig">> \in DOMAIN got', <<"privacy">> \in DOMAIN got',
           \A d \in Public : Position(d) <= i => CatalogDone(d)'
    PROVE  PastNow'
<1>1. Public' = Public BY PublicSame DEF Grows
<1>2. \A d \in Public : Position(d) \in Nat \ {0} /\ Position(d) <= Len(Order) /\ d \in Catalogs BY Spots
<1>3. Len(Order) \in Nat BY Spots
<1>4. CASE Following(i) = <<"entries">> /\ \A e \in Public : Position(e) <= i
  <2>1. SpotOf(doing') = Len(Order) + 1 BY <1>4, Kinds
  <2>2. \A d \in Public : CatalogDone(d)' BY <1>4
  <2>3. \A d \in Public : SpotOf(doing') # Position(d) BY <1>2, <1>3, <2>1
  <2> QED BY <1>1, <2>2, <2>3 DEF PastNow
<1>5. ASSUME NEW e \in Public, Following(i) = <<"policy", e>>, Position(e) > i,
             \A d \in Public : Position(d) > i => Position(e) <= Position(d)
      PROVE  PastNow'
  <2>1. SpotOf(doing') = Position(e) BY <1>5, Kinds
  <2>2. ASSUME NEW d \in Public, Position(d) < SpotOf(doing') PROVE CatalogDone(d)'
    <3>1. Position(d) \in Nat /\ Position(e) \in Nat BY <1>2
    <3>2. Position(d) <= i BY <1>5, <2>1, <2>2, <3>1
    <3> QED BY <3>2
  <2>3. ASSUME NEW d \in Public, SpotOf(doing') = Position(d) PROVE Midway(d)'
    <3>1. d = e BY <1>2, <2>1, <2>3, Spots
    <3> QED BY <1>5, <3>1 DEF Midway
  <2> QED BY <1>1, <2>2, <2>3 DEF PastNow
<1> QED BY <1>4, <1>5, FollowingIs

LEMMA PastNext ==
    ASSUME Base, PastNow, Grows, NEW c \in Public, SpotOf(doing) = Position(c), doing' = NextCatalog(c),
           CatalogDone(c)'
    PROVE  PastNow'
<1>1. Position(c) \in Nat /\ Position(c) # 0 /\ \A d \in Public : Position(d) \in Nat BY Spots
<1>2. M \in DOMAIN got' /\ <<"manifest.sig">> \in DOMAIN got' /\ <<"privacy">> \in DOMAIN got'
  BY <1>1, PastFirst
<1>3. ASSUME NEW d \in Public, Position(d) <= Position(c) PROVE CatalogDone(d)'
  <2>1. CASE d = c BY <2>1
  <2>2. CASE d # c
    <3>1. Position(d) # Position(c) BY <2>2, Spots
    <3>2. Position(d) < SpotOf(doing) BY <1>1, <1>3, <3>1
    <3> QED BY <3>2, DoneKept DEF PastNow
  <2> QED BY <2>1, <2>2
<1>4. doing' = Following(Position(c)) BY DEF NextCatalog
<1> QED BY <1>1, <1>2, <1>3, <1>4, PastOnward

LEMMA PastEnd ==
    ASSUME Base, PastNow, Grows, SpotOf(doing) = Len(Order) + 1, SpotOf(doing') = Len(Order) + 1
    PROVE  PastNow'
<1>1. Len(Order) + 1 # 0 /\ \A d \in Public : Position(d) < Len(Order) + 1 /\ Position(d) # Len(Order) + 1
  BY Spots
<1>2. M \in DOMAIN got' /\ <<"manifest.sig">> \in DOMAIN got' /\ <<"privacy">> \in DOMAIN got'
  BY <1>1, PastFirst
<1>3. Public' = Public BY PublicSame DEF Grows
<1>4. \A d \in Public : CatalogDone(d)' BY <1>1, DoneKept DEF PastNow
<1> QED BY <1>1, <1>2, <1>3, <1>4 DEF PastNow

LEMMA FetchGrows ==
    ASSUME Place, RunNext, NEW u, NEW r, Fetches(u, r)
    PROVE  Grows /\ u \in DOMAIN got'
<1>1. /\ DOMAIN got' = DOMAIN got \cup {u} /\ flaws' = flaws
      /\ \A w \in DOMAIN got : got'[w] = got[w]
  BY FetchKeeps
<1>2. found \subseteq found' BY RunGrows
<1> QED BY <1>1, <1>2 DEF Grows

LEMMA StillGrows ==
    ASSUME Place, RunNext, got' = got
    PROVE  Grows
BY RunGrows, RunKeeps DEF Grows

LEMMA PastManifest ==
    ASSUME Base, Clean', GetManifest
    PROVE  PastNow'
<1>1. PICK r : Fetches(M, r) /\ doing' = <<"manifest.sig">> BY CleanManifest
<1>2. M \in DOMAIN got' BY <1>1, FetchKeeps
<1>3. SpotOf(doing') = 0 BY <1>1, Kinds
<1>4. \A d \in Public' : Position(d) \in Nat /\ Position(d) # 0
  <2>1. Public' = Public BY <1>1, FetchKeeps
  <2> QED BY <2>1, Spots
<1>5. \A d \in Public' : ~(Position(d) < SpotOf(doing')) /\ SpotOf(doing') # Position(d) BY <1>3, <1>4
<1> QED BY <1>1, <1>2, <1>5 DEF PastNow, M

LEMMA PastManifestSig ==
    ASSUME Base, PastNow, Clean', RunNext, GetManifestSig
    PROVE  PastNow'
<1>1. PICK r : Fetches(<<"manifest.sig">>, r) /\ doing' = <<"privacy">> BY CleanManifestSig
<1>2. Grows /\ <<"manifest.sig">> \in DOMAIN got' BY <1>1, FetchGrows DEF Base
<1>3. M \in DOMAIN got'
  <2>1. doing = <<"manifest.sig">> BY MoveManifestSig DEF Doing
  <2>2. M \in DOMAIN got BY <2>1 DEF PastNow, M
  <2> QED BY <1>2, <2>2 DEF Grows
<1>4. SpotOf(doing') = 0 BY <1>1, Kinds
<1>5. \A d \in Public' : Position(d) \in Nat /\ Position(d) # 0
  <2>1. Public' = Public BY <1>1, FetchKeeps
  <2> QED BY <2>1, Spots
<1>6. \A d \in Public' : ~(Position(d) < SpotOf(doing')) /\ SpotOf(doing') # Position(d) BY <1>4, <1>5
<1> QED BY <1>1, <1>2, <1>3, <1>6 DEF PastNow, M

LEMMA PastPrivacy ==
    ASSUME Base, PastNow, GoodInv, Clean, changes = 0, Clean', RunNext, GetPrivacy
    PROVE  PastNow'
<1>1. PICK r : Fetches(<<"privacy">>, r) /\ doing' = AfterPrivacy BY CleanPrivacy
<1>2. Grows /\ <<"privacy">> \in DOMAIN got' BY <1>1, FetchGrows DEF Base
<1>3. M \in DOMAIN got /\ <<"manifest.sig">> \in DOMAIN got
  <2>1. doing = <<"privacy">> BY MovePrivacy DEF Doing
  <2> QED BY <2>1 DEF PastNow, M
<1>4. ~Bad(M, {"catalogs"})
  <2>1. Fine(M, got[M]) BY <1>3 DEF GoodInv
  <2> QED BY <2>1 DEF Fine, Spotless, ManifestFlaws
<1>5. doing' = Following(0) BY <1>1, <1>4 DEF AfterPrivacy
<1>6. \A d \in Public : ~(Position(d) <= 0) BY Spots
<1>7. M \in DOMAIN got' /\ <<"manifest.sig">> \in DOMAIN got' BY <1>2, <1>3 DEF Grows
<1> QED BY <1>2, <1>5, <1>6, <1>7, PastOnward

LEMMA PastPolicy ==
    ASSUME Base, PastNow, Clean', RunNext, NEW c, GetPolicy(c)
    PROVE  PastNow'
<1>1. PICK r : Fetches(<<"policy", c>>, r) /\ doing' = <<"latest", c>> BY CleanPolicy
<1>2. Grows /\ <<"policy", c>> \in DOMAIN got' BY <1>1, FetchGrows DEF Base
<1>3. c \in Public /\ SpotOf(doing) = Position(c)
  <2>1. doing = <<"policy", c>> BY MovePolicy DEF Doing
  <2> QED BY <2>1, AtCatalog DEF Base
<1>4. SpotOf(doing') = Position(c) BY <1>1, Kinds
<1>5. Midway(c)' BY <1>1, <1>2 DEF Midway
<1> QED BY <1>2, <1>3, <1>4, <1>5, PastWithin

LEMMA PastLatest ==
    ASSUME Base, PastNow, Clean', RunNext, NEW c, GetLatest(c)
    PROVE  PastNow'
<1>1. PICK r : Fetches(<<"latest", c>>, r) /\ doing' = <<"latest.sig", c>> BY CleanLatest
<1>2. Grows /\ <<"latest", c>> \in DOMAIN got' BY <1>1, FetchGrows DEF Base
<1>0. doing = <<"latest", c>> BY MoveLatest DEF Doing
<1>3. c \in Public /\ SpotOf(doing) = Position(c) BY <1>0, AtCatalog DEF Base
<1>4. SpotOf(doing') = Position(c) BY <1>1, Kinds
<1>5. <<"policy", c>> \in DOMAIN got'
  <2>1. Midway(c) BY <1>3 DEF PastNow
  <2> QED BY <1>0, <1>2, <2>1 DEF Midway, Grows
<1>6. Midway(c)' BY <1>1, <1>5 DEF Midway
<1> QED BY <1>2, <1>3, <1>4, <1>6, PastWithin

LEMMA PastLatestSig ==
    ASSUME Base, PastNow, Clean', RunNext, NEW c, GetLatestSig(c)
    PROVE  PastNow'
<1>1. PICK r : Fetches(<<"latest.sig", c>>, r) /\ doing' = <<"newest", c>> BY CleanLatestSig
<1>2. Grows /\ <<"latest.sig", c>> \in DOMAIN got' BY <1>1, FetchGrows DEF Base
<1>0. doing = <<"latest.sig", c>> BY MoveLatestSig DEF Doing
<1>3. c \in Public /\ SpotOf(doing) = Position(c) BY <1>0, AtCatalog DEF Base
<1>4. SpotOf(doing') = Position(c) BY <1>1, Kinds
<1>5. <<"policy", c>> \in DOMAIN got'
  <2>1. Midway(c) BY <1>3 DEF PastNow
  <2> QED BY <1>0, <1>2, <2>1 DEF Midway, Grows
<1>6. Passed("snapshot.signature", <<c>>) \in found' BY CleanLatestSig
<1>7. Midway(c)' BY <1>2, <1>5, <1>6 DEF Midway, Passed
<1> QED BY <1>2, <1>3, <1>4, <1>7, PastWithin

(* From the newest sibling to the last, nothing of the catalog itself is left *)
(* to fetch.                                                                  *)
LEMMA PastSibling ==
    ASSUME Base, PastNow, Grows, NEW c \in Public,
           \/ doing = <<"newest", c>> \/ \E k : doing \in {<<"sibling", c, k>>, <<"sibling.sig", c, k>>},
           \/ \E n, k : doing' = Walk(c, n, k)
           \/ \E k : doing' = <<"sibling.sig", c, k>>
    PROVE  PastNow'
<1>1. SpotOf(doing) = Position(c) BY Kinds
<1>2. Midway(c) BY <1>1 DEF PastNow
<1>3. \/ doing' = <<"chain", c>>
      \/ \E k : doing' = <<"sibling", c, k>>
      \/ \E k : doing' = <<"sibling.sig", c, k>>
  <2>1. ASSUME NEW n, NEW k, doing' = Walk(c, n, k)
        PROVE  \/ doing' = <<"chain", c>> \/ \E j : doing' = <<"sibling", c, j>>
    BY <2>1, WalkIs
  <2> QED BY <2>1
<1>4. SpotOf(doing') = Position(c) BY <1>3, Kinds
<1>5. /\ <<"policy", c>> \in DOMAIN got' /\ <<"latest.sig", c>> \in DOMAIN got'
      /\ Passed("snapshot.signature", <<c>>) \in found'
  BY <1>2 DEF Midway, Grows
<1>6. Midway(c)' BY <1>5 DEF Midway, Passed
<1> QED BY <1>1, <1>4, <1>6, PastWithin

(* A catalog is done when its walk is, or when there was nothing to walk.     *)
LEMMA PastDone ==
    ASSUME Base, PastNow, Grows, NEW c \in Public, doing \in {<<"newest", c>>, <<"chain", c>>},
           doing' = NextCatalog(c), Walked(c), (\A k \in Lowest(L(c).seq)..(L(c).seq - 1) : <<"sibling", c, k>> \in DOMAIN got)
    PROVE  PastNow'
<1>1. SpotOf(doing) = Position(c) BY Kinds
<1>2. Midway(c) BY <1>1 DEF PastNow
<1>3. /\ <<"policy", c>> \in DOMAIN got /\ <<"latest.sig", c>> \in DOMAIN got
      /\ Passed("snapshot.signature", <<c>>) \in found
  BY <1>2 DEF Midway
<1>4. <<"latest", c>> \in DOMAIN got BY DEF Walked, Readable, Has
<1>5. CatalogDone(c)' BY <1>3, <1>4, DoneKept DEF CatalogDone
<1> QED BY <1>1, <1>5, PastNext

LEMMA PastRun ==
    ASSUME Base, PastInv, GoodInv, changes = 0, Clean, Clean', RunNext
    PROVE  PastNow'
<1>0. PastNow BY DEF PastInv
<1>1. CASE GetManifest BY <1>1, PastManifest
<1>2. CASE GetManifestSig BY <1>0, <1>2, PastManifestSig
<1>3. CASE GetPrivacy BY <1>0, <1>3, PastPrivacy
<1>4. ASSUME NEW c, GetPolicy(c) \/ GetLatest(c) \/ GetLatestSig(c) PROVE PastNow'
  BY <1>0, <1>4, PastPolicy, PastLatest, PastLatestSig
<1>5. ASSUME NEW c, GetNewest(c) PROVE PastNow'
  <2>1. PICK r : /\ Fetches(<<"sibling", c, L(c).seq>>, r)
                 /\ doing' = IF L(c).seq <= 1 THEN NextCatalog(c) ELSE Walk(c, L(c).seq, L(c).seq)
    BY <1>5, MoveNewest
  <2>2. Grows BY <2>1, FetchGrows DEF Base
  <2>3. doing = <<"newest", c>> BY <1>5, MoveNewest DEF Doing
  <2>4. c \in Public /\ Walked(c) BY <2>3, AtCatalog DEF Base
  <2>5. CASE L(c).seq <= 1
    <3>1. L(c).seq \in Nat /\ L(c).seq >= 1 BY <2>4, SeqRange DEF Base
    <3>2. L(c).seq = 1 BY <2>5, <3>1
    <3>3. Lowest(1) = 1 BY CatalogsFacts DEF Lowest
    <3>4. \A k \in Lowest(L(c).seq)..(L(c).seq - 1) : <<"sibling", c, k>> \in DOMAIN got BY <3>2, <3>3
    <3>5. doing' = NextCatalog(c) BY <2>1, <2>5
    <3> QED BY <1>0, <2>2, <2>3, <2>4, <3>4, <3>5, PastDone
  <2>6. CASE ~(L(c).seq <= 1)
    <3>1. doing' = Walk(c, L(c).seq, L(c).seq) BY <2>1, <2>6
    <3> QED BY <1>0, <2>2, <2>3, <2>4, <3>1, PastSibling
  <2> QED BY <2>5, <2>6
<1>6. ASSUME NEW c, NEW k, GetSibling(c, k) PROVE PastNow'
  <2>1. PICK r : /\ Fetches(<<"sibling", c, k>>, r)
                 /\ doing' = Walk(c, L(c).seq, k) \/ doing' = <<"sibling.sig", c, k>>
    BY <1>6, MoveSibling
  <2>2. Grows BY <2>1, FetchGrows DEF Base
  <2>3. doing = <<"sibling", c, k>> BY <1>6, MoveSibling DEF Doing
  <2>4. c \in Public BY <2>3, AtCatalog DEF Base
  <2> QED BY <1>0, <2>1, <2>2, <2>3, <2>4, PastSibling
<1>7. ASSUME NEW c, NEW k, GetSiblingSig(c, k) PROVE PastNow'
  <2>1. PICK r : Fetches(<<"sibling.sig", c, k>>, r) /\ doing' = Walk(c, L(c).seq, k)
    BY <1>7, MoveSiblingSig
  <2>2. Grows BY <2>1, FetchGrows DEF Base
  <2>3. doing = <<"sibling.sig", c, k>> BY <1>7, MoveSiblingSig DEF Doing
  <2>4. c \in Public BY <2>3, AtCatalog DEF Base
  <2> QED BY <1>0, <2>1, <2>2, <2>3, <2>4, PastSibling
<1>8. ASSUME NEW c, CheckChain(c) PROVE PastNow'
  <2>1. doing = <<"chain", c>> /\ got' = got /\ doing' = NextCatalog(c) BY <1>8, MoveChain DEF Doing
  <2>2. Grows BY <2>1, StillGrows DEF Base
  <2>3. c \in Public /\ WalkDone(c) BY <2>1, AtCatalog DEF Base
  <2> QED BY <1>0, <2>1, <2>2, <2>3, PastDone DEF WalkDone
<1>9. CASE ExamineEntries
  <2>1. doing = <<"entries">> /\ got' = got BY <1>9, MoveEntries DEF Doing
  <2>2. \E es : doing' = Presenting(es) BY <1>9, MoveEntries
  <2>3. doing' = End \/ \E es : doing' = <<"dests", es>> BY <2>2 DEF Presenting
  <2>4. SpotOf(doing') = Len(Order) + 1 BY <2>3, Kinds
  <2>5. SpotOf(doing) = Len(Order) + 1 BY <2>1, Kinds
  <2> QED BY <1>0, <2>1, <2>4, <2>5, StillGrows, PastEnd DEF Base
<1>10. ASSUME NEW c, NEW x, GetDest(x, c) PROVE PastNow'
  <2>1. PICK r : Fetches(<<"dest", x>>, r) /\ doing' = Presenting(doing[2] \ {<<c, x>>}) BY <1>10, MoveDest
  <2>2. Grows BY <2>1, FetchGrows DEF Base
  <2>3. doing' = End \/ \E es : doing' = <<"dests", es>> BY <2>1 DEF Presenting
  <2>4. SpotOf(doing') = Len(Order) + 1 BY <2>3, Kinds
  <2>5. SpotOf(doing) = Len(Order) + 1 BY <1>10, MoveDest, AtDests DEF Base
  <2> QED BY <1>0, <2>2, <2>4, <2>5, PastEnd
<1>11. CASE Finish
  <2>1. doing = End /\ doing' = End /\ got' = got BY <1>11 DEF Finish, Doing
  <2>2. SpotOf(doing) = Len(Order) + 1 /\ SpotOf(doing') = Len(Order) + 1 BY <2>1, Kinds
  <2> QED BY <1>0, <2>1, <2>2, StillGrows, PastEnd DEF Base
<1>12. CASE Start \/ Probe
  <2>1. doing' = M
    <3>1. CASE Start BY <3>1, CleanStart DEF Start
    <3>2. CASE Probe BY <3>2 DEF Probe, Base, Place
    <3> QED BY <1>12, <3>1, <3>2
  <2>2. SpotOf(doing') = 0 BY <2>1, Kinds
  <2>3. Public' = Public
    <3>1. flaws' = flaws BY RunKeeps
    <3> QED BY <3>1, PublicSame
  <2>4. \A d \in Public' : Position(d) \in Nat /\ Position(d) # 0 BY <2>3, Spots
  <2>5. \A d \in Public' : ~(Position(d) < SpotOf(doing')) /\ SpotOf(doing') # Position(d) BY <2>2, <2>4
  <2> QED BY <2>1, <2>5 DEF PastNow, M
<1> QED
  BY <1>1, <1>2, <1>3, <1>4, <1>5, <1>6, <1>7, <1>8, <1>9, <1>10, <1>11, <1>12 DEF RunNext

LEMMA PastStep == Base /\ PastInv /\ GoodInv /\ [Next]_vars => PastInv'
<1> SUFFICES ASSUME Base, PastInv, GoodInv, [Next]_vars PROVE PastInv' OBVIOUS
<1>1. CASE ProviderNext
  <2>1. changes' # 0 BY <1>1, ProviderKeeps DEF Base, Deployed
  <2> QED BY <2>1 DEF PastInv
<1>2. CASE UNCHANGED vars
  <2>1. UNCHANGED <<got, flaws, changes, found, doing>> BY <1>2 DEF vars, deployment
  <2>2. Clean' => Clean BY <2>1 DEF Clean
  <2>3. SUFFICES ASSUME changes = 0, Clean, PastNow PROVE PastNow' BY <2>1, <2>2 DEF PastInv
  <2>4. Grows BY <2>1 DEF Grows
  <2>5. Public' = Public BY <2>1, PublicSame
  <2>6. ASSUME NEW c \in Public, Position(c) < SpotOf(doing') PROVE CatalogDone(c)'
    <3>1. Position(c) < SpotOf(doing) BY <2>1, <2>6
    <3> QED BY <2>3, <2>4, <3>1, DoneKept DEF PastNow
  <2>7. ASSUME NEW c \in Public, SpotOf(doing') = Position(c) PROVE Midway(c)'
    <3>1. SpotOf(doing) = Position(c) BY <2>1, <2>7
    <3>2. Midway(c) BY <2>3, <3>1 DEF PastNow
    <3> QED BY <2>1, <3>2 DEF Midway, Passed
  <2>8. /\ doing' # M => M \in DOMAIN got'
        /\ doing' \notin {M, <<"manifest.sig">>} => <<"manifest.sig">> \in DOMAIN got'
        /\ doing' \notin {M, <<"manifest.sig">>, <<"privacy">>} => <<"privacy">> \in DOMAIN got'
    BY <2>1, <2>3 DEF PastNow, M
  <2> QED BY <2>5, <2>6, <2>7, <2>8 DEF PastNow, M
<1>3. CASE RunNext
  <2>1. changes' = changes /\ (Clean' => Clean) BY <1>3, RunKeeps, CleanBefore DEF Base
  <2> QED BY <1>3, <2>1, PastRun DEF PastInv
<1> QED BY <1>1, <1>2, <1>3 DEF Next, Over

(* A document that is known and has no flawed status was served.              *)
LEMMA KnownServed ==
    ASSUME StillServed, changes = 0, NEW u \in DOMAIN got, ~Unknown(u)
    PROVE  got[u] = Served(u)
<1>1. State(Answer("lost"), TRUE) = "unknown" /\ State(Answer("spent"), TRUE) = "unknown"
  <2>1. Answer("lost").st = "lost" /\ Answer("spent").st = "spent" BY DEF Answer
  <2> QED BY <2>1 DEF State
<1>2. got[u] \in {Served(u), Answer("lost"), Answer("spent")} BY DEF StillServed
<1> QED BY <1>1, <1>2 DEF Unknown

LEMMA LatestServed ==
    ASSUME StillServed, changes = 0, NEW c \in Catalogs, <<"latest", c>> \in DOMAIN got, ~Unknown(<<"latest", c>>),
           Fine(<<"latest", c>>, got[<<"latest", c>>])
    PROVE  Has(<<"latest", c>>)
<1>1. PICK u : u = <<"latest", c>> OBVIOUS
<1>2. got[u] = Served(u) BY <1>1, KnownServed
<1>3. ~Bad(u, Statuses) BY <1>1 DEF Fine
<1>4. Served(u) = Ok(Last(chain[c])) BY <1>1, <1>3, ServedIs DEF Bad
<1> QED BY <1>1, <1>2, <1>4 DEF Has, Ok

(* The destinations, once the run is at them.                                 *)
DestFlaws == {"size", "parse", "conflict", "unsure", "foreign-key", "unsigned", "foreign-signature", "signature"}
DestFine(c, x) ==
    /\ Spotless(<<"dest", x>>, DestFlaws)
    /\ Bad(<<"dest", x>>, {"changed"}) = Bad(Entry(c, x), {"pin"})
Pending(e) == doing[1] = "dests" /\ e \in doing[2]
DestInv ==
    changes = 0 /\ Clean /\ doing[1] \in {"dests", "end"} =>
        \A c \in Public : \A x \in Surviving(c) : Pending(<<c, x>>) \/ DestFine(c, x)

LEMMA EntriesAll ==
    ASSUME Base, StillServed, LossInv, Untouched, GoodInv, PastInv, changes = 0, Clean, doing = <<"entries">>,
           NEW c \in Public
    PROVE  c \in Verified /\ ~Unfetched(c) /\ Decodable(c) = Surviving(c)
<1>0. c \in Catalogs /\ Position(c) < Len(Order) + 1 BY Spots
<1>1. CatalogDone(c)
  <2>1. SpotOf(doing) = Len(Order) + 1 BY Kinds
  <2> QED BY <1>0, <2>1 DEF PastInv, PastNow
<1>2. c \in Verified BY <1>1 DEF CatalogDone, Verified
<1>3. /\ Fine(<<"latest", c>>, got[<<"latest", c>>]) /\ Fine(<<"latest.sig", c>>, got[<<"latest.sig", c>>])
  BY <1>1 DEF GoodInv, CatalogDone
<1>4. ~Unknown(<<"latest", c>>) BY <1>1 DEF LossInv, Excusable, Walking, CatalogDone
<1>5. Has(<<"latest", c>>) BY <1>0, <1>1, <1>3, <1>4, LatestServed DEF CatalogDone
<1>6. Founded1(c, Length[c], L(c)) BY <1>0, <1>5, StillSnapshot
<1>7. ~Bad(<<"snapshot", c, Length[c]>>, {"no-entries"}) BY <1>0, <1>3 DEF Fine, LatestFlaws
<1>8. <<<<"snapshot", c, Length[c]>>, "entry-count">> \notin flaws BY <1>0, <1>3 DEF Fine, ContentFlaws
<1>9. ~Bad(<<"snapshot", c, Length[c]>>, {"no-entries", "entry-count"}) BY <1>7, <1>8 DEF Bad
<1>10. ~IsBad(L(c), {"no-entries"}) /\ ~IsBad(L(c), {"no-entries", "entry-count"})
  BY <1>6, <1>7, <1>9, FoundedBad
<1> QED BY <1>2, <1>10 DEF Unfetched, Decodable, L

LEMMA DestEntries ==
    ASSUME Base, StillServed, LossInv, Untouched, GoodInv, PastInv, changes = 0, Clean, ExamineEntries
    PROVE  \A c \in Public : \A x \in Surviving(c) : doing'[1] = "dests" /\ <<c, x>> \in doing'[2]
<1>1. doing = <<"entries">> BY MoveEntries DEF Doing
<1>2. PICK es : es = UNION {{<<c, x>> : x \in Decodable(c)} : c \in {d \in Verified : ~Unfetched(d)}} OBVIOUS
<1>3. doing' = Presenting(es) BY <1>2, MoveEntries
<1>4. SUFFICES ASSUME NEW c \in Public, NEW x \in Surviving(c) PROVE doing'[1] = "dests" /\ <<c, x>> \in doing'[2]
  OBVIOUS
<1>5. c \in Verified /\ ~Unfetched(c) /\ x \in Decodable(c) BY <1>1, <1>4, EntriesAll
<1>6. <<c, x>> \in es BY <1>2, <1>5
<1>7. doing' = <<"dests", es>> BY <1>3, <1>6 DEF Presenting
<1> QED BY <1>6, <1>7

LEMMA DestFetched ==
    ASSUME StillServed', changes = 0, Clean', NEW x, NEW c, GetDest(x, c)
    PROVE  DestFine(c, x)
<1>1. PICK u : u = <<"dest", x>> OBVIOUS
<1>2. PICK r : Fetches(u, r) /\ State(r, FALSE) = "ok" BY <1>1, CleanDest
<1>3. ~Bad(u, Statuses) BY <1>2, StateOk, StillResponse
<1>4. /\ ~Bad(u, {"size"}) /\ ~Bad(u, {"parse"}) /\ ~Bad(u, {"conflict"}) /\ ~Bad(u, {"unsure"})
      /\ ~Bad(u, {"foreign-key", "unsigned", "foreign-signature"}) /\ ~Bad(u, {"signature"})
  BY <1>1, CleanDest
<1>5. \A n \in DestFlaws : ~Bad(u, {n}) BY <1>4 DEF Bad, DestFlaws
<1> QED BY <1>1, <1>3, <1>5, CleanDest DEF DestFine, Spotless

(* Until then the run is elsewhere.                                           *)
LEMMA FollowingKind == ASSUME NEW i \in Nat PROVE Following(i)[1] \notin {"dests", "end"}
<1>1. Following(i) = <<"entries">> \/ \E d : Following(i) = <<"policy", d>> BY FollowingIs
<1> QED BY <1>1

LEMMA DestsLater ==
    ASSUME Base, PastInv, GoodInv, changes = 0, Clean, Clean', RunNext,
           ~ExamineEntries, ~Finish, ~Probe, \A c, x : ~GetDest(x, c)
    PROVE  doing'[1] \notin {"dests", "end"}
<1>1. CASE GetManifest
  <2>1. doing' = <<"manifest.sig">> BY <1>1, CleanManifest
  <2> QED BY <2>1
<1>2. CASE GetManifestSig
  <2>1. doing' = <<"privacy">> BY <1>2, CleanManifestSig
  <2> QED BY <2>1
<1>3. CASE GetPrivacy
  <2>1. doing' = AfterPrivacy /\ doing = <<"privacy">> BY <1>3, MovePrivacy DEF Doing
  <2>2. M \in DOMAIN got BY <2>1 DEF PastInv, PastNow, M
  <2>3. Fine(M, got[M]) BY <2>2 DEF GoodInv
  <2>4. ~Bad(M, {"catalogs"}) BY <2>3 DEF Fine, Spotless, ManifestFlaws
  <2>5. doing' = Following(0) BY <2>1, <2>4 DEF AfterPrivacy
  <2> QED BY <2>5, FollowingKind
<1>4. ASSUME NEW c, GetPolicy(c) PROVE doing'[1] \notin {"dests", "end"}
  <2>1. doing' = <<"latest", c>> BY <1>4, CleanPolicy
  <2> QED BY <2>1
<1>5. ASSUME NEW c, GetLatest(c) PROVE doing'[1] \notin {"dests", "end"}
  <2>1. doing' = <<"latest.sig", c>> BY <1>5, CleanLatest
  <2> QED BY <2>1
<1>6. ASSUME NEW c, GetLatestSig(c) PROVE doing'[1] \notin {"dests", "end"}
  <2>1. doing' = <<"newest", c>> BY <1>6, CleanLatestSig
  <2> QED BY <2>1
<1>7. ASSUME NEW c \in Catalogs, doing' = NextCatalog(c) PROVE doing'[1] \notin {"dests", "end"}
  <2>1. Position(c) \in Nat BY PositionIs
  <2> QED BY <1>7, <2>1, FollowingKind DEF NextCatalog
<1>8. ASSUME NEW c, NEW n, NEW k, doing' = Walk(c, n, k) PROVE doing'[1] \notin {"dests", "end"}
  BY <1>8, WalkIs
<1>9. ASSUME NEW c \in Catalogs, GetNewest(c) PROVE doing'[1] \notin {"dests", "end"}
  <2>1. doing' = NextCatalog(c) \/ doing' = Walk(c, L(c).seq, L(c).seq) BY <1>9, MoveNewest
  <2> QED BY <1>7, <1>8, <2>1
<1>10. ASSUME NEW c, NEW k, GetSibling(c, k) PROVE doing'[1] \notin {"dests", "end"}
  <2>1. doing' = Walk(c, L(c).seq, k) \/ doing' = <<"sibling.sig", c, k>> BY <1>10, MoveSibling
  <2> QED BY <1>8, <2>1
<1>11. ASSUME NEW c, NEW k, GetSiblingSig(c, k) PROVE doing'[1] \notin {"dests", "end"}
  BY <1>8, <1>11, MoveSiblingSig
<1>12. ASSUME NEW c \in Catalogs, CheckChain(c) PROVE doing'[1] \notin {"dests", "end"} BY <1>7, <1>12, MoveChain
<1>13. CASE Start BY <1>13, CleanStart DEF Start, M
<1> QED
  BY <1>1, <1>2, <1>3, <1>4, <1>5, <1>6, <1>9, <1>10, <1>11, <1>12, <1>13 DEF RunNext

(* The judgements on the destinations do not change.                          *)
LEMMA DestKept ==
    ASSUME flaws' = flaws
    PROVE  /\ Public' = Public /\ \A c : Surviving(c)' = Surviving(c)
           /\ \A c, x : DestFine(c, x) => DestFine(c, x)'
<1>1. Public' = Public BY PublicSame
<1>2. \A c : Surviving(c)' = Surviving(c) BY DEF Surviving, Bad
<1>3. \A c, x : DestFine(c, x) => DestFine(c, x)' BY DEF DestFine, Spotless, Bad
<1> QED BY <1>1, <1>2, <1>3

LEMMA DestSame ==
    ASSUME DestInv, UNCHANGED <<changes, flaws, doing>>, Clean' => Clean
    PROVE  DestInv'
<1>1. SUFFICES ASSUME changes = 0, Clean, doing[1] \in {"dests", "end"}, NEW c \in Public, NEW x \in Surviving(c)
               PROVE  Pending(<<c, x>>)' \/ DestFine(c, x)'
  BY DestKept DEF DestInv
<1>2. Pending(<<c, x>>) \/ DestFine(c, x) BY <1>1 DEF DestInv
<1>3. Pending(<<c, x>>) => Pending(<<c, x>>)' BY DEF Pending
<1> QED BY <1>2, <1>3, DestKept

LEMMA DestAfter ==
    ASSUME DestInv, StillServed', flaws' = flaws, changes = 0, Clean, Clean', NEW y, NEW d, GetDest(y, d)
    PROVE  DestInv'
<1>1. doing[1] = "dests" BY MoveDest
<1>2. PICK es : es = doing[2] \ {<<d, y>>} OBVIOUS
<1>3. doing' = Presenting(es) BY <1>2, MoveDest
<1>4. DestFine(d, y) BY DestFetched
<1>5. SUFFICES ASSUME NEW c \in Public, NEW x \in Surviving(c) PROVE Pending(<<c, x>>)' \/ DestFine(c, x)'
  BY DestKept DEF DestInv
<1>6. CASE DestFine(c, x) BY <1>6, DestKept
<1>7. CASE ~DestFine(c, x)
  <2>1. <<c, x>> \in doing[2] BY <1>1, <1>7 DEF DestInv, Pending
  <2>2. <<c, x>> # <<d, y>> BY <1>4, <1>7
  <2>3. <<c, x>> \in es BY <1>2, <2>1, <2>2
  <2>4. doing' = <<"dests", es>> BY <1>3, <2>3 DEF Presenting
  <2> QED BY <2>3, <2>4 DEF Pending
<1> QED BY <1>6, <1>7

LEMMA DestStep ==
    Base /\ StillServed /\ LossInv /\ Untouched /\ GoodInv /\ PastInv /\ DestInv /\ [Next]_vars => DestInv'
<1> SUFFICES ASSUME Base, StillServed, LossInv, Untouched, GoodInv, PastInv, DestInv, [Next]_vars PROVE DestInv'
  OBVIOUS
<1>1. CASE ProviderNext
  <2>1. changes' # 0 BY <1>1, ProviderKeeps DEF Base, Deployed
  <2> QED BY <2>1 DEF DestInv
<1>2. CASE UNCHANGED vars
  <2>1. UNCHANGED <<changes, flaws, doing, found>> BY <1>2 DEF vars, deployment
  <2> QED BY <2>1, DestSame DEF Clean
<1>3. CASE RunNext
  <2>1. UNCHANGED <<flaws, changes>> /\ (Clean' => Clean) /\ StillServed'
    BY <1>3, RunKeeps, CleanBefore, StillStep DEF Base
  <2>2. SUFFICES ASSUME changes = 0, Clean, Clean' PROVE DestInv' BY <2>1 DEF DestInv
  <2>3. CASE ExamineEntries
    <3>1. \A c \in Public : \A x \in Surviving(c) : doing'[1] = "dests" /\ <<c, x>> \in doing'[2]
      BY <2>2, <2>3, DestEntries
    <3>2. \A c \in Public : \A x \in Surviving(c) : Pending(<<c, x>>)' BY <3>1 DEF Pending
    <3> QED BY <2>1, <3>2, DestKept DEF DestInv
  <2>4. ASSUME NEW y, NEW d, GetDest(y, d) PROVE DestInv' BY <2>1, <2>2, <2>4, DestAfter
  <2>5. CASE Finish BY <2>1, <2>5, DestSame DEF Finish
  <2>6. CASE Probe BY <2>1, <2>6, DestSame DEF Probe
  <2>7. CASE ~ExamineEntries /\ ~Finish /\ ~Probe /\ \A c, x : ~GetDest(x, c)
    <3>1. doing'[1] \notin {"dests", "end"} BY <1>3, <2>2, <2>7, DestsLater
    <3> QED BY <3>1 DEF DestInv
  <2> QED BY <2>3, <2>4, <2>5, <2>6, <2>7
<1> QED BY <1>1, <1>2, <1>3 DEF Next, Over

(* The first and the last checks of the run.                                  *)
CookieInv == phase = "done" /\ Clean => \A u \in Answered : ~Bad(u, {"cookie"})
UriInv == phase \in {"run", "done"} /\ Clean => ~Bad(M, {"uri"})

LEMMA EndsSame ==
    ASSUME CookieInv, UriInv, UNCHANGED <<phase, got, found, flaws>>
    PROVE  CookieInv' /\ UriInv'
BY DEF CookieInv, UriInv, Clean, Answered, Bad

LEMMA EndsStep == Base /\ CookieInv /\ UriInv /\ [Next]_vars => CookieInv' /\ UriInv'
<1> SUFFICES ASSUME Base, CookieInv, UriInv, [Next]_vars PROVE CookieInv' /\ UriInv' OBVIOUS
<1>1. CASE ProviderNext \/ UNCHANGED vars
  <2>1. UNCHANGED <<phase, got, found, flaws>> BY <1>1, ProviderKeeps DEF vars, Base
  <2> QED BY <2>1, EndsSame
<1>2. CASE RunNext
  <2>1. flaws' = flaws /\ (Clean' => Clean) BY <1>2, RunKeeps, CleanBefore DEF Base
  <2>2. Bad(M, {"uri"})' = Bad(M, {"uri"}) BY <2>1 DEF Bad, M
  <2>3. CASE Finish
    <3>1. phase = "run" /\ got' = got BY <2>3 DEF Finish, Doing
    <3>2. Clean' => \A u \in Answered : ~Bad(u, {"cookie"}) BY <2>3, CleanFinish
    <3>3. CookieInv' BY <2>1, <3>1, <3>2 DEF CookieInv, Answered, Bad
    <3> QED BY <2>1, <2>2, <3>1, <3>3 DEF UriInv
  <2>4. CASE Start
    <3>1. phase' = "run" BY <2>4 DEF Start
    <3>2. Clean' => ~Bad(M, {"uri"}) BY <2>4, CleanStart
    <3> QED BY <2>2, <3>1, <3>2 DEF CookieInv, UriInv
  <2>5. CASE Probe
    <3>1. phase' \in {"refused", "probed"} BY <2>5 DEF Probe
    <3> QED BY <3>1 DEF CookieInv, UriInv
  <2>6. CASE ~Finish /\ ~Start /\ ~Probe
    <3>1. phase = "run" /\ phase' = phase
      BY <1>2, <2>6 DEF RunNext, GetManifest, GetManifestSig, GetPrivacy, ExamineEntries, GetPolicy, GetLatest,
         GetLatestSig, GetNewest, CheckChain, GetSibling, GetSiblingSig, GetDest, Running, Doing
    <3> QED BY <2>1, <2>2, <3>1 DEF CookieInv, UriInv
  <2> QED BY <2>3, <2>4, <2>5, <2>6
<1> QED BY <1>1, <1>2 DEF Next, Over

LEMMA FlawsInit == Init => Flawed /\ GoodInv /\ PastInv /\ DestInv /\ CookieInv /\ UriInv
<1> SUFFICES ASSUME Init PROVE Flawed /\ GoodInv /\ PastInv /\ DestInv /\ CookieInv /\ UriInv OBVIOUS
<1>1. DOMAIN got = {} /\ doing = M /\ phase = "idle" /\ flaws \in FlawSets BY DEF Init
<1>2. SpotOf(doing) = 0 BY <1>1, Kinds
<1>3. \A c \in Public : ~(Position(c) < SpotOf(doing)) /\ SpotOf(doing) # Position(c) BY <1>2, Spots
<1>4. PastNow BY <1>1, <1>3 DEF PastNow, M
<1>5. doing[1] \notin {"dests", "end"} BY <1>1 DEF M
<1> QED BY <1>1, <1>4, <1>5 DEF Flawed, GoodInv, PastInv, DestInv, CookieInv, UriInv

(* What a run that is over, and clear, has shown of an untouched deployment.  *)
Cleared ==
    /\ {M, <<"manifest.sig">>, <<"privacy">>} \subseteq DOMAIN got
    /\ \A c \in Public : CatalogDone(c)
    /\ \A u \in DOMAIN got : ~Unknown(u) /\ Fine(u, got[u]) /\ got[u] = Served(u)
    /\ \A c \in Public : \A x \in Surviving(c) : DestFine(c, x)
    /\ \A u \in Answered : ~Bad(u, {"cookie"})
    /\ ~Bad(M, {"uri"})

LEMMA ClearedIs ==
    ASSUME Base, LossInv, StillServed, GoodInv, PastInv, DestInv, CookieInv, UriInv,
           phase = "done", changes = 0, Clean
    PROVE  Cleared
<1>1. doing = End BY DEF Base, Place
<1>2. SpotOf(doing) = Len(Order) + 1 BY <1>1, Kinds
<1>3. PastNow BY DEF PastInv
<1>4. {M, <<"manifest.sig">>, <<"privacy">>} \subseteq DOMAIN got BY <1>1, <1>3 DEF PastNow, M, End
<1>5. ASSUME NEW c \in Public PROVE CatalogDone(c)
  <2>1. Position(c) < Len(Order) + 1 BY Spots
  <2> QED BY <1>2, <1>3, <2>1 DEF PastNow
<1>6. ASSUME NEW u \in DOMAIN got PROVE ~Unknown(u) /\ Fine(u, got[u]) /\ got[u] = Served(u)
  <2>1. ~Excusable(u) BY <1>1 DEF Excusable, Walking, End
  <2>2. ~Unknown(u) BY <2>1 DEF LossInv
  <2>3. got[u] = Served(u) BY <2>2, KnownServed
  <2> QED BY <2>2, <2>3 DEF GoodInv
<1>7. ASSUME NEW c \in Public, NEW x \in Surviving(c) PROVE DestFine(c, x)
  <2>1. ~Pending(<<c, x>>) BY <1>1 DEF Pending, End
  <2>2. doing[1] = "end" BY <1>1 DEF End
  <2> QED BY <2>1, <2>2 DEF DestInv
<1> QED BY <1>4, <1>5, <1>6, <1>7 DEF Cleared, CookieInv, UriInv

(* A document that had to be served was answered.                             *)
LEMMA ClearedCookie ==
    ASSUME Cleared, NEW u \in DOMAIN got, ~Bad(u, Statuses),
           \/ u \in {M, <<"manifest.sig">>, <<"privacy">>}
           \/ \E c : u \in {<<"policy", c>>, <<"latest", c>>, <<"latest.sig", c>>}
    PROVE  ~Bad(u, {"cookie"})
<1>1. \E doc : Served(u) = Ok(doc) BY ServedIs DEF Bad
<1>2. Served(u).st = "200" BY <1>1 DEF Ok
<1>3. got[u].st = "200" BY <1>2 DEF Cleared
<1>4. u[1] # "dest" BY DEF M
<1> QED BY <1>3, <1>4 DEF Cleared, Answered

LEMMA ClearedLatest ==
    ASSUME Base, Untouched, StillServed, changes = 0, Cleared, NEW c \in Public
    PROVE  L(c).seq = Length[c]
<1>1. c \in Catalogs BY Spots
<1>2. PICK u : u = <<"latest", c>> OBVIOUS
<1>3. u \in DOMAIN got BY <1>2 DEF Cleared, CatalogDone
<1>4. ~Unknown(u) /\ Fine(u, got[u]) BY <1>3 DEF Cleared
<1>5. Has(<<"latest", c>>) BY <1>1, <1>2, <1>3, <1>4, LatestServed
<1> QED BY <1>1, <1>5, StillSnapshot

(* Document by document.                                                      *)
LEMMA ClearManifest == ASSUME Cleared PROVE \A n \in FlawNames(M) : <<M, n>> \notin flaws
<1>1. FlawNames(M) = {"uri", "cookie"} \cup ManifestFlaws \cup Statuses
                       \cup {"signature", "valid-until", "privacy-uri", "duplicate-id"}
  BY DEF FlawNames, M, ManifestFlaws
<1>2. M \in DOMAIN got /\ <<"manifest.sig">> \in DOMAIN got BY DEF Cleared
<1>3. Fine(M, got[M]) /\ Fine(<<"manifest.sig">>, got[<<"manifest.sig">>]) BY <1>2 DEF Cleared
<1>4. Spotless(M, ManifestFlaws) BY <1>3 DEF Fine
<1>5. \A n \in {"signature", "valid-until", "privacy-uri", "duplicate-id"} : ~Bad(M, {n}) BY <1>3 DEF Fine
<1>6. ~Bad(M, {"cookie"}) BY <1>2, <1>4, ClearedCookie DEF Spotless
<1>7. ~Bad(M, {"uri"}) BY DEF Cleared
<1> QED BY <1>1, <1>4, <1>5, <1>6, <1>7 DEF Bad, Spotless

LEMMA ClearPrivacy ==
    ASSUME Cleared, NEW u \in DOMAIN got, u = <<"privacy">> \/ \E c : u = <<"policy", c>>
    PROVE  \A n \in FlawNames(u) : <<u, n>> \notin flaws
<1>1. FlawNames(u) = {"size", "bytes", "cookie"} \cup Statuses BY DEF FlawNames
<1>2. Fine(u, got[u]) BY DEF Cleared
<1>3. Spotless(u, {"size", "bytes"}) BY <1>2 DEF Fine
<1>4. ~Bad(u, {"cookie"}) BY <1>3, ClearedCookie DEF Spotless
<1> QED BY <1>1, <1>3, <1>4 DEF Bad, Spotless

LEMMA ClearDetached ==
    ASSUME Cleared, NEW u \in DOMAIN got, ~Bad(u, {"404", "403"}),
           u = <<"manifest.sig">> \/ \E c \in Catalogs : u = <<"latest.sig", c>>
    PROVE  \A n \in FlawNames(u) : <<u, n>> \notin flaws
<1>1. FlawNames(u) = {"size", "form", "cookie"} \cup Statuses BY DEF FlawNames
<1>2. Fine(u, got[u]) BY DEF Cleared
<1>3. Detachable(u) BY <1>2 DEF Fine
<1>4. ~Bad(u, {"size", "form"}) /\ ~Bad(u, Statuses) BY <1>3 DEF Detachable
<1>5. ~Bad(u, {"cookie"}) BY <1>4, ClearedCookie
<1> QED BY <1>1, <1>4, <1>5 DEF Bad

LEMMA ClearLatest ==
    ASSUME Cleared, NEW c \in Public
    PROVE  /\ \A n \in FlawNames(<<"latest", c>>) : <<<<"latest", c>>, n>> \notin flaws
           /\ \A n \in FlawNames(<<"snapshot", c, Length[c]>>) \ {"window-short"} :
                <<<<"snapshot", c, Length[c]>>, n>> \notin flaws
           /\ \A x \in Listing[c] : ~Bad(Entry(c, x), {"fields"}) /\ ~Bad(Entry(c, x), {"uri"})
<1>0. c \in Catalogs BY Spots
<1>1. PICK u : u = <<"latest", c>> OBVIOUS
<1>2. PICK v : v = <<"latest.sig", c>> OBVIOUS
<1>3. u \in DOMAIN got /\ v \in DOMAIN got BY <1>1, <1>2 DEF Cleared, CatalogDone
<1>4. Fine(u, got[u]) /\ Fine(v, got[v]) BY <1>3 DEF Cleared
<1>5. ~Bad(u, Statuses) /\ \A n \in LatestFlaws : ~Bad(<<"snapshot", c, Length[c]>>, {n})
  BY <1>0, <1>1, <1>4 DEF Fine
<1>6. /\ \A n \in ContentFlaws : <<<<"snapshot", c, Length[c]>>, n>> \notin flaws
      /\ \A x \in Listing[c] : ~Bad(Entry(c, x), {"fields"}) /\ ~Bad(Entry(c, x), {"uri"})
  BY <1>0, <1>2, <1>4 DEF Fine
<1>7. ~Bad(u, {"cookie"}) BY <1>1, <1>3, <1>5, ClearedCookie
<1>8. FlawNames(u) = {"cookie"} \cup Statuses BY <1>1 DEF FlawNames
<1>9. FlawNames(<<"snapshot", c, Length[c]>>) = LatestFlaws \cup ContentFlaws \cup {"window-short"}
  BY DEF FlawNames, LatestFlaws, ContentFlaws
<1>10. \A n \in FlawNames(u) : <<u, n>> \notin flaws BY <1>5, <1>7, <1>8 DEF Bad
<1>11. \A n \in LatestFlaws : <<<<"snapshot", c, Length[c]>>, n>> \notin flaws BY <1>5 DEF Bad
<1> QED BY <1>1, <1>6, <1>9, <1>10, <1>11

LEMMA ClearSibling ==
    ASSUME Base, Untouched, StillServed, changes = 0, Cleared, NEW c \in Public,
           NEW k \in Lowest(Length[c])..(Length[c] - 1), k \in 1..MaxSeq,
           ~Bad(<<"sibling", c, k>>, {"404", "403", "section7"})
    PROVE  \A n \in SiblingGrave : <<<<"snapshot", c, k>>, n>> \notin flaws
<1>0. c \in Catalogs BY Spots
<1>1. PICK u : u = <<"sibling", c, k>> OBVIOUS
<1>2. u \in DOMAIN got
  <2>1. k \in Lowest(L(c).seq)..(L(c).seq - 1) BY ClearedLatest
  <2> QED BY <1>1, <2>1 DEF Cleared, CatalogDone
<1>3. got[u] = Served(u) /\ ~Unknown(u) /\ Fine(u, got[u]) BY <1>2 DEF Cleared
<1>4. ~Bad(u, Statuses)
  <2>1. SUFFICES ASSUME NEW st \in Statuses, <<u, st>> \in flaws, Served(u) = Answer(st) PROVE FALSE
    BY ServedIs DEF Bad
  <2>2. st \in {"5xx", "off-policy"} BY <1>1, <2>1 DEF Bad, Statuses
  <2>3. got[u].st = st BY <1>3, <2>1 DEF Answer
  <2> QED BY <1>3, <2>2, <2>3 DEF Unknown, State
<1>5. got[u].st = "200"
  <2>1. Served(u) = Filed(shelf[c][k], shelf[c][k]) BY <1>1, <1>4, ServedIs DEF Bad
  <2>2. k \in 1..Length[c] /\ k < Length[c] BY <1>0, CatalogsFacts
  <2>3. shelf[c][k] \in SnapshotSet BY <1>0, <2>2, FoundedIs
  <2>4. shelf[c][k] # None BY <2>3, CatalogsFacts
  <2> QED BY <1>3, <2>1, <2>4 DEF Filed, Ok
<1>6. k < Length[c] BY <1>0, CatalogsFacts
<1>7. \A n \in SiblingGrave : ~Bad(<<"snapshot", c, k>>, {n}) BY <1>0, <1>1, <1>3, <1>5, <1>6 DEF Fine
<1> QED BY <1>7 DEF Bad

LEMMA ClearDest ==
    ASSUME Cleared, NEW c \in Public, NEW x \in Surviving(c)
    PROVE  /\ ~Mispinned(c, x)
           /\ \A n \in FlawNames(<<"dest", x>>) \ {"changed"} : <<<<"dest", x>>, n>> \notin flaws
<1>1. PICK u : u = <<"dest", x>> OBVIOUS
<1>2. FlawNames(u) \ {"changed"} \subseteq DestFlaws \cup Statuses BY <1>1 DEF FlawNames, DestFlaws
<1>3. DestFine(c, x) BY DEF Cleared
<1>4. Spotless(u, DestFlaws) BY <1>1, <1>3 DEF DestFine
<1>5. \A n \in FlawNames(u) \ {"changed"} : <<u, n>> \notin flaws BY <1>2, <1>4 DEF Spotless, Bad
<1>6. ~Mispinned(c, x) BY <1>3 DEF DestFine, Mispinned
<1> QED BY <1>1, <1>5, <1>6

(* A grave flaw that such a run would have missed: there is none.             *)
LEMMA NoGrave ==
    ASSUME Base, Untouched, StillServed, changes = 0, Cleared,
           NEW doc \in Documents, NEW what \in FlawNames(doc), <<doc, what>> \in flaws, Grave(<<doc, what>>)
    PROVE  FALSE
<1>1. CASE doc = M BY <1>1, ClearManifest
<1>2. CASE doc = <<"manifest.sig">>
  <2>1. ~Bad(doc, {"404", "403"}) BY <1>2 DEF Grave
  <2>2. doc \in DOMAIN got BY <1>2 DEF Cleared
  <2> QED BY <1>2, <2>1, <2>2, ClearDetached
<1>3. CASE doc = <<"privacy">>
  <2>1. doc \in DOMAIN got BY <1>3 DEF Cleared
  <2> QED BY <1>3, <2>1, ClearPrivacy
<1>4. ASSUME NEW c \in Catalogs, doc = <<"descriptor", c>> PROVE FALSE
  <2>1. what \in {"fields", "uri"} BY <1>4 DEF Grave
  <2>2. PICK u : u = <<"manifest.sig">> OBVIOUS
  <2>3. Fine(u, got[u]) BY <2>2 DEF Cleared
  <2>4. ~Bad(Descriptor(c), {"fields"}) /\ ~Bad(Descriptor(c), {"uri"}) BY <2>2, <2>3 DEF Fine
  <2> QED BY <1>4, <2>1, <2>4 DEF Bad, Descriptor
<1>5. ASSUME NEW c \in Catalogs, doc = <<"policy", c>> PROVE FALSE
  <2>1. c \in Public BY <1>5 DEF Grave
  <2>2. doc \in DOMAIN got BY <1>5, <2>1 DEF Cleared, CatalogDone
  <2> QED BY <1>5, <2>2, ClearPrivacy
<1>6. ASSUME NEW c \in Catalogs, doc = <<"latest", c>> PROVE FALSE
  <2>1. c \in Public BY <1>6 DEF Grave
  <2> QED BY <1>6, <2>1, ClearLatest
<1>7. ASSUME NEW c \in Catalogs, doc = <<"latest.sig", c>> PROVE FALSE
  <2>1. c \in Public /\ ~Bad(doc, {"404", "403"}) BY <1>7 DEF Grave
  <2>2. doc \in DOMAIN got BY <1>7, <2>1 DEF Cleared, CatalogDone
  <2> QED BY <1>7, <2>1, <2>2, ClearDetached
<1>8. ASSUME NEW c \in Catalogs, NEW k \in 1..MaxSeq, doc = <<"snapshot", c, k>> PROVE FALSE
  <2>1. /\ c \in Public
        /\ \/ k = Length[c] /\ what # "window-short"
           \/ /\ k \in Lowest(Length[c])..(Length[c] - 1) /\ what \in SiblingGrave
              /\ ~Bad(<<"sibling", c, k>>, {"404", "403", "section7"})
    BY <1>8 DEF Grave
  <2>2. CASE k = Length[c] /\ what # "window-short" BY <1>8, <2>1, <2>2, ClearLatest
  <2>3. CASE /\ k \in Lowest(Length[c])..(Length[c] - 1) /\ what \in SiblingGrave
             /\ ~Bad(<<"sibling", c, k>>, {"404", "403", "section7"})
    BY <1>8, <2>1, <2>3, ClearSibling
  <2> QED BY <2>1, <2>2, <2>3
<1>9. ASSUME NEW c \in Catalogs, NEW k \in 1..MaxSeq, doc \in {<<"sibling", c, k>>, <<"sibling.sig", c, k>>}
      PROVE  FALSE
  BY <1>9 DEF Grave
<1>10. ASSUME NEW x \in Components, doc = <<"dest", x>> PROVE FALSE
  <2>1. PICK c \in Public : x \in Surviving(c) /\ (what = "changed" => Mispinned(c, x)) BY <1>10 DEF Grave
  <2> QED BY <1>10, <2>1, ClearDest
<1>11. ASSUME NEW c \in Catalogs, NEW x \in Listing[c], doc = Entry(c, x) PROVE FALSE
  <2>1. c \in Public /\ (what \in {"fields", "uri"} \/ (what = "pin" /\ Mispinned(c, x)))
    BY <1>11 DEF Grave, Entry
  <2>2. CASE what \in {"fields", "uri"}
    <3>1. ~Bad(Entry(c, x), {"fields"}) /\ ~Bad(Entry(c, x), {"uri"}) BY <2>1, ClearLatest
    <3> QED BY <1>11, <2>2, <3>1 DEF Bad
  <2>3. CASE Mispinned(c, x)
    <3>1. x \in Surviving(c) BY <2>3 DEF Mispinned
    <3> QED BY <2>1, <2>3, <3>1, ClearDest
  <2> QED BY <2>1, <2>2, <2>3
<1>12. \/ doc = M \/ doc = <<"manifest.sig">> \/ doc = <<"privacy">>
       \/ \E c \in Catalogs :
            \/ doc = <<"descriptor", c>> \/ doc = <<"policy", c>>
            \/ doc = <<"latest", c>> \/ doc = <<"latest.sig", c>>
       \/ \E c \in Catalogs, k \in 1..MaxSeq :
            doc = <<"snapshot", c, k>> \/ doc \in {<<"sibling", c, k>>, <<"sibling.sig", c, k>>}
       \/ \E x \in Components : doc = <<"dest", x>>
       \/ \E c \in Catalogs : \E x \in Listing[c] : doc = Entry(c, x)
  BY DEF Documents
<1> QED BY <1>1, <1>2, <1>3, <1>4, <1>5, <1>6, <1>7, <1>8, <1>9, <1>10, <1>11, <1>12

Flaws == Flawed /\ GoodInv /\ PastInv /\ DestInv /\ CookieInv /\ UriInv
Still == Timed /\ StillServed /\ Untouched

LEMMA FlawIs == Base /\ Typed /\ Still /\ LossInv /\ Flaws => FlawNeverCleared
<1> SUFFICES ASSUME Base, Typed, Still, LossInv, Flaws, phase = "done", changes = 0,
                    NEW f \in flaws, Grave(f)
             PROVE  Result \in {"fail", "inconclusive"}
  BY DEF FlawNeverCleared
<1>1. SUFFICES ASSUME Clean PROVE FALSE BY CountsDecides
<1>2. Cleared BY <1>1, ClearedIs DEF Still, Flaws
<1>3. f = <<f[1], f[2]>> /\ f[1] \in Documents /\ f[2] \in FlawNames(f[1])
  BY FlawsAssumption DEF Flaws, Flawed
<1>4. PICK doc \in Documents : \E what \in FlawNames(doc) : f = <<doc, what>> BY <1>3
<1>5. PICK what \in FlawNames(doc) : f = <<doc, what>> BY <1>4
<1> QED BY <1>1, <1>2, <1>5, NoGrave DEF Still

LEMMA FlawsStep == Base /\ Still /\ LossInv /\ Flaws /\ [Next]_vars => Still' /\ Flaws'
BY TimedStep, StillStep, UntouchedStep, FlawedStep, GoodStep, PastStep, DestStep, EndsStep DEF Still, Flaws

(* A deployment with a grave flaw is not cleared, whichever document has it   *)
(* and whatever else is wrong with it; nor is one of which a document could   *)
(* not be fetched.                                                            *)
THEOREM SpecNeverCleared == Spec => []NeverCleared
<1>1. Init => Base /\ Typed /\ Still /\ LossInv /\ Flaws
  BY BaseInit, TypedInit, UntouchedInit, LossInit, FlawsInit DEF Still, Flaws
<1>2. Base /\ Typed /\ Still /\ LossInv /\ Flaws /\ [Next]_vars
        => Base' /\ Typed' /\ Still' /\ LossInv' /\ Flaws'
  BY BaseStep, TypedStep, LossStep, FlawsStep
<1>3. Base /\ Typed /\ Still /\ LossInv /\ Flaws => NeverCleared
  BY TypeOKIs, LossIs, FlawIs DEF NeverCleared
<1> QED BY <1>1, <1>2, <1>3, PTL DEF Spec
================================================================================
