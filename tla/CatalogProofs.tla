----------------------------- MODULE CatalogProofs -----------------------------
(* What Catalog promises for every set of auditors and attestations, every    *)
(* size of the catalog and every number of concurrent refreshes.              *)
EXTENDS Catalog, FiniteSetTheorems, WellFoundedInduction, TLAPS

LEMMA ConstantFacts ==
    /\ Catalogs = {Auds, Svcs} /\ Auds # Svcs
    /\ Own \in Auditors /\ Hosted \subseteq Auditors
    /\ MaxEntries \in Nat /\ MaxEntries >= 1 /\ Window \in Nat /\ Gap \in Nat
    /\ MaxTime \in Nat /\ MaxEdits \in Nat /\ MaxMishaps \in Nat
    /\ Goroutines \subseteq Nat /\ Goroutines # {}
    /\ None \notin Nat /\ None \notin Snapshots
BY CatalogAssumption DEF Catalogs, Auds, Svcs, Auditors

(* A set of naturals has a least element.                                     *)
LEMMA Least ==
    ASSUME NEW S \in SUBSET Nat, S # {}
    PROVE  \E n \in S : \A m \in S : n <= m
<1>1. PICK n \in S : \A m \in S : ~ (<<m, n>> \in OpToRel(<, Nat))
  BY WFMin, NatLessThanWellFounded
<1>2. \A m \in S : ~(m < n)
  <2> SUFFICES ASSUME NEW m \in S, m < n PROVE FALSE OBVIOUS
  <2>1. <<m, n>> \in OpToRel(<, Nat) BY DEF OpToRel
  <2> QED BY <1>1, <2>1
<1> QED BY <1>2

-------------------------------------------------------------------------------
(* The cap of entries.                                                        *)

(* Entries of as many auditors.                                               *)
Distinct(es) ==
    /\ IsFiniteSet(es) /\ es \subseteq Entries
    /\ \A e \in es : e.id \in Auditors
    /\ \A e, f \in es : e.id = f.id => e = f

Ahead(es, e) == {f \in es : Before(f, e)}

(* The order is total.                                                        *)
LEMMA Order ==
    ASSUME NEW es, Distinct(es), NEW e \in es, NEW f \in es
    PROVE  /\ ~Before(e, e)
           /\ e # f => Before(e, f) \/ Before(f, e)
           /\ \A h \in es : Before(e, f) /\ Before(f, h) => Before(e, h)
<1>1. \A x \in es : x.at \in Nat /\ Rank(x.id) \in Nat
  BY CatalogAssumption DEF Distinct, Entries
<1>2. e # f => e.id # f.id /\ Rank(e.id) # Rank(f.id)
  BY CatalogAssumption DEF Distinct
<1>3. ~Before(e, e) BY <1>1 DEF Before
<1>4. e # f => Before(e, f) \/ Before(f, e) BY <1>1, <1>2 DEF Before
<1>5. \A h \in es : Before(e, f) /\ Before(f, h) => Before(e, h)
  BY <1>1 DEF Before
<1> QED BY <1>3, <1>4, <1>5

LEMMA AheadSize ==
    ASSUME NEW es, Distinct(es), NEW e \in es
    PROVE  /\ IsFiniteSet(Ahead(es, e)) /\ Cardinality(Ahead(es, e)) \in Nat
           /\ \A f \in es : Before(e, f) => Cardinality(Ahead(es, e)) < Cardinality(Ahead(es, f))
<1>1. \A x \in es : IsFiniteSet(Ahead(es, x)) /\ Cardinality(Ahead(es, x)) \in Nat
  <2> SUFFICES ASSUME NEW x \in es
               PROVE  IsFiniteSet(Ahead(es, x)) /\ Cardinality(Ahead(es, x)) \in Nat
    OBVIOUS
  <2>1. Ahead(es, x) \in SUBSET es BY DEF Ahead
  <2>2. IsFiniteSet(Ahead(es, x)) BY <2>1, FS_Subset DEF Distinct
  <2> QED BY <2>2, FS_CardinalityType
<1>2. ASSUME NEW f \in es, Before(e, f)
      PROVE  Cardinality(Ahead(es, e)) < Cardinality(Ahead(es, f))
  <2>1. Ahead(es, e) \in SUBSET Ahead(es, f) BY <1>2, Order DEF Ahead
  <2>2. e \in Ahead(es, f) /\ e \notin Ahead(es, e) BY <1>2, Order DEF Ahead
  <2>3. /\ Cardinality(Ahead(es, e)) <= Cardinality(Ahead(es, f))
        /\ Cardinality(Ahead(es, f)) # Cardinality(Ahead(es, e))
    BY <1>1, <2>1, <2>2, FS_Subset
  <2> QED BY <1>1, <2>3
<1> QED BY <1>1, <1>2

LEMMA CappedIs ==
    ASSUME NEW es
    PROVE  /\ Capped(es) \subseteq es
           /\ \A e \in es : e \in Capped(es) <=> Cardinality(Ahead(es, e)) < MaxEntries
BY DEF Capped, Ahead

(* The cap keeps no more entries than it may ...                              *)
LEMMA CapHolds ==
    ASSUME NEW es, Distinct(es)
    PROVE  /\ Distinct(Capped(es)) /\ Cardinality(Capped(es)) \in Nat
           /\ Cardinality(Capped(es)) <= MaxEntries
<1> DEFINE C == Capped(es)
           f == [e \in C |-> Cardinality(Ahead(es, e))]
           T == 0 .. (MaxEntries - 1)
<1>1. C \in SUBSET es BY CappedIs
<1>2. IsFiniteSet(C) /\ Cardinality(C) \in Nat
  BY <1>1, FS_Subset, FS_CardinalityType DEF Distinct
<1>3. Distinct(C) BY <1>1, <1>2 DEF Distinct
<1>4. \A e \in C : Cardinality(Ahead(es, e)) \in T
  BY <1>1, AheadSize, CappedIs, ConstantFacts
<1>5. \A e, h \in C : Cardinality(Ahead(es, e)) = Cardinality(Ahead(es, h)) => e = h
  <2> SUFFICES ASSUME NEW e \in C, NEW h \in C, e # h
               PROVE  Cardinality(Ahead(es, e)) # Cardinality(Ahead(es, h))
    OBVIOUS
  <2>1. e \in es /\ h \in es BY <1>1
  <2>2. Before(e, h) \/ Before(h, e) BY <2>1, Order
  <2>3. /\ Cardinality(Ahead(es, e)) \in Nat /\ Cardinality(Ahead(es, h)) \in Nat
        /\ Before(e, h) => Cardinality(Ahead(es, e)) < Cardinality(Ahead(es, h))
        /\ Before(h, e) => Cardinality(Ahead(es, h)) < Cardinality(Ahead(es, e))
    BY <2>1, AheadSize
  <2> QED BY <2>2, <2>3
<1> HIDE DEF C
<1>6. f \in Injection(C, T)
  <2>1. f \in [C -> T] BY <1>4
  <2>2. ASSUME NEW e \in C, NEW h \in C, f[e] = f[h] PROVE e = h BY <1>5, <2>2
  <2> HIDE DEF T, f
  <2> QED BY <2>1, <2>2 DEF Injection, IsInjective
<1>7. IsFiniteSet(T) /\ Cardinality(T) = MaxEntries BY FS_Interval, ConstantFacts
<1> HIDE DEF T, f
<1>8. Cardinality(C) <= MaxEntries BY <1>6, <1>7, FS_Injection
<1> QED BY <1>2, <1>3, <1>8 DEF C

(* ... and as many, if it drops any.                                          *)
LEMMA CapFull ==
    ASSUME NEW es, Distinct(es), NEW e \in es, e \notin Capped(es)
    PROVE  Cardinality(Capped(es)) = MaxEntries
<1> DEFINE C == Capped(es)
           S == {Cardinality(Ahead(es, f)) : f \in es \ C}
<1>1. S \in SUBSET Nat /\ S # {} BY AheadSize
<1>2. PICK n \in S : \A m \in S : n <= m
  <2> HIDE DEF S
  <2> QED BY <1>1, Least
<1>3. PICK d \in es \ C : n = Cardinality(Ahead(es, d)) BY <1>2
<1>4. Ahead(es, d) \in SUBSET C
  <2> SUFFICES ASSUME NEW f \in Ahead(es, d), f \notin C PROVE FALSE
    OBVIOUS
  <2>1. f \in es /\ Before(f, d) BY DEF Ahead
  <2>2. /\ Cardinality(Ahead(es, f)) \in Nat /\ Cardinality(Ahead(es, d)) \in Nat
        /\ Cardinality(Ahead(es, f)) < Cardinality(Ahead(es, d))
    BY <1>3, <2>1, AheadSize
  <2>3. Cardinality(Ahead(es, f)) \in S BY <2>1
  <2> QED BY <1>2, <1>3, <2>2, <2>3
<1>5. IsFiniteSet(C) /\ Cardinality(C) \in Nat /\ Cardinality(C) <= MaxEntries
  BY CapHolds DEF Distinct
<1>6. Cardinality(Ahead(es, d)) <= Cardinality(C) BY <1>4, <1>5, FS_Subset
<1>7. ~(Cardinality(Ahead(es, d)) < MaxEntries) BY <1>3, CappedIs
<1>8. Cardinality(Ahead(es, d)) \in Nat BY <1>3, AheadSize
<1> HIDE DEF C, S
<1>9. Cardinality(C) = MaxEntries BY <1>5, <1>6, <1>7, <1>8, ConstantFacts
<1> QED BY <1>9 DEF C

(* What the cap keeps comes before what it drops.                             *)
LEMMA CapOrder ==
    ASSUME NEW es, Distinct(es), NEW e \in es, e \notin Capped(es), NEW f \in Capped(es)
    PROVE  Before(f, e)
<1>1. f \in es /\ f # e BY CappedIs
<1>2. CASE Before(e, f)
  <2>1. /\ Cardinality(Ahead(es, e)) \in Nat /\ Cardinality(Ahead(es, f)) \in Nat
        /\ Cardinality(Ahead(es, e)) < Cardinality(Ahead(es, f))
    BY <1>1, <1>2, AheadSize
  <2>2. Cardinality(Ahead(es, f)) < MaxEntries BY <1>1, CappedIs
  <2>3. Cardinality(Ahead(es, e)) < MaxEntries BY <2>1, <2>2, ConstantFacts
  <2> QED BY <2>3, CappedIs
<1> QED BY <1>1, <1>2, Order

-------------------------------------------------------------------------------
(* What a state looks like.                                                   *)
Whys == {"boot", "change", "loop"}
Shown == [Subjects -> (SUBSET Attestations) \cup {None}]

WaitJobs == [pc : {"wait"}, why : Whys]
ReadJobs == [ pc : {"read"}, why : Whys, at : Nat,
              prev : Snapshots \cup {None}, todo : SUBSET Auditors,
              found : SUBSET Entries ]
AudJobs == [ pc : {"sibling", "latest", "prune"}, why : Whys, cat : {Auds}, at : Nat,
             found : SUBSET Entries, snap : Snapshots ]
SvcJobs == [ pc : {"sibling", "latest", "prune"}, why : Whys, cat : {Svcs}, at : Nat,
             shown : Shown, snap : Snapshots ]
ServicesJobs == [pc : {"services"}, why : Whys]
FetchJobs == [pc : {"fetch"}, why : Whys, at : Nat, atts : SUBSET Attestations]
PagesJobs == [pc : {"pages"}, why : Whys, shown : Shown]
Jobs == {Idle} \cup WaitJobs \cup ReadJobs \cup AudJobs \cup SvcJobs
          \cup ServicesJobs \cup FetchJobs \cup PagesJobs

Shape ==
    /\ now \in 0..MaxTime
    /\ manifest \in [Auditors -> Nat \cup {None}]
    /\ active \subseteq Attestations
    /\ owed \subseteq Hosted /\ queued \in BOOLEAN /\ missed \in BOOLEAN
    /\ latest \in [Catalogs -> Snapshots \cup {None}]
    /\ kept \in [Catalogs -> SUBSET Snapshots]
    /\ run \in [Goroutines -> Jobs]

LEMMA JobKinds ==
    ASSUME NEW r \in Jobs
    PROVE  /\ r.pc = "idle" => r = Idle
           /\ r.pc = "wait" => r \in WaitJobs
           /\ r.pc = "read" => r \in ReadJobs
           /\ r.pc = "services" => r \in ServicesJobs
           /\ r.pc = "fetch" => r \in FetchJobs
           /\ r.pc = "pages" => r \in PagesJobs
           /\ r.pc \in {"sibling", "latest", "prune"} =>
                /\ r.cat \in Catalogs /\ r.snap \in Snapshots /\ r.at \in Nat
                /\ r.cat = Auds => r \in AudJobs
                /\ r.cat # Auds => r \in SvcJobs /\ r.cat = Svcs
           /\ r # Idle => r.why \in Whys
           /\ r.pc \in {"idle", "wait", "read", "sibling", "latest", "prune",
                         "services", "fetch", "pages"}
BY ConstantFacts
   DEF Jobs, Idle, WaitJobs, ReadJobs, AudJobs, SvcJobs, ServicesJobs, FetchJobs, PagesJobs

(* One refresh holds the mutex.                                               *)
Busy(r) == r.pc \notin {"idle", "wait"}
OneRuns(R) == \A g, h \in Goroutines : Busy(R[g]) /\ Busy(R[h]) => g = h

(* A step of the refresh that holds it, or takes it.                          *)
LEMMA RunnerStep ==
    ASSUME NEW R \in [Goroutines -> Jobs], OneRuns(R), NEW g \in Goroutines,
           Busy(R[g]) \/ (\A h \in Goroutines : ~Busy(R[h])), NEW J \in Jobs, NEW S,
           S = [R EXCEPT ![g] = J]
    PROVE  /\ S \in [Goroutines -> Jobs] /\ OneRuns(S) /\ S[g] = J
           /\ \A h \in Goroutines \ {g} : S[h] = R[h] /\ ~Busy(R[h])
<1>1. S \in [Goroutines -> Jobs] /\ S[g] = J OBVIOUS
<1>2. \A h \in Goroutines \ {g} : S[h] = R[h] /\ ~Busy(R[h])
  BY DEF OneRuns
<1>3. OneRuns(S) BY <1>1, <1>2 DEF OneRuns
<1> QED BY <1>1, <1>2, <1>3

(* A refresh is started.                                                      *)
LEMMA StartStep ==
    ASSUME Shape, NEW why \in Whys, Start(why)
    PROVE  \E g \in Goroutines : run[g] = Idle /\ run' = [run EXCEPT ![g] = Waiting(why)]
<1>1. Free \in SUBSET Nat /\ Free # {} BY ConstantFacts DEF Free, Start
<1>2. PICK g \in Free : \A h \in Free : g <= h BY <1>1, Least
<1>3. \E h \in Free : \A i \in Free : h <= i BY <1>2
<1> DEFINE m == CHOOSE h \in Free : \A i \in Free : h <= i
<1>4. m \in Free BY <1>3
<1>5. run' = [run EXCEPT ![m] = Waiting(why)] BY DEF Start
<1> QED BY <1>4, <1>5 DEF Free

(* The least goroutine waits after a start.                                   *)
LEMMA BootIs ==
    /\ Boot \in [Goroutines -> Jobs] /\ OneRuns(Boot)
    /\ \A g \in Goroutines : ~Busy(Boot[g]) /\ Boot[g] \in {Idle, Waiting("boot")}
    /\ \E g \in Goroutines : Boot[g].pc = "wait"
<1>1. PICK g \in Goroutines : \A h \in Goroutines : g <= h BY ConstantFacts, Least
<1>2. Boot[g] = Waiting("boot") BY <1>1 DEF Boot
<1>3. \A h \in Goroutines : Boot[h] \in {Idle, Waiting("boot")} BY DEF Boot
<1>4. Idle \in Jobs /\ Waiting("boot") \in Jobs /\ ~Busy(Idle) /\ ~Busy(Waiting("boot"))
  BY DEF Jobs, WaitJobs, Idle, Waiting, Busy, Whys
<1>5. Boot \in [Goroutines -> Jobs] BY <1>3, <1>4 DEF Boot
<1>6. Waiting("boot").pc = "wait" BY DEF Waiting
<1>7. \A h \in Goroutines : ~Busy(Boot[h]) BY <1>3, <1>4
<1> QED BY <1>2, <1>3, <1>5, <1>6, <1>7 DEF OneRuns

-------------------------------------------------------------------------------
(* What is found and what is signed.                                          *)
Times(es, t) == \A e \in es : e.at <= t

(* A snapshot that can be found in a file at time t.                          *)
SnapOK(c, s, t) ==
    /\ s \in Snapshots /\ s.seq # 0 /\ s.gen <= t
    /\ Times(s.entries, t)
    /\ s.seq # 1 => s.prev \in Bodies
    /\ c = Auds => Distinct(s.entries) /\ Cardinality(s.entries) <= MaxEntries

(* What a refresh found in the trees, after the snapshot prev.                *)
FoundOK(fs, prev, t) ==
    /\ Distinct(fs)
    /\ \A e \in fs : e.at = ListedAt(prev, e.id, t)

PrevOK(prev, t) ==
    prev # None => prev.entries \subseteq Entries /\ Times(prev.entries, t)

LEMMA ListedAtType ==
    ASSUME NEW prev, NEW t \in Nat, PrevOK(prev, t), NEW id, NEW u \in Nat, u <= t
    PROVE  ListedAt(prev, id, u) \in Nat /\ ListedAt(prev, id, u) <= t
<1>1. CASE prev # None /\ \E e \in prev.entries : e.id = id
  <2> DEFINE c == CHOOSE e \in prev.entries : e.id = id
  <2>1. c \in prev.entries BY <1>1
  <2>2. ListedAt(prev, id, u) = c.at BY <1>1 DEF ListedAt
  <2> HIDE DEF c
  <2>3. c.at \in Nat /\ c.at <= t BY <1>1, <2>1 DEF PrevOK, Times, Entries
  <2> QED BY <2>2, <2>3
<1>2. CASE ~(prev # None /\ \E e \in prev.entries : e.id = id)
  <2>1. ListedAt(prev, id, u) = u BY <1>2 DEF ListedAt
  <2> QED BY <2>1
<1> QED BY <1>1, <1>2

(* Who was listed keeps the time it was.                                      *)
LEMMA ListedAtIs ==
    ASSUME NEW prev, prev # None, Distinct(prev.entries), NEW t
    PROVE  /\ \A e \in prev.entries : ListedAt(prev, e.id, t) = e.at
           /\ \A id : id \notin {e.id : e \in prev.entries} => ListedAt(prev, id, t) = t
<1>1. ASSUME NEW e \in prev.entries PROVE ListedAt(prev, e.id, t) = e.at
  <2> DEFINE c == CHOOSE x \in prev.entries : x.id = e.id
  <2>1. c \in prev.entries /\ c.id = e.id OBVIOUS
  <2>2. ListedAt(prev, e.id, t) = c.at BY DEF ListedAt
  <2> HIDE DEF c
  <2>3. c = e BY <2>1 DEF Distinct
  <2> QED BY <2>2, <2>3
<1>2. ASSUME NEW id, id \notin {e.id : e \in prev.entries} PROVE ListedAt(prev, id, t) = t
  BY <1>2 DEF ListedAt
<1> QED BY <1>1, <1>2

(* The next snapshot may be signed.                                           *)
LEMMA SnapshotOK ==
    ASSUME NEW c, NEW prev \in Snapshots \cup {None}, NEW t \in Nat, NEW es \in SUBSET Entries,
           prev # None => SnapOK(c, prev, t), Times(es, t),
           c = Auds => Distinct(es) /\ Cardinality(es) <= MaxEntries,
           NEW gen \in Nat, gen <= t
    PROVE  SnapOK(c, Snapshot(prev, es, gen), t)
<1> DEFINE s == Snapshot(prev, es, gen)
<1>1. CASE prev = None
  <2>1. s = [seq |-> 1, gen |-> gen, entries |-> es, prev |-> None] BY <1>1 DEF Snapshot
  <2>2. s \in Snapshots BY <2>1 DEF Snapshots
  <2> QED BY <2>1, <2>2 DEF SnapOK
<1>2. CASE prev # None
  <2>1. prev \in Snapshots /\ prev.seq \in Nat /\ prev.seq # 0 BY <1>2 DEF SnapOK, Snapshots
  <2>2. Body(prev) \in Bodies BY <2>1 DEF Body, Bodies, Snapshots
  <2>3. s = [seq |-> prev.seq + 1, gen |-> gen, entries |-> es, prev |-> Body(prev)]
    BY <1>2 DEF Snapshot
  <2>4. s \in Snapshots BY <2>1, <2>2, <2>3 DEF Snapshots
  <2> QED BY <2>1, <2>2, <2>3, <2>4 DEF SnapOK
<1> QED BY <1>1, <1>2

LEMMA SnapLasts ==
    ASSUME NEW c, NEW s, NEW t \in Nat, SnapOK(c, s, t), NEW u \in Nat, t <= u
    PROVE  SnapOK(c, s, u)
<1>1. s.gen \in Nat /\ s.entries \subseteq Entries BY DEF SnapOK, Snapshots
<1>2. Times(s.entries, u)
  <2> SUFFICES ASSUME NEW e \in s.entries PROVE e.at <= u BY DEF Times
  <2>1. e.at \in Nat BY <1>1 DEF Entries
  <2> QED BY <2>1 DEF SnapOK, Times
<1> QED BY <1>1, <1>2 DEF SnapOK

(* What a refresh carries fits the files.                                     *)
JobOK(r, t, lat, kp) ==
    /\ r.pc = "read" =>
         /\ r.at = t /\ r.prev = lat[Auds] /\ FoundOK(r.found, lat[Auds], t)
         /\ \A e \in r.found : e.id \notin r.todo
    /\ r.pc = "fetch" => r.at <= t
    /\ r.pc \in {"sibling", "latest"} =>
         /\ r.at <= t /\ SnapOK(r.cat, r.snap, t)
         /\ r.snap = Snapshot(lat[r.cat], r.snap.entries, r.at)
         /\ r.cat = Auds =>
              FoundOK(r.found, lat[Auds], r.at) /\ r.snap.entries = Capped(r.found)
    /\ r.pc = "latest" => r.snap \in kp[r.cat]
    /\ r.pc = "prune" => r.at <= t /\ r.snap = lat[r.cat]

LEMMA RestOK ==
    ASSUME NEW r \in Jobs, ~Busy(r), NEW t, NEW lat, NEW kp
    PROVE  JobOK(r, t, lat, kp)
BY DEF Busy, JobOK

(* The files of a catalog: what ChainWalkable says step by step.              *)
Chained(f, K, t) ==
    \/ t > Expiry(f.prev.gen)
    \/ \E g \in K : g.seq = f.seq - 1 /\ Body(g) = f.prev

KeptOK(c, L, K, t) ==
    /\ \A f \in K : SnapOK(c, f, t)
    /\ \A f, g \in K : f.seq = g.seq => f = g
    /\ L # None => L \in K /\ \A f \in K : f.seq \in 2..L.seq => Chained(f, K, t)

(* Down from the latest, each sequence is there or one above it has expired.  *)
LEMMA WalkDown ==
    ASSUME NEW c, NEW L, L # None, NEW K, NEW t, KeptOK(c, L, K, t), NEW n \in 1..L.seq
    PROVE  \/ \E f \in K : f.seq = n
           \/ \E f \in K : f.seq \in (n + 1)..L.seq /\ t > Expiry(f.prev.gen)
<1> SUFFICES ASSUME \A f \in K : f.seq # n
             PROVE  \E f \in K : f.seq \in (n + 1)..L.seq /\ t > Expiry(f.prev.gen)
  OBVIOUS
<1> DEFINE S == {f.seq : f \in {x \in K : x.seq \in (n + 1)..L.seq}}
<1>1. L \in K /\ \A f \in K : f.seq \in Nat /\ f.seq # 0
  BY DEF KeptOK, SnapOK, Snapshots
<1>2. L.seq \in Nat /\ L.seq # n BY <1>1
<1>3. L.seq \in (n + 1)..L.seq BY <1>2
<1>4. S \in SUBSET Nat /\ S # {} BY <1>1, <1>3
<1>5. PICK m \in S : \A k \in S : m <= k
  <2> HIDE DEF S
  <2> QED BY <1>4, Least
<1>6. PICK f \in K : f.seq \in (n + 1)..L.seq /\ m = f.seq BY <1>5
<1>7. Chained(f, K, t) BY <1>2, <1>6 DEF KeptOK
<1>8. ASSUME NEW g \in K, g.seq = f.seq - 1 PROVE FALSE
  <2>1. g.seq \in n..L.seq /\ g.seq # n BY <1>1, <1>2, <1>6, <1>8
  <2>2. g.seq \in (n + 1)..L.seq BY <1>2, <2>1
  <2>3. g.seq \in S BY <2>2
  <2> QED BY <1>1, <1>5, <1>6, <1>8, <2>3
<1>9. t > Expiry(f.prev.gen) BY <1>7, <1>8 DEF Chained
<1> QED BY <1>6, <1>9

LEMMA KeptLasts ==
    ASSUME NEW c, NEW L, NEW K, NEW t \in Nat, KeptOK(c, L, K, t), NEW u \in Nat, t <= u
    PROVE  KeptOK(c, L, K, u)
<1>1. \A f \in K : SnapOK(c, f, u) BY SnapLasts DEF KeptOK
<1>2. ASSUME L # None, NEW f \in K, f.seq \in 2..L.seq
      PROVE  Chained(f, K, u)
  <2>1. Chained(f, K, t) BY <1>2 DEF KeptOK
  <2>2. f.prev \in Bodies BY <1>2 DEF KeptOK, SnapOK
  <2>3. f.prev.gen \in Nat BY <2>2 DEF Bodies
  <2>4. t > Expiry(f.prev.gen) => u > Expiry(f.prev.gen)
    BY <2>3, ConstantFacts DEF Expiry
  <2> QED BY <2>1, <2>4 DEF Chained
<1> QED BY <1>1, <1>2 DEF KeptOK

(* The sibling of the next snapshot: a file of that sequence, left by a       *)
(* refresh that failed, is replaced.                                          *)
LEMMA SiblingStep ==
    ASSUME NEW c, NEW L \in Snapshots \cup {None}, NEW K, NEW t \in Nat, KeptOK(c, L, K, t),
           NEW s, SnapOK(c, s, t), NEW x, s = Snapshot(L, s.entries, x)
    PROVE  KeptOK(c, L, {f \in K : f.seq # s.seq} \cup {s}, t)
<1> DEFINE K2 == {f \in K : f.seq # s.seq} \cup {s}
<1>1. \A f \in K2 : SnapOK(c, f, t) BY DEF KeptOK
<1>2. \A f, g \in K2 : f.seq = g.seq => f = g BY DEF KeptOK
<1>3. ASSUME L # None PROVE L \in K2
  <2>1. s.seq = L.seq + 1 BY <1>3 DEF Snapshot
  <2>2. L \in K /\ L.seq \in Nat BY <1>3 DEF KeptOK, Snapshots
  <2> QED BY <2>1, <2>2
<1>4. ASSUME L # None, NEW f \in K2, f.seq \in 2..L.seq
      PROVE  Chained(f, K2, t)
  <2>1. s.seq = L.seq + 1 BY <1>4 DEF Snapshot
  <2>2. L.seq \in Nat BY <1>4 DEF Snapshots
  <2>3. f \in K BY <1>4, <2>1, <2>2
  <2>4. Chained(f, K, t) BY <1>4, <2>3 DEF KeptOK
  <2>5. ASSUME NEW g \in K, g.seq = f.seq - 1 PROVE g \in K2
    <3>1. g.seq # s.seq BY <1>4, <2>1, <2>2, <2>5
    <3> QED BY <3>1
  <2> QED BY <2>4, <2>5 DEF Chained
<1> HIDE DEF K2
<1>5. KeptOK(c, L, K2, t) BY <1>1, <1>2, <1>3, <1>4 DEF KeptOK
<1> QED BY <1>5 DEF K2

(* The snapshot becomes the latest.                                           *)
LEMMA LatestStep ==
    ASSUME NEW c, NEW L \in Snapshots \cup {None}, NEW K, NEW t \in Nat, KeptOK(c, L, K, t),
           NEW s \in K, NEW x, s = Snapshot(L, s.entries, x)
    PROVE  KeptOK(c, s, K, t)
<1>1. \A f \in K : f.seq \in Nat BY DEF KeptOK, SnapOK, Snapshots
<1>2. ASSUME NEW f \in K, f.seq \in 2..s.seq PROVE Chained(f, K, t)
  <2>1. CASE L = None
    <3>1. s.seq = 1 BY <2>1 DEF Snapshot
    <3> QED BY <1>2, <3>1
  <2>2. CASE L # None
    <3>1. s.seq = L.seq + 1 /\ s.prev = Body(L) /\ L \in K /\ L.seq \in Nat
      BY <2>2 DEF Snapshot, KeptOK, Snapshots
    <3>2. CASE f.seq = s.seq
      <4>1. f = s BY <3>2 DEF KeptOK
      <4>2. L.seq = f.seq - 1 /\ Body(L) = f.prev BY <3>1, <4>1
      <4> QED BY <3>1, <4>2 DEF Chained
    <3>3. CASE f.seq # s.seq
      <4>1. f.seq \in 2..L.seq BY <1>1, <1>2, <3>1, <3>3
      <4> QED BY <2>2, <4>1 DEF KeptOK
    <3> QED BY <3>2, <3>3
  <2> QED BY <2>1, <2>2
<1> QED BY <1>2 DEF KeptOK

(* Expired files go.                                                          *)
LEMMA PruneStep ==
    ASSUME NEW c, NEW L, L # None, NEW K, NEW t \in Nat, KeptOK(c, L, K, t),
           NEW x \in Nat, x <= t, NEW K2,
           K2 = K \ {f \in K : f.seq # L.seq /\ x > Expiry(f.gen)}
    PROVE  KeptOK(c, L, K2, t)
<1>1. K2 \subseteq K /\ L \in K2 BY DEF KeptOK
<1>2. ASSUME NEW f \in K2, f.seq \in 2..L.seq PROVE Chained(f, K2, t)
  <2>1. Chained(f, K, t) BY <1>1, <1>2 DEF KeptOK
  <2>2. CASE t > Expiry(f.prev.gen) BY <2>2 DEF Chained
  <2>3. ASSUME NEW g \in K, g.seq = f.seq - 1, Body(g) = f.prev
        PROVE  Chained(f, K2, t)
    <3>1. CASE g \in K2 BY <2>3, <3>1 DEF Chained
    <3>2. CASE g \notin K2
      <4>1. x > Expiry(g.gen) BY <3>2
      <4>2. g.gen = f.prev.gen BY <2>3 DEF Body
      <4>3. g.gen \in Nat BY <2>3 DEF KeptOK, SnapOK, Snapshots
      <4>4. t > Expiry(g.gen) BY <4>1, <4>3, ConstantFacts DEF Expiry
      <4> QED BY <4>2, <4>4 DEF Chained
    <3> QED BY <3>1, <3>2
  <2> QED BY <2>1, <2>2, <2>3 DEF Chained
<1> QED BY <1>1, <1>2 DEF KeptOK

-------------------------------------------------------------------------------
(* No auditor is forgotten.                                                   *)
Valid(a, m, t) == m[a] # None /\ t < m[a]

(* The entries es say what auditor a's manifest says at time t, unless the    *)
(* catalog is full.                                                           *)
Shows(es, a, m, t) ==
    /\ \A e \in es : e.id = a => e.doc = m[a]
    /\ (Valid(a, m, t) /\ \A e \in es : e.id # a) => Cardinality(es) = MaxEntries

FoundFor(fs, a, m, t) ==
    /\ \A e \in fs : e.id = a => e.doc = m[a]
    /\ Valid(a, m, t) => \E e \in fs : e.id = a

(* A refresh that has not signed the catalog of auditors yet.                 *)
Building(r) ==
    \/ r.pc = "read"
    \/ r.pc \in {"sibling", "latest"} /\ r.cat = Auds

Catches(r, a, m, t) ==
    /\ r.pc = "read" => a \in r.todo \/ FoundFor(r.found, a, m, t)
    /\ (r.pc \in {"sibling", "latest"} /\ r.cat = Auds) => Shows(r.snap.entries, a, m, t)

Covers(L, a, m, t) == L # None /\ Shows(L.entries, a, m, t)

(* The refresh r will leave the catalog covering a; if it is not about to     *)
(* write one, the latest does.                                                *)
OnTrack(r, L, a, m, t) == Catches(r, a, m, t) /\ (~Building(r) => Covers(L, a, m, t))

Caught(a, ow, q, mi, R, L, m, t) ==
    \/ a \in ow \/ q \/ mi
    \/ \E g \in Goroutines : R[g].pc = "wait"
    \/ /\ \A g \in Goroutines : Catches(R[g], a, m, t)
       /\ (\A g \in Goroutines : ~Building(R[g])) => Covers(L, a, m, t)

LEMMA RestCatches ==
    ASSUME NEW r, ~Busy(r), NEW a, NEW m, NEW t
    PROVE  Catches(r, a, m, t) /\ ~Building(r)
BY DEF Busy, Catches, Building

LEMMA ShowsLasts ==
    ASSUME NEW es, NEW a \in Auditors, NEW m \in [Auditors -> Nat \cup {None}],
           NEW t \in Nat, Shows(es, a, m, t), NEW u \in Nat, t <= u
    PROVE  Shows(es, a, m, u)
<1>1. Valid(a, m, u) => Valid(a, m, t) BY ConstantFacts DEF Valid
<1> QED BY <1>1 DEF Shows

(* A step of the refresh that holds the mutex catches what it caught.         *)
LEMMA CaughtStep ==
    ASSUME NEW R \in [Goroutines -> Jobs], OneRuns(R), NEW g \in Goroutines, Busy(R[g]),
           NEW J, NEW S, S[g] = J, \A h \in Goroutines \ {g} : S[h] = R[h],
           NEW a, NEW ow, NEW q, NEW mi,
           NEW L, NEW M, NEW m, NEW t, Caught(a, ow, q, mi, R, L, m, t),
           OnTrack(R[g], L, a, m, t) => OnTrack(J, M, a, m, t)
    PROVE  Caught(a, ow, q, mi, S, M, m, t)
<1>1. S[g] = J /\ \A h \in Goroutines \ {g} : S[h] = R[h] /\ ~Busy(R[h])
  BY DEF OneRuns
<1>2. CASE a \in ow \/ q \/ mi BY <1>2 DEF Caught
<1>3. CASE \E h \in Goroutines : R[h].pc = "wait"
  <2>1. PICK h \in Goroutines : R[h].pc = "wait" BY <1>3
  <2>2. h # g BY <2>1 DEF Busy
  <2>3. S[h].pc = "wait" BY <1>1, <2>1, <2>2
  <2> QED BY <2>3 DEF Caught
<1>4. CASE /\ \A h \in Goroutines : Catches(R[h], a, m, t)
           /\ (\A h \in Goroutines : ~Building(R[h])) => Covers(L, a, m, t)
  <2>1. \A h \in Goroutines \ {g} : Catches(S[h], a, m, t) /\ ~Building(S[h]) /\ ~Building(R[h])
    BY <1>1, RestCatches
  <2>2. ~Building(R[g]) => Covers(L, a, m, t) BY <1>4, <2>1
  <2>3. OnTrack(R[g], L, a, m, t) BY <1>4, <2>2 DEF OnTrack
  <2>4. Catches(J, a, m, t) /\ (~Building(J) => Covers(M, a, m, t)) BY <2>3 DEF OnTrack
  <2>5. \A h \in Goroutines : Catches(S[h], a, m, t) BY <1>1, <2>1, <2>4
  <2>6. (\A h \in Goroutines : ~Building(S[h])) => Covers(M, a, m, t) BY <1>1, <2>4
  <2> QED BY <2>5, <2>6 DEF Caught
<1> QED BY <1>2, <1>3, <1>4 DEF Caught

-------------------------------------------------------------------------------
(* The inductive invariant.                                                   *)
JobsOK == \A g \in Goroutines : JobOK(run[g], now, latest, kept)
FilesOK == \A c \in Catalogs : KeptOK(c, latest[c], kept[c], now)
AllCaught == \A a \in Hosted :
    Caught(a, owed, queued, missed, run, latest[Auds], manifest, now)

IInv ==
    /\ Shape /\ OneRuns(run)
    /\ JobsOK /\ FilesOK
    /\ AllCaught
    /\ fired = last

LEMMA Initially == Init => IInv
<1> SUFFICES ASSUME Init PROVE IInv OBVIOUS
<1>1. now \in 0..MaxTime /\ manifest \in [Auditors -> Nat \cup {None}]
  BY ConstantFacts DEF Init
<1>2. latest \in [Catalogs -> Snapshots \cup {None}] /\ kept \in [Catalogs -> SUBSET Snapshots]
  BY DEF Init
<1>3. run = Boot /\ run \in [Goroutines -> Jobs] /\ OneRuns(run) BY BootIs DEF Init
<1>4. Shape BY <1>1, <1>2, <1>3 DEF Init, Shape
<1>5. JobsOK
  <2>1. \A g \in Goroutines : run[g] \in Jobs /\ ~Busy(run[g]) BY <1>3, BootIs
  <2> QED BY <2>1, RestOK DEF JobsOK
<1>6. FilesOK BY DEF Init, FilesOK, KeptOK
<1>7. AllCaught BY <1>3, BootIs DEF AllCaught, Caught
<1> QED BY <1>3, <1>4, <1>5, <1>6, <1>7 DEF IInv, Init

-------------------------------------------------------------------------------
(* A step of the refresh that holds the mutex.                                *)
LEMMA HolderStep ==
    ASSUME IInv, NEW g \in Goroutines, Busy(run[g]), NEW J \in Jobs,
           run' = [run EXCEPT ![g] = J],
           UNCHANGED <<now, trees, owed, throttle>>,
           latest' \in [Catalogs -> Snapshots \cup {None}],
           kept' \in [Catalogs -> SUBSET Snapshots],
           JobOK(J, now, latest', kept'),
           \A c \in Catalogs : KeptOK(c, latest'[c], kept'[c], now),
           missed' \in BOOLEAN, missed => missed',
           missed' \/ \A a \in Hosted : OnTrack(run[g], latest[Auds], a, manifest, now)
                                         => OnTrack(J, latest'[Auds], a, manifest, now)
    PROVE  IInv'
<1>1. run \in [Goroutines -> Jobs] /\ OneRuns(run) BY DEF IInv, Shape
<1>2. /\ run' \in [Goroutines -> Jobs] /\ OneRuns(run') /\ run'[g] = J
      /\ \A h \in Goroutines \ {g} : run'[h] = run[h] /\ ~Busy(run[h])
  BY <1>1, RunnerStep
<1>3. Shape' BY <1>2 DEF IInv, Shape, trees, throttle
<1>4. JobsOK'
  <2>1. \A h \in Goroutines \ {g} : JobOK(run'[h], now, latest', kept')
    BY <1>1, <1>2, RestOK
  <2>2. \A h \in Goroutines : JobOK(run'[h], now, latest', kept') BY <1>2, <2>1
  <2> QED BY <2>2 DEF JobsOK
<1>5. FilesOK' BY DEF FilesOK
<1>6. AllCaught'
  <2> SUFFICES ASSUME NEW a \in Hosted
               PROVE  Caught(a, owed, queued, missed', run', latest'[Auds], manifest, now)
    BY DEF AllCaught, trees, throttle
  <2>1. CASE missed' BY <2>1 DEF Caught
  <2>2. CASE ~missed'
    <3>1. missed = missed' BY <2>2 DEF IInv, Shape
    <3>2. Caught(a, owed, queued, missed', run, latest[Auds], manifest, now)
      BY <3>1 DEF IInv, AllCaught
    <3>3. OnTrack(run[g], latest[Auds], a, manifest, now)
            => OnTrack(J, latest'[Auds], a, manifest, now)
      BY <2>2
    <3>4. \A S, M, mi : (/\ S[g] = J /\ \A h \in Goroutines \ {g} : S[h] = run[h]
                         /\ OnTrack(run[g], latest[Auds], a, manifest, now)
                              => OnTrack(J, M, a, manifest, now)
                         /\ Caught(a, owed, queued, mi, run, latest[Auds], manifest, now))
                        => Caught(a, owed, queued, mi, S, M, manifest, now)
      <4> SUFFICES ASSUME NEW S, NEW M, NEW mi,
                          S[g] = J, \A h \in Goroutines \ {g} : S[h] = run[h],
                          OnTrack(run[g], latest[Auds], a, manifest, now)
                            => OnTrack(J, M, a, manifest, now),
                          Caught(a, owed, queued, mi, run, latest[Auds], manifest, now)
                   PROVE  Caught(a, owed, queued, mi, S, M, manifest, now)
        OBVIOUS
      <4> QED BY <1>1, CaughtStep
    <3> QED BY <1>2, <3>2, <3>3, <3>4
  <2> QED BY <2>1, <2>2
<1>7. (fired = last)' BY DEF IInv, throttle
<1> QED BY <1>2, <1>3, <1>4, <1>5, <1>6, <1>7 DEF IInv

LEMMA BeginStep ==
    ASSUME IInv, NEW g \in Goroutines, Begin(g)
    PROVE  IInv'
<1>1. /\ run \in [Goroutines -> Jobs] /\ OneRuns(run) /\ run[g] \in WaitJobs
      /\ \A h \in Goroutines : ~Busy(run[h])
  BY JobKinds DEF IInv, Shape, Begin, Running, Busy
<1> DEFINE J == [ pc |-> "read", why |-> run[g].why, at |-> now,
                  prev |-> latest[Auds], todo |-> Auditors, found |-> {} ]
<1>2. now \in Nat /\ latest[Auds] \in Snapshots \cup {None}
  BY ConstantFacts DEF IInv, Shape
<1>3. J \in ReadJobs BY <1>1, <1>2 DEF WaitJobs, ReadJobs
<1>4. J \in Jobs BY <1>3 DEF Jobs
<1>5. run' = [run EXCEPT ![g] = J] BY DEF Begin, Reading
<1> HIDE DEF J
<1>6. /\ run' \in [Goroutines -> Jobs] /\ OneRuns(run') /\ run'[g] = J
      /\ \A h \in Goroutines \ {g} : run'[h] = run[h] /\ ~Busy(run[h])
  BY <1>1, <1>4, <1>5, RunnerStep
<1>7. Shape' BY <1>6 DEF IInv, Shape, Begin, trees, files, throttle
<1>8. JobsOK'
  <2>1. Distinct({}) BY FS_EmptySet DEF Distinct
  <2>2. JobOK(J, now, latest, kept) BY <2>1 DEF J, JobOK, FoundOK
  <2>3. \A h \in Goroutines \ {g} : JobOK(run'[h], now, latest, kept) BY <1>1, <1>6, RestOK
  <2>4. \A h \in Goroutines : JobOK(run'[h], now, latest, kept) BY <1>6, <2>2, <2>3
  <2> QED BY <2>4 DEF JobsOK, Begin, files
<1>9. FilesOK' BY DEF IInv, FilesOK, Begin, files
<1>10. AllCaught'
  <2> SUFFICES ASSUME NEW a \in Hosted
               PROVE  Caught(a, owed, queued, missed', run', latest[Auds], manifest, now)
    BY DEF AllCaught, Begin, trees, files, throttle
  <2>1. Catches(J, a, manifest, now) /\ Building(J)
    BY ConstantFacts DEF J, Catches, Building
  <2>2. \A h \in Goroutines : Catches(run'[h], a, manifest, now)
    BY <1>6, <2>1, RestCatches
  <2> QED BY <1>6, <2>1, <2>2 DEF Caught
<1>11. (fired = last)' BY DEF IInv, Begin, throttle
<1> QED BY <1>6, <1>7, <1>8, <1>9, <1>10, <1>11 DEF IInv

LEMMA ReadManifestStep ==
    ASSUME IInv, NEW g \in Goroutines, ReadManifest(g)
    PROVE  IInv'
<1> DEFINE r == run[g]
           a == CHOOSE x \in r.todo : \A y \in r.todo : Rank(x) <= Rank(y)
           e == [ id |-> a, at |-> ListedAt(r.prev, a, r.at), doc |-> manifest[a],
                  status |-> None ]
           fs == IF Verifies(a, r.at) THEN r.found \cup {e} ELSE r.found
           J == [ pc |-> "read", why |-> r.why, at |-> r.at, prev |-> r.prev,
                  todo |-> r.todo \ {a}, found |-> fs ]
<1>1. /\ r \in ReadJobs /\ Busy(r) /\ r.todo # {} /\ r.pc = "read"
      /\ r.at = now /\ r.prev = latest[Auds] /\ FoundOK(r.found, latest[Auds], now)
      /\ \A x \in r.found : x.id \notin r.todo
  BY JobKinds DEF IInv, Shape, ReadManifest, Busy, JobsOK, JobOK
<1>2. now \in Nat /\ latest[Auds] \in Snapshots \cup {None}
  BY ConstantFacts DEF IInv, Shape
<1>3. a \in r.todo
  <2> DEFINE S == {Rank(x) : x \in r.todo}
  <2>1. r.todo \subseteq Auditors BY <1>1 DEF ReadJobs
  <2>2. S \in SUBSET Nat /\ S # {} BY <1>1, <2>1, CatalogAssumption
  <2>3. PICK n \in S : \A k \in S : n <= k
    <3> HIDE DEF S
    <3> QED BY <2>2, Least
  <2>4. \E x \in r.todo : \A y \in r.todo : Rank(x) <= Rank(y) BY <2>3
  <2> QED BY <2>4
<1>4. a \in Auditors BY <1>1, <1>3 DEF ReadJobs
<1>5. run' = [run EXCEPT ![g] = J]
  BY DEF ReadManifest, Reading
<1> HIDE DEF a
<1>6. PrevOK(latest[Auds], now)
  <2>1. latest[Auds] # None => SnapOK(Auds, latest[Auds], now)
    BY ConstantFacts DEF IInv, FilesOK, KeptOK
  <2> QED BY <2>1 DEF PrevOK, SnapOK, Snapshots
<1>7. Verifies(a, r.at) => e \in Entries
  <2>1. ListedAt(r.prev, a, r.at) \in Nat BY <1>1, <1>2, <1>6, ListedAtType
  <2>2. Verifies(a, r.at) => manifest[a] \in Nat BY <1>4 DEF Verifies, IInv, Shape
  <2> QED BY <1>4, <2>1, <2>2 DEF Entries
<1>8. FoundOK(fs, latest[Auds], now)
  <2>1. CASE ~Verifies(a, r.at) BY <1>1, <2>1
  <2>2. CASE Verifies(a, r.at)
    <3>1. e.id = a /\ e.at = ListedAt(latest[Auds], e.id, now) BY <1>1
    <3>2. IsFiniteSet(r.found) BY <1>1 DEF FoundOK, Distinct
    <3>3. IsFiniteSet(r.found \cup {e}) BY <3>2, FS_AddElement
    <3>4. \A x \in r.found : x.id # e.id BY <1>1, <1>3, <3>1
    <3>5. fs = r.found \cup {e} BY <2>2
    <3> HIDE DEF e, fs
    <3>6. Distinct(fs) BY <1>1, <1>4, <1>7, <2>2, <3>1, <3>3, <3>4, <3>5 DEF FoundOK, Distinct
    <3> QED BY <1>1, <3>1, <3>5, <3>6 DEF FoundOK
  <2> QED BY <2>1, <2>2
<1>9. J \in Jobs
  <2>1. fs \subseteq Entries BY <1>8 DEF FoundOK, Distinct
  <2>2. J \in ReadJobs BY <1>1, <2>1 DEF ReadJobs
  <2> QED BY <2>2 DEF Jobs
<1>10. JobOK(J, now, latest, kept)
  <2>1. \A x \in fs : x.id \notin r.todo \ {a} BY <1>1
  <2> QED BY <1>1, <1>8, <2>1 DEF JobOK
<1>11. ASSUME NEW b \in Hosted, OnTrack(r, latest[Auds], b, manifest, now)
       PROVE  OnTrack(J, latest[Auds], b, manifest, now)
  <2>1. b \in r.todo \/ FoundFor(r.found, b, manifest, now) BY <1>1, <1>11 DEF OnTrack, Catches
  <2>2. b \in r.todo \ {a} \/ FoundFor(fs, b, manifest, now)
    <3>1. CASE b = a
      <4>1. \A x \in fs : x.id = a => x.doc = manifest[a] BY <1>1, <1>3
      <4>2. Valid(a, manifest, now) => e \in fs /\ e.id = a BY <1>1 DEF Valid, Verifies
      <4> QED BY <3>1, <4>1, <4>2 DEF FoundFor
    <3>2. CASE b # a
      <4>1. \A x \in fs : x.id = b => x \in r.found BY <3>2
      <4>2. r.found \subseteq fs OBVIOUS
      <4> HIDE DEF fs
      <4> QED BY <2>1, <3>2, <4>1, <4>2 DEF FoundFor
    <3> QED BY <3>1, <3>2
  <2> HIDE DEF fs
  <2> QED BY <2>2 DEF OnTrack, Catches, Building
<1> HIDE DEF J
<1>12. /\ UNCHANGED <<now, trees, owed, throttle>> /\ latest' = latest /\ kept' = kept
       /\ missed' = missed
  BY DEF ReadManifest, files
<1>13. /\ latest' \in [Catalogs -> Snapshots \cup {None}] /\ kept' \in [Catalogs -> SUBSET Snapshots]
       /\ missed' \in BOOLEAN
  BY <1>12 DEF IInv, Shape
<1>14. \A c \in Catalogs : KeptOK(c, latest'[c], kept'[c], now) BY <1>12 DEF IInv, FilesOK
<1> QED BY <1>1, <1>5, <1>9, <1>10, <1>11, <1>12, <1>13, <1>14, HolderStep

(* Past the catalog of auditors nothing of it changes.                        *)
LEMMA PastBuilding ==
    ASSUME NEW r, ~Building(r), NEW J, ~Building(J),
           NEW L, NEW a, NEW m, NEW t, OnTrack(r, L, a, m, t)
    PROVE  OnTrack(J, L, a, m, t)
BY DEF OnTrack, Catches, Building

(* A step that writes no file.                                                *)
LEMMA FilesStay ==
    ASSUME IInv, NEW g \in Goroutines, Busy(run[g]), NEW J \in Jobs,
           run' = [run EXCEPT ![g] = J],
           UNCHANGED <<now, trees, owed, throttle, latest, kept>>,
           JobOK(J, now, latest, kept),
           \/ missed'
           \/ /\ missed' = missed
              /\ \A a \in Hosted : OnTrack(run[g], latest[Auds], a, manifest, now)
                                    => OnTrack(J, latest[Auds], a, manifest, now),
           missed' \in BOOLEAN
    PROVE  IInv'
<1>1. /\ latest' \in [Catalogs -> Snapshots \cup {None}] /\ kept' \in [Catalogs -> SUBSET Snapshots]
      /\ missed => missed' /\ latest' = latest /\ kept' = kept
  BY DEF IInv, Shape
<1>2. \A c \in Catalogs : KeptOK(c, latest'[c], kept'[c], now) BY <1>1 DEF IInv, FilesOK
<1>3. JobOK(J, now, latest', kept') BY <1>1
<1>4. missed' \/ \A a \in Hosted : OnTrack(run[g], latest[Auds], a, manifest, now)
                                     => OnTrack(J, latest'[Auds], a, manifest, now)
  BY <1>1
<1> QED BY <1>1, <1>2, <1>3, <1>4, HolderStep

LEMMA ServicesJob ==
    ASSUME NEW why \in Whys, NEW J, J = [pc |-> "services", why |-> why]
    PROVE  /\ J \in Jobs /\ ~Building(J) /\ J.pc = "services"
           /\ \A t, lat, kp : JobOK(J, t, lat, kp)
BY DEF Jobs, ServicesJobs, Building, JobOK

LEMMA IdleJob ==
    /\ Idle \in Jobs /\ ~Building(Idle)
    /\ \A t, lat, kp : JobOK(Idle, t, lat, kp)
BY DEF Jobs, Idle, Building, JobOK

LEMMA PagesJob ==
    ASSUME NEW why \in Whys, NEW shown \in Shown, NEW J,
           J = [pc |-> "pages", why |-> why, shown |-> shown]
    PROVE  /\ J \in Jobs /\ ~Building(J)
           /\ \A t, lat, kp : JobOK(J, t, lat, kp)
BY DEF Jobs, PagesJobs, Building, JobOK

LEMMA BuildAuditorsStep ==
    ASSUME IInv, NEW g \in Goroutines, BuildAuditors(g)
    PROVE  IInv'
<1> DEFINE r == run[g]
           es == Capped(r.found)
<1>1. /\ r \in ReadJobs /\ Busy(r) /\ r.todo = {} /\ r.pc = "read" /\ r.why \in Whys
      /\ r.at = now /\ r.prev = latest[Auds] /\ FoundOK(r.found, latest[Auds], now)
  BY JobKinds DEF IInv, Shape, BuildAuditors, Busy, JobsOK, JobOK, Idle
<1>2. now \in Nat /\ latest[Auds] \in Snapshots \cup {None}
  BY ConstantFacts DEF IInv, Shape
<1>3. /\ UNCHANGED <<now, trees, owed, throttle, latest, kept>>
      /\ missed' = missed /\ missed' \in BOOLEAN
  BY DEF BuildAuditors, files, IInv, Shape
<1>4. latest[Auds] # None => SnapOK(Auds, latest[Auds], now)
  BY ConstantFacts DEF IInv, FilesOK, KeptOK
<1>5. /\ Distinct(es) /\ Cardinality(es) <= MaxEntries
      /\ es \subseteq r.found /\ es \in SUBSET Entries
  BY <1>1, CapHolds, CappedIs DEF FoundOK, Distinct
<1>6. ASSUME NEW a \in Hosted, OnTrack(r, latest[Auds], a, manifest, now)
      PROVE  Shows(es, a, manifest, now)
  <2>1. FoundFor(r.found, a, manifest, now) BY <1>1, <1>6 DEF OnTrack, Catches
  <2>2. \A e \in es : e.id = a => e.doc = manifest[a] BY <1>5, <2>1 DEF FoundFor
  <2>3. ASSUME Valid(a, manifest, now), \A e \in es : e.id # a
        PROVE  Cardinality(es) = MaxEntries
    <3>1. PICK e \in r.found : e.id = a BY <2>1, <2>3 DEF FoundFor
    <3>2. e \notin es BY <2>3, <3>1
    <3>3. Distinct(r.found) BY <1>1 DEF FoundOK
    <3> QED BY <3>2, <3>3, CapFull
  <2> QED BY <2>2, <2>3 DEF Shows
<1>7. CASE Current(r.prev, es, r.at)
  <2> DEFINE J == [pc |-> "services", why |-> r.why]
  <2>1. run' = [run EXCEPT ![g] = J] BY <1>7 DEF BuildAuditors, ToServices
  <2>2. latest[Auds] # None /\ latest[Auds].entries = es BY <1>1, <1>7 DEF Current
  <2>3. J \in Jobs /\ ~Building(J) /\ J.pc = "services" /\ JobOK(J, now, latest, kept)
    BY <1>1, ServicesJob
  <2> HIDE DEF J, es, r
  <2>4. ASSUME NEW a \in Hosted, OnTrack(r, latest[Auds], a, manifest, now)
        PROVE  OnTrack(J, latest[Auds], a, manifest, now)
    <3>1. Covers(latest[Auds], a, manifest, now) BY <1>6, <2>2, <2>4 DEF Covers
    <3> QED BY <2>3, <3>1 DEF OnTrack, Catches
  <2> USE DEF r
  <2> QED BY <1>1, <1>3, <2>1, <2>3, <2>4, FilesStay
<1>8. CASE ~Current(r.prev, es, r.at)
  <2> DEFINE s == Snapshot(r.prev, es, r.at)
             J == [ pc |-> "sibling", why |-> r.why, cat |-> Auds, at |-> r.at,
                    found |-> r.found, snap |-> s ]
  <2>1. run' = [run EXCEPT ![g] = J] BY <1>8 DEF BuildAuditors
  <2>2. s = Snapshot(latest[Auds], es, now) /\ s.entries = es BY <1>1 DEF Snapshot
  <2>3. Times(es, now)
    <3>1. PrevOK(latest[Auds], now) BY <1>4 DEF PrevOK, SnapOK, Snapshots
    <3>2. \A e \in r.found : e.at <= now BY <1>1, <1>2, <3>1, ListedAtType DEF FoundOK
    <3> QED BY <1>5, <3>2 DEF Times
  <2>4. SnapOK(Auds, s, now)
    <3> HIDE DEF es, s
    <3> QED BY <1>2, <1>4, <1>5, <2>2, <2>3, SnapshotOK
  <2>5. J \in Jobs
    <3>1. s \in Snapshots BY <2>4 DEF SnapOK
    <3> HIDE DEF s
    <3>2. J \in AudJobs BY <1>1, <3>1 DEF AudJobs, ReadJobs
    <3> QED BY <3>2 DEF Jobs
  <2> HIDE DEF s
  <2>6. JobOK(J, now, latest, kept)
    <3>1. J.pc = "sibling" /\ J.at = now /\ J.cat = Auds /\ J.snap = s /\ J.found = r.found
      BY <1>1
    <3> HIDE DEF J
    <3> QED BY <1>1, <1>2, <2>2, <2>4, <3>1 DEF JobOK
  <2>7. ASSUME NEW a \in Hosted, OnTrack(r, latest[Auds], a, manifest, now)
        PROVE  OnTrack(J, latest[Auds], a, manifest, now)
    <3>1. Shows(s.entries, a, manifest, now) BY <1>6, <2>2, <2>7
    <3>2. J.pc = "sibling" /\ J.cat = Auds /\ J.snap = s OBVIOUS
    <3> HIDE DEF J
    <3> QED BY <3>1, <3>2 DEF OnTrack, Catches, Building
  <2> HIDE DEF J
  <2> QED BY <1>1, <1>3, <2>1, <2>5, <2>6, <2>7, FilesStay
<1> QED BY <1>7, <1>8

LEMMA ReadAttestationsStep ==
    ASSUME IInv, NEW g \in Goroutines, ReadAttestations(g)
    PROVE  IInv'
<1> DEFINE J == [pc |-> "fetch", why |-> run[g].why, at |-> now, atts |-> Credited(now)]
<1>1. run[g] \in ServicesJobs /\ Busy(run[g]) /\ ~Building(run[g])
  BY JobKinds DEF IInv, Shape, ReadAttestations, Busy, Building
<1>2. now \in Nat BY ConstantFacts DEF IInv, Shape
<1>3. Credited(now) \subseteq Attestations BY DEF Credited, IInv, Shape
<1>4. J \in FetchJobs BY <1>1, <1>2, <1>3 DEF FetchJobs, ServicesJobs
<1>5. J \in Jobs /\ ~Building(J) BY <1>4 DEF Jobs, Building
<1>6. JobOK(J, now, latest, kept) BY <1>2 DEF JobOK
<1>7. run' = [run EXCEPT ![g] = J] BY DEF ReadAttestations
<1>8. /\ UNCHANGED <<now, trees, owed, throttle, latest, kept>>
      /\ missed' = missed /\ missed' \in BOOLEAN
  BY DEF ReadAttestations, files, IInv, Shape
<1> HIDE DEF J
<1> QED BY <1>1, <1>5, <1>6, <1>7, <1>8, PastBuilding, FilesStay

LEMMA FetchDirectoryStep ==
    ASSUME IInv, NEW g \in Goroutines, FetchDirectory(g)
    PROVE  IInv'
<1> DEFINE r == run[g]
           prev == latest[Svcs]
           es == ServiceEntries(prev, r.atts, world, r.at)
           shown == [ s \in Subjects |-> IF s \in Listed(r.atts, world)
                                         THEN About(r.atts, s) ELSE None ]
<1>1. /\ r \in FetchJobs /\ Busy(r) /\ r.pc = "fetch" /\ ~Building(r)
      /\ r.why \in Whys /\ r.at \in Nat /\ r.at <= now /\ r.atts \subseteq Attestations
  BY JobKinds DEF IInv, Shape, FetchDirectory, Busy, JobsOK, JobOK, Building, FetchJobs
<1>2. now \in Nat /\ latest[Svcs] \in Snapshots \cup {None}
  BY ConstantFacts DEF IInv, Shape
<1>3. /\ UNCHANGED <<now, trees, owed, throttle, latest, kept>>
      /\ missed' = missed /\ missed' \in BOOLEAN
  BY DEF FetchDirectory, files, IInv, Shape
<1>4. shown \in Shown BY <1>1 DEF Shown, About
<1>5. CASE world = None
  <2>1. run' = [run EXCEPT ![g] = Idle] BY <1>5 DEF FetchDirectory, Finish
  <2> QED BY <1>1, <1>3, <2>1, IdleJob, PastBuilding, FilesStay
<1>6. CASE world # None /\ Current(prev, es, r.at)
  <2> DEFINE J == [pc |-> "pages", why |-> r.why, shown |-> shown]
  <2>1. run' = [run EXCEPT ![g] = J] BY <1>6 DEF FetchDirectory
  <2> HIDE DEF shown
  <2>2. J \in Jobs /\ ~Building(J) /\ JobOK(J, now, latest, kept) BY <1>1, <1>4, PagesJob
  <2> HIDE DEF J
  <2> QED BY <1>1, <1>3, <2>1, <2>2, PastBuilding, FilesStay
<1>7. CASE world # None /\ ~Current(prev, es, r.at)
  <2> DEFINE s == Snapshot(prev, es, r.at)
             J == [ pc |-> "sibling", why |-> r.why, cat |-> Svcs, at |-> r.at,
                    shown |-> shown, snap |-> s ]
  <2>1. run' = [run EXCEPT ![g] = J] BY <1>7 DEF FetchDirectory
  <2>2. prev # None => SnapOK(Svcs, prev, now)
    BY ConstantFacts DEF IInv, FilesOK, KeptOK
  <2>3. PrevOK(prev, now) BY <2>2 DEF PrevOK, SnapOK, Snapshots
  <2>4. ASSUME NEW e \in es PROVE e \in Entries /\ e.at <= now
    <3>1. PICK x \in Subjects :
            e = [ id |-> x, at |-> ListedAt(prev, x, r.at), doc |-> x,
                  status |-> StatusOf(About(r.atts, x)) ]
      BY DEF ServiceEntries, Listed
    <3>2. ListedAt(prev, x, r.at) \in Nat /\ ListedAt(prev, x, r.at) <= now
      <4> HIDE DEF prev, r
      <4> QED BY <1>1, <1>2, <2>3, ListedAtType
    <3>3. StatusOf(About(r.atts, x)) \in {"warning", "review", None} BY DEF StatusOf
    <3> QED BY <3>1, <3>2, <3>3 DEF Entries
  <2>5. es \in SUBSET Entries /\ Times(es, now) BY <2>4 DEF Times
  <2>6. SnapOK(Svcs, s, now) /\ s.entries = es
    <3>1. s.entries = es BY DEF Snapshot
    <3> HIDE DEF es, prev, r
    <3> QED BY <1>1, <1>2, <2>2, <2>5, <3>1, SnapshotOK, ConstantFacts DEF prev
  <2> HIDE DEF es, shown
  <2>7. s = Snapshot(latest[Svcs], s.entries, r.at) BY <2>6
  <2> HIDE DEF s
  <2>8. s \in Snapshots BY <2>6 DEF SnapOK
  <2>9. J \in SvcJobs BY <1>1, <1>4, <2>8 DEF SvcJobs
  <2>10. J \in Jobs BY <2>9 DEF Jobs
  <2>11. /\ J.pc = "sibling" /\ J.at = r.at /\ J.cat = Svcs /\ J.snap = s
    OBVIOUS
  <2> HIDE DEF J
  <2>12. JobOK(J, now, latest, kept) /\ ~Building(J)
    BY <1>1, <2>6, <2>7, <2>11, ConstantFacts DEF JobOK, Building
  <2> QED BY <1>1, <1>3, <2>1, <2>10, <2>12, PastBuilding, FilesStay
<1> QED BY <1>5, <1>6, <1>7

(* A refresh that writes.                                                     *)
LEMMA Writing ==
    ASSUME IInv, NEW g \in Goroutines, run[g].pc \in {"sibling", "latest", "prune"}
    PROVE  /\ run \in [Goroutines -> Jobs] /\ run[g] \in Jobs /\ Busy(run[g])
           /\ run[g].cat \in Catalogs /\ run[g].snap \in Snapshots /\ run[g].at \in Nat
           /\ run[g].cat = Auds => run[g] \in AudJobs
           /\ run[g].cat # Auds => run[g] \in SvcJobs /\ run[g].cat = Svcs
           /\ JobOK(run[g], now, latest, kept)
           /\ now \in Nat /\ latest \in [Catalogs -> Snapshots \cup {None}]
           /\ kept \in [Catalogs -> SUBSET Snapshots]
           /\ \A c \in Catalogs : KeptOK(c, latest[c], kept[c], now)
           /\ missed \in BOOLEAN
<1>1. run[g] \in Jobs BY DEF IInv, Shape
<1> QED BY <1>1, JobKinds, ConstantFacts DEF IInv, Shape, JobsOK, FilesOK, Busy

(* The next write of the same refresh.                                        *)
LEMMA NextPc ==
    ASSUME NEW r \in AudJobs \cup SvcJobs, NEW pc \in {"sibling", "latest", "prune"},
           NEW J, J = [r EXCEPT !.pc = pc]
    PROVE  /\ J \in Jobs /\ J.pc = pc /\ J.cat = r.cat /\ J.at = r.at /\ J.snap = r.snap
           /\ r.cat = Auds => J.found = r.found
BY ConstantFacts DEF Jobs, AudJobs, SvcJobs

LEMMA WriteSiblingStep ==
    ASSUME IInv, NEW g \in Goroutines, WriteSibling(g)
    PROVE  IInv'
<1> DEFINE r == run[g]
           J == [r EXCEPT !.pc = "latest"]
           c == r.cat
           K == {f \in kept[c] : f.seq # r.snap.seq} \cup {r.snap}
<1>1. r.pc = "sibling" /\ r.pc \in {"sibling", "latest", "prune"} BY DEF WriteSibling
<1>2. /\ run \in [Goroutines -> Jobs] /\ r \in AudJobs \cup SvcJobs /\ Busy(r)
      /\ c \in Catalogs /\ r.snap \in Snapshots /\ r.at \in Nat
      /\ JobOK(r, now, latest, kept)
      /\ now \in Nat /\ latest \in [Catalogs -> Snapshots \cup {None}]
      /\ kept \in [Catalogs -> SUBSET Snapshots]
      /\ \A d \in Catalogs : KeptOK(d, latest[d], kept[d], now)
  BY <1>1, Writing
<1>3. run' = [run EXCEPT ![g] = J] BY DEF WriteSibling
<1>4. /\ J \in Jobs /\ J.pc = "latest" /\ J.cat = c /\ J.at = r.at /\ J.snap = r.snap
      /\ c = Auds => J.found = r.found
  BY <1>2, NextPc
<1>5. kept' = [kept EXCEPT ![c] = K] BY DEF WriteSibling
<1>6. /\ UNCHANGED <<now, trees, owed, throttle>> /\ latest' = latest /\ missed' = missed
      /\ missed' \in BOOLEAN
  BY DEF WriteSibling, IInv, Shape
<1>7. K \subseteq Snapshots BY <1>2
<1>8. /\ SnapOK(c, r.snap, now) /\ r.snap = Snapshot(latest[c], r.snap.entries, r.at)
      /\ r.at <= now
      /\ c = Auds => FoundOK(r.found, latest[Auds], r.at) /\ r.snap.entries = Capped(r.found)
  BY <1>1, <1>2 DEF JobOK
<1>9. KeptOK(c, latest[c], K, now)
  <2>1. KeptOK(c, latest[c], kept[c], now) /\ latest[c] \in Snapshots \cup {None} BY <1>2
  <2> HIDE DEF c, r
  <2> QED BY <1>2, <1>8, <2>1, SiblingStep
<1>10. kept'[c] = K /\ kept' \in [Catalogs -> SUBSET Snapshots]
  <2> HIDE DEF K, c
  <2> QED BY <1>2, <1>5, <1>7
<1>11. r.snap \in K OBVIOUS
<1>12. \A d \in Catalogs : KeptOK(d, latest'[d], kept'[d], now)
  <2> HIDE DEF K, c
  <2> QED BY <1>2, <1>5, <1>6, <1>9, <1>10
<1> HIDE DEF J, K
<1>13. JobOK(J, now, latest', kept')
  BY <1>4, <1>6, <1>8, <1>10, <1>11 DEF JobOK
<1>14. \A a \in Hosted : OnTrack(r, latest[Auds], a, manifest, now)
                        => OnTrack(J, latest[Auds], a, manifest, now)
  BY <1>1, <1>4 DEF OnTrack, Catches, Building
<1> QED BY <1>2, <1>3, <1>4, <1>6, <1>10, <1>12, <1>13, <1>14, HolderStep

LEMMA WriteLatestStep ==
    ASSUME IInv, NEW g \in Goroutines, WriteLatest(g)
    PROVE  IInv'
<1> DEFINE r == run[g]
           J == [r EXCEPT !.pc = "prune"]
           c == r.cat
<1>1. r.pc = "latest" /\ r.pc \in {"sibling", "latest", "prune"} BY DEF WriteLatest
<1>2. /\ run \in [Goroutines -> Jobs] /\ r \in AudJobs \cup SvcJobs /\ Busy(r)
      /\ c \in Catalogs /\ r.snap \in Snapshots /\ r.at \in Nat
      /\ JobOK(r, now, latest, kept)
      /\ now \in Nat /\ latest \in [Catalogs -> Snapshots \cup {None}]
      /\ kept \in [Catalogs -> SUBSET Snapshots]
      /\ \A d \in Catalogs : KeptOK(d, latest[d], kept[d], now)
  BY <1>1, Writing
<1>3. run' = [run EXCEPT ![g] = J] BY DEF WriteLatest
<1>4. /\ J \in Jobs /\ J.pc = "prune" /\ J.cat = c /\ J.at = r.at /\ J.snap = r.snap
  BY <1>2, NextPc
<1>5. latest' = [latest EXCEPT ![c] = r.snap] BY DEF WriteLatest
<1>6. /\ UNCHANGED <<now, trees, owed, throttle>> /\ kept' = kept /\ missed' = missed
      /\ missed' \in BOOLEAN
  BY DEF WriteLatest, IInv, Shape
<1>7. /\ r.snap = Snapshot(latest[c], r.snap.entries, r.at)
      /\ r.at <= now /\ r.snap \in kept[c]
  BY <1>1, <1>2 DEF JobOK
<1>8. KeptOK(c, r.snap, kept[c], now)
  <2>1. KeptOK(c, latest[c], kept[c], now) /\ latest[c] \in Snapshots \cup {None} BY <1>2
  <2> HIDE DEF c, r
  <2> QED BY <1>2, <1>7, <2>1, LatestStep
<1>9. latest'[c] = r.snap /\ latest' \in [Catalogs -> Snapshots \cup {None}]
  <2> HIDE DEF c
  <2> QED BY <1>2, <1>5
<1>10. \A d \in Catalogs : KeptOK(d, latest'[d], kept'[d], now)
  <2> HIDE DEF c
  <2> QED BY <1>2, <1>5, <1>6, <1>8, <1>9
<1> HIDE DEF J
<1>11. JobOK(J, now, latest', kept') BY <1>4, <1>7, <1>9 DEF JobOK
<1>12. ASSUME NEW a \in Hosted, OnTrack(r, latest[Auds], a, manifest, now)
       PROVE  OnTrack(J, latest'[Auds], a, manifest, now)
  <2>1. Catches(J, a, manifest, now) BY <1>4 DEF Catches
  <2>2. CASE c = Auds
    <3>1. Shows(r.snap.entries, a, manifest, now) BY <1>1, <1>12, <2>2 DEF OnTrack, Catches
    <3>2. r.snap # None BY <1>2, ConstantFacts
    <3>3. Covers(latest'[Auds], a, manifest, now) BY <1>9, <2>2, <3>1, <3>2 DEF Covers
    <3> QED BY <2>1, <3>3 DEF OnTrack
  <2>3. CASE c # Auds
    <3>1. latest'[Auds] = latest[Auds]
      <4> HIDE DEF c
      <4> QED BY <1>2, <1>5, <2>3, ConstantFacts
    <3>2. Covers(latest[Auds], a, manifest, now) BY <1>1, <1>12, <2>3 DEF OnTrack, Building
    <3> QED BY <2>1, <3>1, <3>2 DEF OnTrack
  <2> QED BY <2>2, <2>3
<1> QED BY <1>2, <1>3, <1>4, <1>6, <1>9, <1>10, <1>11, <1>12, HolderStep

LEMMA PruneStepHolds ==
    ASSUME IInv, NEW g \in Goroutines, Prune(g)
    PROVE  IInv'
<1> DEFINE r == run[g]
           c == r.cat
           K == kept[c] \ Pruned(c, r.snap.seq, r.at)
<1>1. r.pc = "prune" /\ r.pc \in {"sibling", "latest", "prune"} BY DEF Prune
<1>2. /\ run \in [Goroutines -> Jobs] /\ r \in AudJobs \cup SvcJobs /\ Busy(r)
      /\ c \in Catalogs /\ r.snap \in Snapshots /\ r.at \in Nat
      /\ c # Auds => r \in SvcJobs
      /\ JobOK(r, now, latest, kept)
      /\ now \in Nat /\ latest \in [Catalogs -> Snapshots \cup {None}]
      /\ kept \in [Catalogs -> SUBSET Snapshots]
      /\ \A d \in Catalogs : KeptOK(d, latest[d], kept[d], now)
  BY <1>1, Writing
<1>3. r.why \in Whys /\ ~Building(r) BY <1>1, <1>2 DEF AudJobs, SvcJobs, Building
<1>4. r.at <= now /\ r.snap = latest[c] /\ latest[c] # None
  BY <1>1, <1>2, ConstantFacts DEF JobOK
<1>5. kept' = [kept EXCEPT ![c] = K] BY DEF Prune
<1>6. /\ UNCHANGED <<now, trees, owed, throttle>> /\ latest' = latest /\ missed' = missed
      /\ missed' \in BOOLEAN /\ latest' \in [Catalogs -> Snapshots \cup {None}]
  BY DEF Prune, IInv, Shape
<1>7. KeptOK(c, latest[c], K, now)
  <2>1. KeptOK(c, latest[c], kept[c], now) BY <1>2
  <2>2. K = kept[c] \ {f \in kept[c] : f.seq # latest[c].seq /\ r.at > Expiry(f.gen)}
    BY <1>4 DEF Pruned
  <2> HIDE DEF c, r, K
  <2> QED BY <1>2, <1>4, <2>1, <2>2, PruneStep DEF r
<1>8. kept'[c] = K /\ kept' \in [Catalogs -> SUBSET Snapshots]
  <2>1. K \subseteq Snapshots BY <1>2
  <2> HIDE DEF K, c
  <2> QED BY <1>2, <1>5, <2>1
<1>9. \A d \in Catalogs : KeptOK(d, latest'[d], kept'[d], now)
  <2> HIDE DEF K, c
  <2> QED BY <1>2, <1>5, <1>6, <1>7, <1>8
<1>10. PICK J \in Jobs : /\ run' = [run EXCEPT ![g] = J] /\ ~Building(J)
                         /\ JobOK(J, now, latest', kept')
  <2>1. CASE c = Auds
    <3> DEFINE J == [pc |-> "services", why |-> r.why]
    <3>1. run' = [run EXCEPT ![g] = J] BY <2>1 DEF Prune, ToServices
    <3>2. J \in Jobs /\ ~Building(J) /\ JobOK(J, now, latest', kept') BY <1>3, ServicesJob
    <3> QED BY <3>1, <3>2
  <2>2. CASE c # Auds
    <3> DEFINE J == [pc |-> "pages", why |-> r.why, shown |-> r.shown]
    <3>1. run' = [run EXCEPT ![g] = J] BY <2>2 DEF Prune
    <3>2. r.shown \in Shown BY <1>2, <2>2 DEF SvcJobs
    <3>3. J \in Jobs /\ ~Building(J) /\ JobOK(J, now, latest', kept') BY <1>3, <3>2, PagesJob
    <3> QED BY <3>1, <3>3
  <2> QED BY <2>1, <2>2
<1>11. \A a \in Hosted : OnTrack(r, latest[Auds], a, manifest, now)
                        => OnTrack(J, latest'[Auds], a, manifest, now)
  BY <1>3, <1>6, <1>10, PastBuilding
<1> QED BY <1>2, <1>6, <1>8, <1>9, <1>10, <1>11, HolderStep

LEMMA WritePagesStep ==
    ASSUME IInv, NEW g \in Goroutines, WritePages(g)
    PROVE  IInv'
<1>1. Busy(run[g]) /\ ~Building(run[g]) BY DEF WritePages, Busy, Building
<1>2. run' = [run EXCEPT ![g] = Idle] BY DEF WritePages, Finish
<1>3. /\ UNCHANGED <<now, trees, owed, throttle, latest, kept>>
      /\ missed' = missed /\ missed' \in BOOLEAN
  BY DEF WritePages, IInv, Shape
<1> QED BY <1>1, <1>2, <1>3, IdleJob, PastBuilding, FilesStay

LEMMA WriteFailsStep ==
    ASSUME IInv, NEW g \in Goroutines, WriteFails(g)
    PROVE  IInv'
<1>1. Busy(run[g]) BY DEF WriteFails, Busy
<1>2. /\ UNCHANGED <<now, trees, owed, throttle, latest, kept>> /\ missed' /\ missed' \in BOOLEAN
  BY DEF WriteFails, files
<1>3. run[g].why \in Whys
  <2>1. run[g] \in Jobs /\ run[g] # Idle BY DEF IInv, Shape, WriteFails, Idle
  <2> QED BY <2>1, JobKinds
<1>4. CASE run[g].pc # "pages" /\ run[g].cat = Auds
  <2> DEFINE J == [pc |-> "services", why |-> run[g].why]
  <2>1. run' = [run EXCEPT ![g] = J] BY <1>4 DEF WriteFails, ToServices
  <2>2. J \in Jobs /\ JobOK(J, now, latest, kept) BY <1>3, ServicesJob
  <2> HIDE DEF J
  <2> QED BY <1>1, <1>2, <2>1, <2>2, FilesStay
<1>5. CASE ~(run[g].pc # "pages" /\ run[g].cat = Auds)
  <2>1. run' = [run EXCEPT ![g] = Idle] BY <1>5 DEF WriteFails, Finish
  <2> QED BY <1>1, <1>2, <2>1, IdleJob, FilesStay
<1> QED BY <1>4, <1>5

-------------------------------------------------------------------------------
(* The hub, the throttle and the surroundings.                                *)

(* A change of one auditor's manifest is nothing to the others.               *)
LEMMA SameManifest ==
    ASSUME NEW a, NEW m, NEW n, m[a] = n[a], NEW ow, NEW q, NEW mi, NEW R, NEW L, NEW t,
           Caught(a, ow, q, mi, R, L, m, t)
    PROVE  Caught(a, ow, q, mi, R, L, n, t)
<1>1. Valid(a, m, t) <=> Valid(a, n, t) BY DEF Valid
<1>2. \A es : Shows(es, a, m, t) => Shows(es, a, n, t) BY <1>1 DEF Shows
<1>3. \A fs : FoundFor(fs, a, m, t) => FoundFor(fs, a, n, t) BY <1>1 DEF FoundFor
<1>4. \A r : Catches(r, a, m, t) => Catches(r, a, n, t) BY <1>2, <1>3 DEF Catches
<1>5. Covers(L, a, m, t) => Covers(L, a, n, t) BY <1>2 DEF Covers
<1> QED BY <1>4, <1>5 DEF Caught

LEMMA HubStep ==
    ASSUME IInv, UNCHANGED <<now, files, throttle, run>>,
           manifest' \in [Auditors -> Nat \cup {None}], active' \subseteq Attestations,
           owed' \subseteq Hosted, owed \subseteq owed',
           missed' \in BOOLEAN, missed => missed',
           \A a \in Hosted : a \in owed' \/ missed' \/ manifest'[a] = manifest[a]
    PROVE  IInv'
<1>1. Shape' BY DEF IInv, Shape, files, throttle
<1>2. OneRuns(run)' /\ JobsOK' /\ FilesOK' /\ (fired = last)'
  BY DEF IInv, JobsOK, FilesOK, files, throttle
<1>3. AllCaught'
  <2> SUFFICES ASSUME NEW a \in Hosted
               PROVE  Caught(a, owed', queued, missed', run, latest[Auds], manifest', now)
    BY DEF AllCaught, files, throttle
  <2>1. CASE a \in owed' \/ missed' BY <2>1 DEF Caught
  <2>2. CASE a \notin owed' /\ ~missed'
    <3>1. a \notin owed /\ ~missed /\ manifest[a] = manifest'[a] BY <2>2
    <3>2. Caught(a, owed, queued, missed, run, latest[Auds], manifest, now)
      BY DEF IInv, AllCaught
    <3>3. PICK n : n = manifest' OBVIOUS
    <3>4. Caught(a, owed, queued, missed, run, latest[Auds], n, now)
      BY <3>1, <3>2, <3>3, SameManifest
    <3>5. Caught(a, owed', queued, missed', run, latest[Auds], n, now)
      BY <3>1, <3>4 DEF Caught
    <3> QED BY <3>3, <3>5
  <2> QED BY <2>1, <2>2
<1> QED BY <1>1, <1>2, <1>3 DEF IInv

LEMMA HubSteps ==
    ASSUME IInv,
           \/ \E a \in Hosted, l \in Lives : Register(a, l) \/ RegisterUnsigned(a, l)
           \/ \E x \in Attestations : Publish(x) \/ Revoke(x)
           \/ \E w \in Worlds : WorldChanges(w)
    PROVE  IInv'
<1>1. Lives \subseteq Nat /\ Hosted \subseteq Auditors BY CatalogAssumption, ConstantFacts
<1>2. /\ manifest \in [Auditors -> Nat \cup {None}] /\ active \subseteq Attestations
      /\ owed \subseteq Hosted /\ missed \in BOOLEAN
  BY DEF IInv, Shape
<1>3. ASSUME NEW a \in Hosted, NEW l \in Lives, Register(a, l) PROVE IInv'
  <2>1. /\ UNCHANGED <<now, files, throttle, run, active, missed>>
        /\ manifest' = [manifest EXCEPT ![a] = l] /\ owed' = owed \cup {a}
    BY <1>3 DEF Register
  <2>2. manifest' \in [Auditors -> Nat \cup {None}] BY <1>1, <1>2, <2>1
  <2>3. \A b \in Hosted : b \in owed' \/ manifest'[b] = manifest[b] BY <1>1, <1>2, <2>1
  <2> QED BY <1>2, <2>1, <2>2, <2>3, HubStep
<1>4. ASSUME NEW a \in Hosted, NEW l \in Lives, RegisterUnsigned(a, l) PROVE IInv'
  <2>1. /\ UNCHANGED <<now, files, throttle, run, active, owed>>
        /\ manifest' = [manifest EXCEPT ![a] = l] /\ missed' = TRUE
    BY <1>4 DEF RegisterUnsigned
  <2>2. manifest' \in [Auditors -> Nat \cup {None}] BY <1>1, <1>2, <2>1
  <2> QED BY <1>2, <2>1, <2>2, HubStep
<1>5. ASSUME NEW x \in Attestations, Publish(x) \/ Revoke(x) PROVE IInv'
  <2>1. /\ UNCHANGED <<now, files, throttle, run, manifest, missed>>
        /\ active' \subseteq Attestations
        /\ owed' = owed \cup ({x.by} \cap Hosted)
    BY <1>2, <1>5 DEF Publish, Revoke
  <2> QED BY <1>2, <2>1, HubStep
<1>6. ASSUME NEW w \in Worlds, WorldChanges(w) PROVE IInv'
  <2>1. UNCHANGED <<now, files, throttle, run, manifest, active, owed, missed>>
    BY <1>6 DEF WorldChanges
  <2> QED BY <1>2, <2>1, HubStep
<1> QED BY <1>3, <1>4, <1>5, <1>6

(* A refresh is started: who is not in the catalog yet will be.               *)
LEMMA Started ==
    ASSUME IInv, NEW g \in Goroutines, run[g] = Idle, NEW why \in Whys,
           run' = [run EXCEPT ![g] = Waiting(why)],
           UNCHANGED <<now, trees, files, missed>>,
           owed' \subseteq Hosted, queued' \in BOOLEAN, fired' = last'
    PROVE  IInv'
<1>1. /\ Waiting(why) \in Jobs /\ ~Busy(Waiting(why)) /\ Waiting(why).pc = "wait"
  BY DEF Jobs, WaitJobs, Waiting, Busy
<1>2. run \in [Goroutines -> Jobs] BY DEF IInv, Shape
<1>3. /\ run' \in [Goroutines -> Jobs] /\ run'[g] = Waiting(why)
      /\ \A h \in Goroutines \ {g} : run'[h] = run[h]
  BY <1>1, <1>2
<1>4. Shape' BY <1>3 DEF IInv, Shape, trees, files
<1>5. OneRuns(run)'
  <2>1. OneRuns(run) BY DEF IInv
  <2> QED BY <1>1, <1>3, <2>1 DEF OneRuns
<1>6. JobsOK'
  <2>1. JobOK(Waiting(why), now, latest, kept) BY <1>1, RestOK
  <2>2. \A h \in Goroutines : JobOK(run'[h], now, latest, kept)
    BY <1>3, <2>1 DEF IInv, JobsOK
  <2> QED BY <2>2 DEF JobsOK, files
<1>7. FilesOK' BY DEF IInv, FilesOK, files
<1>8. AllCaught' BY <1>1, <1>3 DEF AllCaught, Caught
<1> QED BY <1>4, <1>5, <1>6, <1>7, <1>8 DEF IInv

LEMMA ThrottleSteps ==
    ASSUME IInv, (\E a \in Hosted : Throttled(a)) \/ TimerFires \/ Loop
    PROVE  IInv'
<1>1. Shape /\ owed \subseteq Hosted BY DEF IInv, Shape
<1>2. ASSUME NEW a \in Hosted, Throttled(a) PROVE IInv'
  <2>1. UNCHANGED <<now, trees, files, missed>> /\ owed' \subseteq Hosted
    BY <1>1, <1>2 DEF Throttled
  <2>2. CASE ~queued /\ (last = None \/ now >= last + Gap)
    <3>1. Start("change") /\ last' = now /\ fired' = now /\ queued' = queued
      BY <1>2, <2>2 DEF Throttled
    <3>2. PICK g \in Goroutines : run[g] = Idle /\ run' = [run EXCEPT ![g] = Waiting("change")]
      BY <1>1, <3>1, StartStep DEF Whys
    <3>3. queued' \in BOOLEAN /\ "change" \in Whys BY <3>1 DEF IInv, Shape, Whys
    <3> QED BY <2>1, <3>1, <3>2, <3>3, Started
  <2>3. CASE queued \/ ~(last = None \/ now >= last + Gap)
    <3>1. /\ UNCHANGED <<last, fired, run>> /\ queued' = TRUE
      BY <1>2, <2>3 DEF Throttled, throttle, IInv, Shape
    <3>2. Shape' BY <2>1, <3>1 DEF IInv, Shape, trees, files
    <3>3. OneRuns(run)' /\ JobsOK' /\ FilesOK' /\ (fired = last)'
      BY <2>1, <3>1 DEF IInv, JobsOK, FilesOK, files
    <3>4. AllCaught' BY <3>1 DEF AllCaught, Caught
    <3> QED BY <3>2, <3>3, <3>4 DEF IInv
  <2> QED BY <2>2, <2>3
<1>3. ASSUME TimerFires PROVE IInv'
  <2>1. /\ UNCHANGED <<now, trees, files, missed, owed>> /\ queued' = FALSE
        /\ last' = now /\ fired' = now /\ Start("change")
    BY <1>3 DEF TimerFires
  <2>2. PICK g \in Goroutines : run[g] = Idle /\ run' = [run EXCEPT ![g] = Waiting("change")]
    BY <1>1, <2>1, StartStep DEF Whys
  <2>3. "change" \in Whys BY DEF Whys
  <2> QED BY <1>1, <2>1, <2>2, <2>3, Started
<1>4. ASSUME Loop PROVE IInv'
  <2>1. UNCHANGED <<now, trees, files, missed, owed, queued, last, fired>> /\ Start("loop")
    BY <1>4 DEF Loop, throttle
  <2>2. PICK g \in Goroutines : run[g] = Idle /\ run' = [run EXCEPT ![g] = Waiting("loop")]
    BY <1>1, <2>1, StartStep DEF Whys
  <2>3. "loop" \in Whys /\ queued' \in BOOLEAN /\ fired' = last'
    BY <2>1 DEF Whys, IInv, Shape
  <2> QED BY <1>1, <2>1, <2>2, <2>3, Started
<1> QED BY <1>2, <1>3, <1>4

LEMMA CrashStep ==
    ASSUME IInv, Crash
    PROVE  IInv'
<1>1. /\ UNCHANGED <<now, trees, files>> /\ run' = Boot /\ owed' = {} /\ queued' = FALSE
      /\ last' = None /\ fired' = None /\ missed' = FALSE
  BY DEF Crash
<1>2. /\ run' \in [Goroutines -> Jobs] /\ OneRuns(run')
      /\ \A g \in Goroutines : ~Busy(run'[g])
      /\ \E g \in Goroutines : run'[g].pc = "wait"
  BY <1>1, BootIs
<1>3. Shape' BY <1>1, <1>2 DEF IInv, Shape, trees, files
<1>4. JobsOK'
  <2>1. \A g \in Goroutines : JobOK(run'[g], now, latest, kept) BY <1>2, RestOK
  <2> QED BY <1>1, <2>1 DEF JobsOK, files
<1>5. FilesOK' BY <1>1 DEF IInv, FilesOK, files
<1>6. AllCaught' BY <1>2 DEF AllCaught, Caught
<1> QED BY <1>1, <1>2, <1>3, <1>4, <1>5, <1>6 DEF IInv

LEMMA TickStep ==
    ASSUME IInv, Tick
    PROVE  IInv'
<1>1. /\ UNCHANGED <<trees, files, owed, throttle, run, missed>> /\ now' = now + 1
      /\ now < MaxTime
      /\ \A g \in Goroutines : run[g].pc \in {"idle", "wait", "fetch"}
  BY DEF Tick
<1>2. now \in Nat /\ now' \in Nat /\ now <= now' /\ now' \in 0..MaxTime
  BY <1>1, ConstantFacts DEF IInv, Shape
<1>3. Shape' BY <1>1, <1>2 DEF IInv, Shape, trees, files, throttle
<1>4. OneRuns(run)' /\ (fired = last)' BY <1>1 DEF IInv, throttle
<1>5. JobsOK'
  <2>1. ASSUME NEW g \in Goroutines PROVE JobOK(run[g], now', latest, kept)
    <3>1. run[g].pc = "fetch" => run[g] \in FetchJobs /\ run[g].at <= now
      BY JobKinds DEF IInv, Shape, JobsOK, JobOK
    <3>2. run[g].pc = "fetch" => run[g].at <= now' BY <1>2, <3>1 DEF FetchJobs
    <3> QED BY <1>1, <3>2 DEF JobOK
  <2> QED BY <1>1, <2>1 DEF JobsOK, files
<1>6. FilesOK'
  <2>1. ASSUME NEW c \in Catalogs PROVE KeptOK(c, latest[c], kept[c], now')
    <3>1. KeptOK(c, latest[c], kept[c], now) BY DEF IInv, FilesOK
    <3>2. PICK u : u = now' OBVIOUS
    <3>3. KeptOK(c, latest[c], kept[c], u) BY <1>2, <3>1, <3>2, KeptLasts
    <3> QED BY <3>2, <3>3
  <2> QED BY <1>1, <2>1 DEF FilesOK, files
<1>7. AllCaught'
  <2> SUFFICES ASSUME NEW a \in Hosted
               PROVE  Caught(a, owed, queued, missed, run, latest[Auds], manifest, now')
    BY <1>1 DEF AllCaught, trees, files, throttle
  <2>1. PICK u \in Nat : u = now' BY <1>2
  <2>2. Caught(a, owed, queued, missed, run, latest[Auds], manifest, now)
    BY DEF IInv, AllCaught
  <2>3. \A g \in Goroutines : Catches(run[g], a, manifest, u) BY <1>1 DEF Catches
  <2>4. Covers(latest[Auds], a, manifest, now) => Covers(latest[Auds], a, manifest, u)
    <3>1. a \in Auditors /\ manifest \in [Auditors -> Nat \cup {None}]
      BY ConstantFacts DEF IInv, Shape
    <3> QED BY <1>2, <2>1, <3>1, ShowsLasts DEF Covers
  <2>5. Caught(a, owed, queued, missed, run, latest[Auds], manifest, u)
    BY <2>2, <2>3, <2>4 DEF Caught
  <2> QED BY <2>1, <2>5
<1> QED BY <1>3, <1>4, <1>5, <1>6, <1>7 DEF IInv

LEMMA StutterStep == IInv /\ UNCHANGED vars => IInv'
<1> SUFFICES ASSUME IInv, UNCHANGED vars PROVE IInv' OBVIOUS
<1>1. /\ UNCHANGED <<now, files, throttle, run>> /\ manifest' = manifest /\ active' = active
      /\ owed' = owed /\ missed' = missed
  BY DEF vars, trees
<1>2. /\ manifest \in [Auditors -> Nat \cup {None}] /\ active \subseteq Attestations
      /\ owed \subseteq Hosted /\ missed \in BOOLEAN
  BY DEF IInv, Shape
<1> QED BY <1>1, <1>2, HubStep

LEMMA Inductive == IInv /\ [Next]_vars => IInv'
<1> SUFFICES ASSUME IInv, [Next]_vars PROVE IInv' OBVIOUS
<1>1. ASSUME NEW g \in Goroutines, Refresh(g) PROVE IInv'
  BY <1>1, BeginStep, ReadManifestStep, BuildAuditorsStep, ReadAttestationsStep,
     FetchDirectoryStep, WriteSiblingStep, WriteLatestStep, PruneStepHolds, WritePagesStep
     DEF Refresh
<1>2. ASSUME NEW g \in Goroutines, WriteFails(g) PROVE IInv' BY <1>2, WriteFailsStep
<1> QED BY <1>1, <1>2, HubSteps, ThrottleSteps, TickStep, CrashStep, StutterStep DEF Next

LEMMA Invariance == Spec => []IInv
<1> QED BY Initially, Inductive, PTL DEF Spec

-------------------------------------------------------------------------------
(* The snapshots.                                                             *)
LEMMA FilesSound == IInv => ChainSound
<1> SUFFICES ASSUME IInv PROVE ChainSound OBVIOUS
<1>1. ASSUME NEW c \in Catalogs, latest[c] # None
      PROVE  /\ KeptOK(c, latest[c], kept[c], now) /\ latest[c] \in kept[c]
             /\ SnapOK(c, latest[c], now)
  BY <1>1 DEF IInv, FilesOK, KeptOK
<1>2. TypeOK
  <2>1. ASSUME NEW c \in Catalogs, latest[c] # None
        PROVE  /\ latest[c].seq \in Nat \ {0} /\ latest[c].gen \in 0..MaxTime
               /\ \A e \in latest[c].entries : e.at \in 0..MaxTime
               /\ c = Auds => Cardinality(latest[c].entries) <= MaxEntries
    <3>1. SnapOK(c, latest[c], now) BY <1>1, <2>1
    <3>2. latest[c].seq \in Nat /\ latest[c].gen \in Nat /\ latest[c].entries \subseteq Entries
      BY <3>1 DEF SnapOK, Snapshots
    <3>3. now \in Nat /\ now <= MaxTime BY ConstantFacts DEF IInv, Shape
    <3>4. \A e \in latest[c].entries : e.at \in Nat /\ e.at <= now
      BY <3>1, <3>2 DEF SnapOK, Times, Entries
    <3> QED BY <3>1, <3>2, <3>3, <3>4, ConstantFacts DEF SnapOK
  <2> QED BY <2>1 DEF TypeOK, IInv, Shape
<1>3. ChainWalkable
  <2>1. ASSUME NEW c \in Catalogs, latest[c] # None,
               NEW f \in kept[c], f.seq \in 2..latest[c].seq
        PROVE  \/ now > Expiry(f.prev.gen)
               \/ \E g \in kept[c] : g.seq = f.seq - 1 /\ Body(g) = f.prev
    BY <1>1, <2>1 DEF KeptOK, Chained
  <2>2. ASSUME NEW c \in Catalogs, latest[c] # None, NEW n \in 1..latest[c].seq
        PROVE  \/ \E f \in kept[c] : f.seq = n
               \/ \E f \in kept[c] :
                    f.seq \in (n + 1)..latest[c].seq /\ now > Expiry(f.prev.gen)
    BY <1>1, <2>2, WalkDown
  <2> QED BY <1>1, <2>1, <2>2 DEF ChainWalkable
<1> QED BY <1>2, <1>3 DEF ChainSound

(* Snapshots have their type and never more entries than clients accept, and  *)
(* from the latest one every sequence can be walked down to, byte for byte,   *)
(* until the first that has expired: through any interleaving of refreshes,   *)
(* failing writes, crashes and prunes (writeCatalog, pruneExpired).           *)
THEOREM ChainHolds == Spec => []ChainSound
<1> QED BY Invariance, FilesSound, PTL

(* What QuietMeansListed says of one auditor.                                 *)
LEMMA ListedWhenQuiet == IInv => QuietMeansListed
<1> SUFFICES ASSUME IInv, Quiet, NEW a \in Hosted
             PROVE  LET es == latest[Auds].entries
                        of == {e \in es : e.id = a}
                    IN  /\ \A e \in of : e.doc = manifest[a]
                        /\ Verifies(a, now) /\ of = {} => Cardinality(es) = MaxEntries
  BY DEF QuietMeansListed
<1>1. /\ a \notin owed /\ ~queued /\ ~missed
      /\ \A g \in Goroutines : run[g].pc = "idle"
  BY DEF Quiet, Idle
<1>2. \A g \in Goroutines : run[g].pc # "wait" /\ ~Building(run[g])
  BY <1>1 DEF Building
<1>3. Caught(a, owed, queued, missed, run, latest[Auds], manifest, now)
  BY DEF IInv, AllCaught
<1>4. Covers(latest[Auds], a, manifest, now) BY <1>1, <1>2, <1>3 DEF Caught
<1>5. Verifies(a, now) <=> Valid(a, manifest, now) BY DEF Verifies, Valid
<1> QED BY <1>4, <1>5 DEF Covers, Shows

(* The last change always gets its run: whatever the throttle, the timer, the *)
(* refreshes under way and the crashes did, once nothing is pending every     *)
(* hosted auditor is listed with its current manifest, or has expired, or the *)
(* catalog is full (serve's throttled, the hub's changed, provider.Refresh).  *)
THEOREM NobodyForgotten == Spec => []QuietMeansListed
<1> QED BY Invariance, ListedWhenQuiet, PTL

-------------------------------------------------------------------------------
(* The steps.                                                                 *)

(* Only one action writes a latest snapshot.                                  *)
LEMMA WhoWrites ==
    ASSUME [Next]_vars, latest' # latest
    PROVE  \E g \in Goroutines : WriteLatest(g)
<1>1. ASSUME NEW g \in Goroutines, Refresh(g), ~WriteLatest(g) PROVE FALSE
  BY <1>1 DEF Refresh, Begin, ReadManifest, BuildAuditors, ReadAttestations, FetchDirectory,
              WriteSibling, Prune, WritePages, files
<1>2. ASSUME NEW g \in Goroutines, WriteFails(g) PROVE FALSE BY <1>2 DEF WriteFails, files
<1>3. ASSUME NEW a \in Hosted, NEW l \in Lives, Register(a, l) \/ RegisterUnsigned(a, l)
      PROVE  FALSE
  BY <1>3 DEF Register, RegisterUnsigned, files
<1>4. ASSUME NEW x \in Attestations, Publish(x) \/ Revoke(x) PROVE FALSE
  BY <1>4 DEF Publish, Revoke, files
<1>5. ASSUME NEW a \in Hosted, Throttled(a) PROVE FALSE BY <1>5 DEF Throttled, files
<1>6. ASSUME TimerFires \/ Loop \/ Tick \/ Crash PROVE FALSE
  BY <1>6 DEF TimerFires, Loop, Tick, Crash, files
<1>7. ASSUME NEW w \in Worlds, WorldChanges(w) PROVE FALSE BY <1>7 DEF WorldChanges, files
<1>8. ASSUME UNCHANGED vars PROVE FALSE BY <1>8 DEF vars, files
<1> QED BY <1>1, <1>2, <1>3, <1>4, <1>5, <1>6, <1>7, <1>8 DEF Next

LEMMA WritesNext ==
    ASSUME IInv, NEW g \in Goroutines, WriteLatest(g)
    PROVE  /\ run[g].cat \in Catalogs /\ run[g].pc = "latest" /\ Busy(run[g])
           /\ latest' = [latest EXCEPT ![run[g].cat] = run[g].snap]
           /\ latest \in [Catalogs -> Snapshots \cup {None}]
           /\ run[g].snap = Snapshot(latest[run[g].cat], run[g].snap.entries, run[g].at)
           /\ run[g].cat = Auds =>
                /\ FoundOK(run[g].found, latest[Auds], run[g].at)
                /\ run[g].snap.entries = Capped(run[g].found)
           /\ run[g].at \in Nat
<1>1. run[g].pc = "latest" BY DEF WriteLatest
<1>2. /\ JobOK(run[g], now, latest, kept) /\ run[g].cat \in Catalogs /\ Busy(run[g])
      /\ latest \in [Catalogs -> Snapshots \cup {None}] /\ run[g].at \in Nat
  BY <1>1, Writing
<1> QED BY <1>1, <1>2 DEF WriteLatest, JobOK

(* A snapshot is replaced by its successor, whoever else wants to write: one  *)
(* sequence further, naming the bytes it replaces (nextSnapshot under the     *)
(* refresh mutex).                                                            *)
THEOREM Successors == Spec => OneSuccessor
<1>1. IInv /\ [Next]_vars =>
        [\A c \in Catalogs : latest'[c] # latest[c] =>
           IF latest[c] = None THEN latest'[c].seq = 1 /\ latest'[c].prev = None
           ELSE latest'[c].seq = latest[c].seq + 1 /\ latest'[c].prev = Body(latest[c])]_vars
  <2> SUFFICES ASSUME IInv, [Next]_vars, NEW c \in Catalogs, latest'[c] # latest[c]
               PROVE  IF latest[c] = None THEN latest'[c].seq = 1 /\ latest'[c].prev = None
                      ELSE latest'[c].seq = latest[c].seq + 1 /\ latest'[c].prev = Body(latest[c])
    OBVIOUS
  <2>1. PICK g \in Goroutines : WriteLatest(g) BY WhoWrites
  <2> DEFINE d == run[g].cat
             s == run[g].snap
  <2>2. /\ d \in Catalogs /\ latest' = [latest EXCEPT ![d] = s]
        /\ latest \in [Catalogs -> Snapshots \cup {None}]
        /\ s = Snapshot(latest[d], s.entries, run[g].at)
    BY <2>1, WritesNext
  <2> HIDE DEF d, s
  <2>3. c = d /\ latest'[c] = s BY <2>2
  <2>4. s = Snapshot(latest[c], s.entries, run[g].at) BY <2>2, <2>3
  <2>5. /\ s.seq = IF latest[c] = None THEN 1 ELSE latest[c].seq + 1
        /\ s.prev = IF latest[c] = None THEN None ELSE Body(latest[c])
    BY <2>4 DEF Snapshot
  <2> QED BY <2>3, <2>5
<1> QED BY <1>1, Invariance, PTL DEF OneSuccessor, Spec

(* Who is listed and still verifies loses the place to nobody who came later, *)
(* in whatever order the trees are read (the cap in provider.entries).        *)
THEOREM PlacesKept == Spec => NewcomersWait
<1>1. IInv /\ [Next]_vars =>
        [\A g \in Goroutines :
         (run[g].pc = "latest" /\ run[g].cat = Auds /\ latest' # latest /\ latest[Auds] # None) =>
           \A e \in latest[Auds].entries, f \in latest'[Auds].entries :
             /\ e.id \in {x.id : x \in run[g].found}
             /\ e.id \notin {x.id : x \in latest'[Auds].entries}
             /\ f.id \notin {x.id : x \in latest[Auds].entries}
             => f.id = Own \/ e.at >= run[g].at]_vars
  <2> SUFFICES ASSUME IInv, [Next]_vars, NEW g \in Goroutines,
                      run[g].pc = "latest", run[g].cat = Auds, latest' # latest, latest[Auds] # None,
                      NEW e \in latest[Auds].entries, NEW f \in latest'[Auds].entries,
                      e.id \in {x.id : x \in run[g].found},
                      e.id \notin {x.id : x \in latest'[Auds].entries},
                      f.id \notin {x.id : x \in latest[Auds].entries}
               PROVE  f.id = Own \/ e.at >= run[g].at
    OBVIOUS
  <2>1. PICK h \in Goroutines : WriteLatest(h) BY WhoWrites
  <2>2. h = g
    <3>1. Busy(run[h]) /\ Busy(run[g]) BY <2>1 DEF WriteLatest, Busy
    <3> QED BY <3>1 DEF IInv, OneRuns
  <2> DEFINE fs == run[g].found
             t == run[g].at
  <2>3. /\ latest'[Auds].entries = Capped(fs) /\ FoundOK(fs, latest[Auds], t) /\ t \in Nat
    BY <2>1, <2>2, WritesNext, ConstantFacts
  <2>4. Distinct(latest[Auds].entries)
    BY ConstantFacts DEF IInv, FilesOK, KeptOK, SnapOK
  <2> HIDE DEF fs, t
  <2>5. PICK x \in fs : x.id = e.id BY DEF fs
  <2>6. x \notin Capped(fs) BY <2>3, <2>5
  <2>7. f \in Capped(fs) /\ f \in fs BY <2>3, CappedIs
  <2>8. Distinct(fs) BY <2>3 DEF FoundOK
  <2>9. Before(f, x) BY <2>6, <2>7, <2>8, CapOrder
  <2>10. x.at = e.at BY <2>3, <2>4, <2>5, ListedAtIs DEF FoundOK
  <2>11. f.at = t BY <2>3, <2>4, <2>7, ListedAtIs DEF FoundOK
  <2>12. e.at \in Nat BY <2>4 DEF Distinct, Entries
  <2>13. f.id = Own \/ f.at <= x.at BY <2>9, <2>3, <2>10, <2>11, <2>12 DEF Before
  <2> QED BY <2>3, <2>10, <2>11, <2>12, <2>13 DEF t
<1> QED BY <1>1, Invariance, PTL DEF NewcomersWait, Spec

(* A process starts two refreshes on account of changes no closer than Gap,   *)
(* however many handlers call OnChange at once (serve's throttled).           *)
THEOREM RefreshRate == Spec => ChangeRate
<1>1. IInv /\ [Next]_vars =>
        [(\E g \in Goroutines : run[g] = Idle /\ run'[g] = Waiting("change")) =>
           fired = None \/ now >= fired + Gap]_vars
  <2> SUFFICES ASSUME IInv, [Next]_vars,
                      NEW g \in Goroutines, run[g] = Idle, run'[g] = Waiting("change")
               PROVE  fired = None \/ now >= fired + Gap
    OBVIOUS
  <2>1. fired = last /\ run \in [Goroutines -> Jobs] BY DEF IInv, Shape
  <2>2. Idle # Waiting("change") /\ run[g].pc = "idle" /\ run'[g] # run[g]
    <3>1. Idle.pc # Waiting("change").pc BY DEF Idle, Waiting
    <3> QED BY <3>1 DEF Idle
  <2>3. ASSUME NEW h \in Goroutines, Refresh(h) \/ WriteFails(h) PROVE FALSE
    <3>1. run[h].pc # "idle"
      BY <2>3 DEF Refresh, WriteFails, Begin, ReadManifest, BuildAuditors, ReadAttestations,
                  FetchDirectory, WriteSibling, WriteLatest, Prune, WritePages
    <3>2. h # g BY <2>2, <3>1
    <3>3. \E J : run' = [run EXCEPT ![h] = J]
      BY <2>3 DEF Refresh, WriteFails, Begin, ReadManifest, BuildAuditors, ReadAttestations,
                  FetchDirectory, WriteSibling, WriteLatest, Prune, WritePages, ToServices, Finish
    <3> QED BY <2>1, <2>2, <3>2, <3>3
  <2>4. ASSUME NEW a \in Hosted, Throttled(a) PROVE last = None \/ now >= last + Gap
    BY <2>2, <2>4 DEF Throttled, throttle
  <2>5. ASSUME TimerFires PROVE now >= last + Gap BY <2>5 DEF TimerFires
  <2>6. ASSUME Loop PROVE FALSE
    <3>1. PICK h \in Goroutines : run' = [run EXCEPT ![h] = Waiting("loop")]
      BY <2>6, StartStep DEF Loop, IInv, Whys
    <3>2. run'[g] \in {run[g], Waiting("loop")} BY <2>1, <3>1
    <3>3. Waiting("loop").why # Waiting("change").why BY DEF Waiting
    <3> QED BY <2>2, <3>2, <3>3
  <2>7. ASSUME Crash PROVE FALSE
    <3>1. run'[g] \in {Idle, Waiting("boot")} BY <2>7, BootIs DEF Crash
    <3>2. Waiting("boot").why # Waiting("change").why BY DEF Waiting
    <3> QED BY <2>2, <3>1, <3>2
  <2>8. ASSUME \/ Tick \/ UNCHANGED vars \/ \E w \in Worlds : WorldChanges(w)
               \/ \E a \in Hosted, l \in Lives : Register(a, l) \/ RegisterUnsigned(a, l)
               \/ \E x \in Attestations : Publish(x) \/ Revoke(x)
        PROVE  FALSE
    <3>1. run' = run
      BY <2>8 DEF Tick, vars, WorldChanges, Register, RegisterUnsigned, Publish, Revoke
    <3> QED BY <2>2, <3>1
  <2> QED BY <2>1, <2>3, <2>4, <2>5, <2>6, <2>7, <2>8 DEF Next
<1> QED BY <1>1, Invariance, PTL DEF ChangeRate, Spec
================================================================================
