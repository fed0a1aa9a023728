----------------------------- MODULE ReviewProofs -----------------------------
(* What Review promises for every number of reviews and findings, every       *)
(* embargo and every number of crashes and failing writes.                    *)
EXTENDS Review, TLAPS

-------------------------------------------------------------------------------
(* Whose file is whose.                                                       *)
AttFile(a) == File(AttPath(a.id), a)
ReportOf(p) == File(ReportPath(p), p)

(* The files review r may write.                                              *)
OwnAtts(r) == {a \in Attestations : a.review = r /\ a.id \in IdsOf[r]}
OwnFiles(r) ==
    {AttFile(a) : a \in OwnAtts(r)}
    \cup {ReportOf(p) : p \in {x \in Reports : x.review = r}}
    \cup {File(ScopePath(r), r), File(OrderPath(r), r)}
TreeFiles == UNION {OwnFiles(r) : r \in Reviews}

(* The documents of the review r signed as s.                                 *)
Docs(r, s) == EngagementFiles(r) \cup {AttFile(s.att), ReportOf(s.att.report)}

(* At most one file at each path.                                             *)
Uniq(fs) == \A f, g \in fs : f.path = g.path => f = g

LEMMA Kinds ==
    ASSUME NEW r, NEW f \in OwnFiles(r)
    PROVE  /\ f.path[1] \in {"attestations", "reports", "scopes", "orders"}
           /\ f.path[1] = "attestations" =>
                /\ f.doc \in Attestations /\ f.doc.review = r /\ f.doc.id \in IdsOf[r]
                /\ f.path = AttPath(f.doc.id) /\ f = AttFile(f.doc)
           /\ f.path[1] = "reports" =>
                f.doc \in Reports /\ f.doc.review = r /\ f = ReportOf(f.doc)
           /\ f.path[1] = "scopes" => f = File(ScopePath(r), r)
           /\ f.path[1] = "orders" => f = File(OrderPath(r), r)
<1>1. CASE f \in {AttFile(a) : a \in OwnAtts(r)}
  <2>1. PICK a \in OwnAtts(r) : f = AttFile(a) BY <1>1
  <2> QED BY <2>1 DEF OwnAtts, AttFile, File, AttPath
<1>2. CASE f \in {ReportOf(p) : p \in {x \in Reports : x.review = r}}
  <2>1. PICK p \in Reports : p.review = r /\ f = ReportOf(p) BY <1>2
  <2> QED BY <2>1 DEF ReportOf, File, ReportPath
<1>3. CASE f = File(ScopePath(r), r) BY <1>3 DEF File, ScopePath
<1>4. CASE f = File(OrderPath(r), r) BY <1>4 DEF File, OrderPath
<1> QED BY <1>1, <1>2, <1>3, <1>4 DEF OwnFiles

(* Two files at one path are one file, unless they are attestations.          *)
LEMMA PathsTell ==
    ASSUME NEW r, NEW q, NEW f \in OwnFiles(r), NEW g \in OwnFiles(q), f.path = g.path,
           f.path[1] # "attestations"
    PROVE  f = g /\ r = q
<1>1. /\ f.path[1] \in {"reports", "scopes", "orders"} /\ g.path[1] = f.path[1]
  BY Kinds
<1>2. CASE f.path[1] = "reports"
  <2>1. /\ f = ReportOf(f.doc) /\ g = ReportOf(g.doc) /\ f.doc.review = r /\ g.doc.review = q
    BY <1>1, <1>2, Kinds
  <2>2. f.path[2] = f.doc /\ g.path[2] = g.doc BY <2>1 DEF ReportOf, File, ReportPath
  <2> QED BY <2>1, <2>2
<1>3. CASE f.path[1] = "scopes"
  <2>1. f = File(ScopePath(r), r) /\ g = File(ScopePath(q), q) BY <1>1, <1>3, Kinds
  <2>2. f.path[2] = r /\ g.path[2] = q BY <2>1 DEF File, ScopePath
  <2> QED BY <2>1, <2>2
<1>4. CASE f.path[1] = "orders"
  <2>1. f = File(OrderPath(r), r) /\ g = File(OrderPath(q), q) BY <1>1, <1>4, Kinds
  <2>2. f.path[2] = r /\ g.path[2] = q BY <2>1 DEF File, OrderPath
  <2> QED BY <2>1, <2>2
<1> QED BY <1>1, <1>2, <1>3, <1>4

(* What is signed as s belongs to r.                                          *)
Belongs(r, s) ==
    /\ s \in SignedRecords
    /\ s.att \in OwnAtts(r) /\ s.att.report.review = r

LEMMA DocsOwn ==
    ASSUME NEW r, NEW s, Belongs(r, s)
    PROVE  /\ Docs(r, s) \subseteq OwnFiles(r)
           /\ \A f \in Docs(r, s) : f.path[1] = "attestations" => f = AttFile(s.att)
           /\ Uniq(Docs(r, s))
<1>1. s.att \in OwnAtts(r) /\ s.att.report \in Reports /\ s.att.report.review = r
  BY DEF Belongs, OwnAtts, Attestations
<1>2. Docs(r, s) \subseteq OwnFiles(r)
  BY <1>1 DEF Docs, OwnFiles, EngagementFiles
<1>3. \A f \in Docs(r, s) : f.path[1] = "attestations" => f = AttFile(s.att)
  BY DEF Docs, EngagementFiles, File, ScopePath, OrderPath, ReportOf, ReportPath
<1>4. Uniq(Docs(r, s)) BY <1>2, <1>3, PathsTell DEF Uniq
<1> QED BY <1>2, <1>3, <1>4

LEMMA PutIs ==
    ASSUME NEW fs, Uniq(fs), NEW f
    PROVE  /\ Uniq(Put(fs, f)) /\ f \in Put(fs, f)
           /\ \A g : g \in Put(fs, f) <=> g = f \/ (g \in fs /\ g.path # f.path)
BY DEF Put, At, Uniq
-------------------------------------------------------------------------------
(* Types.                                                                     *)
Findings == [FindingIds -> {"absent", "kept", "dropped", "pending"}]
Records == [ agent : {"none", "running", "done", "error"},
             coverage : {"none", "partial", "complete"}, refused : BOOLEAN,
             findings : Findings, signed : SignedRecords \cup {None} ]
Lists == [epoch : Nat, atts : SUBSET Attestations]
Jobs == [ op : {"none", "sign", "release"},
          step : {"idle", "write", "collect", "resign", "save"},
          stash : SUBSET TreeFiles, pub : SUBSET TreeFiles,
          signed : SignedRecords \cup {None}, at : Nat, read : Lists \cup {None} ]

(* The record of a review is one that may be signed as s at time t: s says    *)
(* what the record says, every finding is decided, and what an embargo holds  *)
(* is held or may be published.                                               *)
EmbargoEnds(r, s) == s.att.issuedAt + Embargo[r]

Fits(r, s, rec, t) ==
    /\ Belongs(r, s) /\ s.att.issuedAt <= t
    /\ s.att.report = Report(r, rec) /\ s.att.result = ResultClass(rec)
    /\ With(rec.findings, "pending") = {}
    /\ AttPath(s.att.id) \in s.held =>
          /\ Embargo[r] # None /\ s.until = EmbargoEnds(r, s)
          /\ PathsOf(EngagementFiles(r)) \subseteq s.held
    /\ s.att.result = "fail" /\ Embargo[r] # None =>
          AttPath(s.att.id) \in s.held \/ t >= EmbargoEnds(r, s)

(* What the review's directory S has at a path that s holds is a document of  *)
(* s, or one of the files K still to be written replaces it.                  *)
Fresh(r, s, K, S) ==
    \A f \in S : f.path \in s.held => f \in Docs(r, s) \/ \E g \in K : g.path = f.path

JobSafe(r, j, rec, S, t) ==
    /\ j.op \in {"sign", "release"}
    /\ Fits(r, j.signed, rec, t) /\ Fresh(r, j.signed, j.stash, S)
    /\ j.stash \subseteq Docs(r, j.signed) /\ j.pub \subseteq Docs(r, j.signed)
    /\ \A f \in j.pub : f.path \notin j.signed.held
    /\ j.step # "write" => j.stash = {} /\ j.pub = {}
    /\ j.step = "resign" => j.read \in Lists
    /\ j.op = "sign" => rec.signed = None
    /\ j.op = "release" =>
          /\ rec.signed # None /\ rec.signed.att = j.signed.att
          /\ j.signed.held = {} /\ j.stash = {}
          /\ rec.signed = j.signed \/ t >= rec.signed.until

ReviewSafe(r, rec, n, j, S, t) ==
    /\ n > 0 => rec.agent = "running" /\ r \in EngineReviews
    /\ r \notin EngineReviews => With(rec.findings, "pending") = {}
    /\ S \subseteq OwnFiles(r) /\ Uniq(S)
    /\ rec.signed # None => n = 0 /\ Fits(r, rec.signed, rec, t) /\ Fresh(r, rec.signed, {}, S)
    /\ j # NoJob => n = 0 /\ JobSafe(r, j, rec, S, t)

(* The tree has one file at a path, and no fail before its embargo's end.     *)
TreeSafe(T, t) ==
    /\ T \subseteq TreeFiles /\ Uniq(T)
    /\ \A a \in Published(T) :
          a.result = "fail" /\ Embargo[a.review] # None => t >= a.issuedAt + Embargo[a.review]

Typed ==
    /\ now \in Nat /\ crashes \in Nat /\ faults \in Nat /\ status \in Lists
    /\ record \in [Reviews -> Records] /\ engine \in [Reviews -> 0..1]
    /\ job \in [Reviews -> Jobs] /\ stash \in [Reviews -> SUBSET TreeFiles]

SafeNow(r) == ReviewSafe(r, record[r], engine[r], job[r], stash[r], now)

IInv == /\ Typed
        /\ \A r \in Reviews : SafeNow(r)
        /\ TreeSafe(tree, now)

(* As long as nothing has failed, a review that is not signed, is being       *)
(* signed under an embargo, or is under one has no order or scope out.        *)
Embargoed(r, rec, j, t) ==
    \/ rec.signed = None /\ j = NoJob
    \/ j.op = "sign" /\ AttPath(j.signed.att.id) \in j.signed.held
    \/ /\ rec.signed # None /\ AttPath(rec.signed.att.id) \in rec.signed.held
       /\ t < rec.signed.until

NothingOut ==
    crashes = 0 /\ faults = 0 =>
        \A r \in Reviews : Embargoed(r, record[r], job[r], now) => EngagementFiles(r) \cap tree = {}

(* Whoever signs has ids of their own.                                        *)
DistinctIds == \A r, q \in Reviews : r # q => IdsOf[r] \cap IdsOf[q] = {}

(* Every document of r signed as s is in the tree T or among the files P      *)
(* still to be published, or is held as s says, in the directory or among the *)
(* files K still to be written there; and what T has at the attestation's     *)
(* path is this attestation.                                                  *)
Settled(r, s, T, S, P, K) ==
    /\ \A f \in Docs(r, s) : f \in T \/ f \in P \/ (f.path \in s.held /\ (f \in S \/ f \in K))
    /\ \A f \in T : f.path = AttPath(s.att.id) => f = AttFile(s.att)

Kept(r, rec, j, T, S) ==
    /\ rec.signed # None => Settled(r, rec.signed, T, S, {}, {})
    /\ j # NoJob => Settled(r, j.signed, T, S, j.pub, j.stash)
    /\ j.step = "resign" => j.read.atts \subseteq Published(T)

KInv ==
    /\ \A r \in Reviews : Kept(r, record[r], job[r], tree, stash[r])
    /\ status.atts \subseteq Published(tree)

-------------------------------------------------------------------------------
LEMMA ConstantFacts ==
    /\ \A r \in Reviews : IdsOf[r] \subseteq AttIds /\ Embargo[r] \in Nat \cup {None}
    /\ None \notin Nat /\ None \notin SignedRecords
BY ReviewAssumption

LEMMA BelongsFacts ==
    ASSUME NEW r \in Reviews, NEW s, Belongs(r, s)
    PROVE  /\ s \in SignedRecords /\ s # None /\ s.until \in Nat
           /\ s.att \in Attestations /\ s.att.review = r /\ s.att.id \in IdsOf[r]
           /\ s.att.issuedAt \in Nat /\ s.att.id \in AttIds
           /\ Embargo[r] # None => EmbargoEnds(r, s) \in Nat
<1>1. s \in SignedRecords /\ s # None BY ConstantFacts DEF Belongs
<1>2. s.att \in Attestations /\ s.until \in Nat BY <1>1 DEF SignedRecords
<1>3. s.att.review = r /\ s.att.id \in IdsOf[r] BY DEF Belongs, OwnAtts
<1>4. s.att.issuedAt \in Nat /\ s.att.id \in AttIds BY <1>2 DEF Attestations
<1> QED BY <1>1, <1>2, <1>3, <1>4, ConstantFacts DEF EmbargoEnds

(* What holds of a review at a time holds of it later.                        *)
LEMMA FitsLater ==
    ASSUME NEW r \in Reviews, NEW s, NEW rec, NEW t \in Nat, NEW u \in Nat, t <= u,
           Fits(r, s, rec, t)
    PROVE  Fits(r, s, rec, u)
<1>1. Belongs(r, s) BY DEF Fits
<1>2. s.att.issuedAt \in Nat /\ (Embargo[r] # None => EmbargoEnds(r, s) \in Nat)
  BY <1>1, BelongsFacts
<1>3. s.att.issuedAt <= u BY <1>2 DEF Fits
<1>4. s.att.result = "fail" /\ Embargo[r] # None =>
        AttPath(s.att.id) \in s.held \/ u >= EmbargoEnds(r, s)
  <2>1. SUFFICES ASSUME s.att.result = "fail", Embargo[r] # None, AttPath(s.att.id) \notin s.held
                 PROVE  u >= EmbargoEnds(r, s)
    OBVIOUS
  <2>2. t >= EmbargoEnds(r, s) BY <2>1 DEF Fits
  <2> QED BY <2>1, <2>2, <1>2
<1> QED BY <1>3, <1>4 DEF Fits

(* Only the findings, the coverage and a refusal count.                       *)
LEMMA FitsAlike ==
    ASSUME NEW r, NEW s, NEW rec, NEW new, NEW t, Fits(r, s, rec, t),
           new.findings = rec.findings, new.coverage = rec.coverage, new.refused = rec.refused
    PROVE  Fits(r, s, new, t)
<1>1. Report(r, new) = Report(r, rec) BY DEF Report
<1>2. ResultClass(new) = ResultClass(rec) BY DEF ResultClass
<1> QED BY <1>1, <1>2 DEF Fits

LEMMA SafeLater ==
    ASSUME NEW r \in Reviews, NEW rec \in Records, NEW n, NEW j, NEW S, NEW t \in Nat,
           NEW u \in Nat, t <= u, ReviewSafe(r, rec, n, j, S, t)
    PROVE  ReviewSafe(r, rec, n, j, S, u)
<1>1. rec.signed # None => Fits(r, rec.signed, rec, u) BY FitsLater DEF ReviewSafe
<1>2. ASSUME JobSafe(r, j, rec, S, t) PROVE JobSafe(r, j, rec, S, u)
  <2>1. Fits(r, j.signed, rec, t) BY <1>2 DEF JobSafe
  <2>2. Fits(r, j.signed, rec, u) BY <2>1, FitsLater
  <2>3. rec.signed # None => rec.signed.until \in Nat
    BY DEF Records, SignedRecords
  <2>4. ASSUME rec.signed # None, t >= rec.signed.until PROVE u >= rec.signed.until
    BY <2>3, <2>4
  <2> QED BY <1>2, <2>2, <2>4 DEF JobSafe
<1> QED BY <1>1, <1>2 DEF ReviewSafe

(* What signing makes of a decided record.                                    *)
LEMMA SignedIs ==
    ASSUME now \in Nat, NEW r \in Reviews, NEW rec \in Records, NEW id \in IdsOf[r],
           NEW hold \in Nat \cup {None}, With(rec.findings, "pending") = {},
           NEW s, s = SignedRecord(r, rec, id, hold),
           NEW K, K = HeldFiles(r, rec, id, hold)
    PROVE  /\ Fits(r, s, rec, now)
           /\ AllFiles(r, rec, id) = Docs(r, s) /\ K \subseteq Docs(r, s)
           /\ s.held = PathsOf(K) /\ s.att.id = id
           /\ \A f \in Docs(r, s) \ K : f.path \notin s.held
<1> DEFINE a == Attestation(r, rec, id)
<1>1. /\ s.att = a /\ s.held = PathsOf(K)
      /\ s.until = IF HoldAttestation(r, rec) THEN now + Embargo[r]
                   ELSE IF hold # None THEN hold ELSE 0
  BY DEF SignedRecord
<1>2. /\ a.id = id /\ a.review = r /\ a.issuedAt = now /\ a.report = Report(r, rec)
      /\ a.result = ResultClass(rec)
  BY DEF Attestation
<1>3. Report(r, rec) \in Reports /\ Report(r, rec).review = r BY DEF Report, Reports, With
<1>4. ResultClass(rec) \in Results BY DEF ResultClass, Results
<1>5. a \in Attestations BY <1>3, <1>4, ConstantFacts DEF Attestation, Attestations
<1>6. AllFiles(r, rec, id) = Docs(r, s)
  BY <1>1, <1>2 DEF AllFiles, Docs, ReportFile, ReportOf, AttFile
<1>7. K \subseteq Docs(r, s)
  BY <1>1, <1>2 DEF HeldFiles, Docs, ReportFile, ReportOf, AttFile
<1>8. Docs(r, s) = EngagementFiles(r) \cup {AttFile(a), ReportOf(a.report)} BY <1>1 DEF Docs
<1>9. s.held \subseteq {AttPath(i) : i \in AttIds} \cup {OrderPath(q) : q \in Reviews}
                       \cup {ScopePath(q) : q \in Reviews} \cup {ReportPath(p) : p \in Reports}
  <2>1. SUFFICES ASSUME NEW f \in Docs(r, s)
                 PROVE  f.path \in {AttPath(i) : i \in AttIds} \cup {OrderPath(q) : q \in Reviews}
                                   \cup {ScopePath(q) : q \in Reviews}
                                   \cup {ReportPath(p) : p \in Reports}
    BY <1>1, <1>7 DEF PathsOf
  <2>2. CASE f = AttFile(a)
    BY <2>2, <1>2, ConstantFacts DEF AttFile, File
  <2>3. CASE f = ReportOf(a.report) BY <2>3, <1>2, <1>3 DEF ReportOf, File
  <2>4. CASE f \in EngagementFiles(r) BY <2>4 DEF EngagementFiles, File
  <2> QED BY <1>8, <2>2, <2>3, <2>4
<1>10. s.until \in Nat BY <1>1, ConstantFacts DEF HoldAttestation
<1>11. s \in SignedRecords
  <2>1. s = [att |-> s.att, held |-> s.held, until |-> s.until] BY DEF SignedRecord
  <2> QED BY <2>1, <1>1, <1>5, <1>9, <1>10 DEF SignedRecords
<1>12. Belongs(r, s) BY <1>11, <1>1, <1>2, <1>3, <1>5 DEF Belongs, OwnAtts
<1>13. \A f \in Docs(r, s) \ K : f.path \notin s.held
  BY <1>1, <1>7, <1>12, DocsOwn DEF PathsOf, Uniq
<1>14. AttPath(id) \in s.held <=> HoldAttestation(r, rec)
  <2>1. CASE HoldAttestation(r, rec)
    <3>1. File(AttPath(id), a) \in K BY <2>1 DEF HeldFiles
    <3>2. File(AttPath(id), a).path = AttPath(id) BY DEF File
    <3> QED BY <1>1, <2>1, <3>1, <3>2 DEF PathsOf
  <2>2. CASE ~HoldAttestation(r, rec)
    BY <1>1, <2>2 DEF HeldFiles, ReportFile, PathsOf, File, ReportPath, AttPath
  <2> QED BY <2>1, <2>2
<1>15. HoldAttestation(r, rec) => PathsOf(EngagementFiles(r)) \subseteq s.held
  BY <1>1 DEF HeldFiles, PathsOf
<1>16. HoldAttestation(r, rec) => Embargo[r] # None /\ s.until = EmbargoEnds(r, s)
  BY <1>1, <1>2 DEF HoldAttestation, EmbargoEnds
<1>17. ResultClass(rec) = "fail" /\ Embargo[r] # None => HoldAttestation(r, rec)
  BY DEF HoldAttestation
<1>18. s.att.issuedAt <= now BY <1>1, <1>2
<1>19. Fits(r, s, rec, now)
  BY <1>1, <1>2, <1>12, <1>14, <1>15, <1>16, <1>17, <1>18 DEF Fits
<1> QED BY <1>1, <1>2, <1>6, <1>7, <1>13, <1>19
-------------------------------------------------------------------------------
LEMMA InitSafe == Init => IInv
<1> SUFFICES ASSUME Init PROVE IInv OBVIOUS
<1>1. NewReview \in Records BY DEF NewReview, Records, Findings
<1>2. NoJob \in Jobs BY DEF NoJob, Jobs
<1>3. Typed
  <2>1. status \in Lists BY DEF Init, Lists
  <2> QED BY <1>1, <1>2, <2>1 DEF Init, Typed
<1>4. TreeSafe(tree, now) BY DEF Init, TreeSafe, Uniq, Published
<1>5. With(NewReview.findings, "pending") = {} /\ NewReview.signed = None
  BY DEF With, NewReview
<1>6. \A r \in Reviews : ReviewSafe(r, NewReview, 0, NoJob, {}, now)
  BY <1>5 DEF ReviewSafe, Uniq
<1>7. \A r \in Reviews : record[r] = NewReview /\ engine[r] = 0 /\ job[r] = NoJob /\ stash[r] = {}
  BY DEF Init
<1>8. \A r \in Reviews : SafeNow(r) BY <1>6, <1>7 DEF SafeNow
<1> QED BY <1>3, <1>4, <1>8 DEF IInv

(* A step of review r, which has rec, n, j and S afterwards.                  *)
StepOf(r, rec, n, j, S) ==
    /\ record' = [record EXCEPT ![r] = rec] /\ engine' = [engine EXCEPT ![r] = n]
    /\ job' = [job EXCEPT ![r] = j] /\ stash' = [stash EXCEPT ![r] = S]
    /\ now' = now

LEMMA SafeStep ==
    ASSUME IInv, NEW r \in Reviews, NEW rec \in Records, NEW n \in 0..1, NEW j \in Jobs,
           NEW S \in SUBSET TreeFiles, StepOf(r, rec, n, j, S),
           ReviewSafe(r, rec, n, j, S, now), TreeSafe(tree', now),
           status' \in Lists, crashes' \in Nat, faults' \in Nat
    PROVE  IInv'
<1>1. Typed' BY DEF IInv, Typed, StepOf
<1>2. ASSUME NEW q \in Reviews, q # r
      PROVE  record'[q] = record[q] /\ engine'[q] = engine[q] /\ job'[q] = job[q]
             /\ stash'[q] = stash[q]
  BY <1>2 DEF IInv, Typed, StepOf
<1>3. record'[r] = rec /\ engine'[r] = n /\ job'[r] = j /\ stash'[r] = S
  BY DEF IInv, Typed, StepOf
<1>4. now' = now BY DEF StepOf
<1>5. ASSUME NEW q \in Reviews
      PROVE  ReviewSafe(q, record'[q], engine'[q], job'[q], stash'[q], now)
  <2>1. CASE q = r BY <1>3, <2>1
  <2>2. CASE q # r BY <1>2, <2>2 DEF IInv, SafeNow
  <2> QED BY <2>1, <2>2
<1>6. \A q \in Reviews : SafeNow(q)' BY <1>4, <1>5 DEF SafeNow
<1>7. TreeSafe(tree, now)' BY <1>4
<1> QED BY <1>1, <1>6, <1>7 DEF IInv

LEMMA ReviewFacts ==
    ASSUME IInv, NEW r \in Reviews
    PROVE  /\ record[r] \in Records /\ engine[r] \in 0..1 /\ job[r] \in Jobs
           /\ stash[r] \in SUBSET TreeFiles
           /\ now \in Nat /\ crashes \in Nat /\ faults \in Nat /\ status \in Lists
           /\ ReviewSafe(r, record[r], engine[r], job[r], stash[r], now)
           /\ TreeSafe(tree, now) /\ tree \subseteq TreeFiles /\ Uniq(tree)
           /\ record = [record EXCEPT ![r] = record[r]]
           /\ engine = [engine EXCEPT ![r] = engine[r]]
           /\ job = [job EXCEPT ![r] = job[r]] /\ stash = [stash EXCEPT ![r] = stash[r]]
BY DEF IInv, Typed, SafeNow, TreeSafe

LEMMA OwnInTree ==
    ASSUME NEW r \in Reviews, NEW s, Belongs(r, s)
    PROVE  Docs(r, s) \subseteq TreeFiles
BY DocsOwn DEF TreeFiles

-------------------------------------------------------------------------------
(* Changes of the record, while the review is not locked and not signed.      *)
LEMMA UpdateSafe ==
    ASSUME IInv, NEW r \in Reviews, NEW rec \in Records, NEW n \in 0..1, Update(r, rec),
           engine' = [engine EXCEPT ![r] = n], rec.signed = None,
           n > 0 => rec.agent = "running" /\ r \in EngineReviews,
           r \notin EngineReviews => With(rec.findings, "pending") = {}
    PROVE  IInv'
<1>1. job[r] = NoJob BY DEF Update, Unlocked
<1>2. ReviewSafe(r, record[r], engine[r], job[r], stash[r], now) BY ReviewFacts
<1>3. ReviewSafe(r, rec, n, job[r], stash[r], now) BY <1>1, <1>2 DEF ReviewSafe
<1>4. StepOf(r, rec, n, job[r], stash[r]) BY ReviewFacts DEF Update, StepOf
<1>5. tree' = tree /\ status' = status /\ crashes' = crashes /\ faults' = faults
  BY DEF Update
<1> QED BY <1>3, <1>4, <1>5, ReviewFacts, SafeStep

LEMMA FindingSafe ==
    ASSUME IInv, NEW r \in Reviews, NEW f \in FindingIds, NEW st \in {"kept", "dropped", "absent"},
           Update(r, [record[r] EXCEPT !.findings[f] = st]), UNCHANGED engine
    PROVE  IInv'
<1> DEFINE rec == [record[r] EXCEPT !.findings[f] = st]
<1>1. record[r] \in Records BY ReviewFacts
<1>2. record[r].findings \in Findings /\ record[r].signed = None /\ job[r] = NoJob
  BY <1>1 DEF Records, Update, Unlocked
<1>3. rec.findings = [record[r].findings EXCEPT ![f] = st] /\ rec.signed = None
      /\ rec.agent = record[r].agent
  BY <1>1, <1>2 DEF Records
<1>4. rec.findings \in Findings BY <1>2, <1>3 DEF Findings
<1>5. rec \in Records BY <1>1, <1>3, <1>4 DEF Records
<1>6. With(rec.findings, "pending") \subseteq With(record[r].findings, "pending")
  BY <1>2, <1>3 DEF With, Findings
<1>7. /\ engine[r] > 0 => rec.agent = "running" /\ r \in EngineReviews
      /\ r \notin EngineReviews => With(rec.findings, "pending") = {}
  BY <1>3, <1>6, ReviewFacts DEF ReviewSafe
<1>8. engine' = [engine EXCEPT ![r] = engine[r]] /\ engine[r] \in 0..1 BY ReviewFacts
<1> HIDE DEF rec
<1>9. Update(r, rec) BY DEF rec
<1> QED BY <1>3, <1>5, <1>7, <1>8, <1>9, UpdateSafe

LEMMA CoverageSafe ==
    ASSUME IInv, NEW r \in Reviews, NEW c \in Coverages, SetCoverage(r, c)
    PROVE  IInv'
<1> DEFINE rec == [record[r] EXCEPT !.coverage = c]
<1>1. record[r] \in Records BY ReviewFacts
<1>2. c \in {"none", "partial", "complete"} BY ReviewAssumption
<1>3. Update(r, rec) /\ engine' = engine /\ record[r].signed = None
  BY DEF SetCoverage, Update
<1>4. rec.findings = record[r].findings /\ rec.signed = None /\ rec.agent = record[r].agent
  BY <1>1, <1>3 DEF Records
<1>5. rec \in Records BY <1>1, <1>2 DEF Records
<1>6. /\ engine[r] > 0 => rec.agent = "running" /\ r \in EngineReviews
      /\ r \notin EngineReviews => With(rec.findings, "pending") = {}
  BY <1>4, ReviewFacts DEF ReviewSafe
<1>7. engine' = [engine EXCEPT ![r] = engine[r]] /\ engine[r] \in 0..1 BY <1>3, ReviewFacts
<1> HIDE DEF rec
<1> QED BY <1>3, <1>4, <1>5, <1>6, <1>7, UpdateSafe

LEMMA StartSafe ==
    ASSUME IInv, NEW r \in Reviews, StartAgent(r)
    PROVE  IInv'
<1> DEFINE rec == [record[r] EXCEPT !.agent = "running"]
<1>1. record[r] \in Records /\ engine[r] \in 0..1 BY ReviewFacts
<1>2. Update(r, rec) /\ record[r].signed = None /\ r \in EngineReviews
      /\ record[r].agent # "running"
  BY DEF StartAgent, Update
<1>3. engine[r] = 0 BY <1>1, <1>2, ReviewFacts DEF ReviewSafe
<1>4. engine' = [engine EXCEPT ![r] = 1]
  BY <1>3 DEF StartAgent
<1>5. rec \in Records /\ rec.signed = None /\ rec.agent = "running"
  BY <1>1, <1>2 DEF Records
<1>6. PICK n \in 0..1 : n = 1 OBVIOUS
<1> HIDE DEF rec
<1> QED BY <1>2, <1>4, <1>5, <1>6, UpdateSafe

(* The engine comes back to a review that is neither locked nor signed.       *)
LEMMA EngineSafe ==
    ASSUME IInv, NEW r \in Reviews, NEW rec \in Records, engine[r] > 0, Unlocked(r),
           engine' = [engine EXCEPT ![r] = @ - 1], record' = [record EXCEPT ![r] = rec],
           rec.signed = record[r].signed,
           UNCHANGED <<now, tree, status, stash, job, crashes, faults>>
    PROVE  IInv'
<1>1. /\ engine[r] = 1 /\ job[r] = NoJob
      /\ ReviewSafe(r, record[r], engine[r], job[r], stash[r], now)
  BY ReviewFacts DEF Unlocked
<1>2. rec.signed = None /\ r \in EngineReviews BY <1>1 DEF ReviewSafe
<1>3. ReviewSafe(r, rec, 0, job[r], stash[r], now) BY <1>1, <1>2 DEF ReviewSafe
<1>4. StepOf(r, rec, 0, job[r], stash[r]) BY <1>1, ReviewFacts DEF StepOf
<1>5. tree' = tree /\ status' = status /\ crashes' = crashes /\ faults' = faults OBVIOUS
<1> QED BY <1>3, <1>4, <1>5, ReviewFacts, SafeStep

LEMMA ErrorSafe ==
    ASSUME IInv, NEW r \in Reviews, AgentError(r)
    PROVE  IInv'
<1> DEFINE rec == [record[r] EXCEPT !.agent = "error"]
<1>1. record[r] \in Records BY ReviewFacts
<1>2. rec \in Records /\ rec.signed = record[r].signed BY <1>1 DEF Records
<1>3. record' = [record EXCEPT ![r] = rec] BY DEF AgentError
<1> HIDE DEF rec
<1> QED BY <1>2, <1>3, EngineSafe DEF AgentError

LEMMA DoneSafe ==
    ASSUME IInv, NEW r \in Reviews, NEW found \in SUBSET FindingIds, NEW c \in Coverages,
           NEW refused \in Refusals, AgentDone(r, found, c, refused)
    PROVE  IInv'
<1> DEFINE fs == [f \in FindingIds |-> IF f \in found THEN "pending" ELSE record[r].findings[f]]
           rec == [ agent |-> "done", coverage |-> c, refused |-> refused, findings |-> fs,
                    signed |-> record[r].signed ]
<1>1. record[r] \in Records BY ReviewFacts
<1>2. c \in {"none", "partial", "complete"} /\ refused \in BOOLEAN BY ReviewAssumption
<1>3. fs \in Findings /\ record[r].signed \in SignedRecords \cup {None}
  BY <1>1 DEF Records, Findings
<1>4. rec \in Records /\ rec.signed = record[r].signed BY <1>2, <1>3 DEF Records
<1>5. record' = [record EXCEPT ![r] = rec] BY DEF AgentDone
<1> HIDE DEF rec
<1> QED BY <1>4, <1>5, EngineSafe DEF AgentDone

LEMMA ExamineSafe ==
    ASSUME IInv, NEW r \in Reviews, Examine(r)
    PROVE  IInv'
<1>1. ASSUME NEW f \in FindingIds, AddManual(r, f) PROVE IInv'
  BY <1>1, FindingSafe DEF AddManual
<1>2. ASSUME NEW f \in FindingIds, NEW st \in {"kept", "dropped", "absent"}, Decide(r, f, st)
      PROVE  IInv'
  BY <1>2, FindingSafe DEF Decide
<1>3. ASSUME NEW c \in Coverages \ {"none"}, SetCoverage(r, c) PROVE IInv'
  BY <1>3, CoverageSafe
<1>4. ASSUME NEW found \in SUBSET FindingIds, NEW c \in Coverages, NEW refused \in Refusals,
             AgentDone(r, found, c, refused)
      PROVE  IInv'
  BY <1>4, DoneSafe
<1> QED BY <1>1, <1>2, <1>3, <1>4, StartSafe, ErrorSafe DEF Examine
-------------------------------------------------------------------------------
(* Signing and releasing.                                                     *)

LEMMA JobFacts ==
    ASSUME IInv, NEW r \in Reviews, job[r] # NoJob
    PROVE  /\ engine[r] = 0 /\ job[r].op \in {"sign", "release"}
           /\ JobSafe(r, job[r], record[r], stash[r], now)
           /\ Belongs(r, job[r].signed) /\ job[r].signed \in SignedRecords
           /\ Docs(r, job[r].signed) \subseteq TreeFiles
           /\ job[r].stash \subseteq TreeFiles /\ job[r].pub \subseteq TreeFiles
           /\ job[r].at \in Nat
<1>1. engine[r] = 0 /\ JobSafe(r, job[r], record[r], stash[r], now)
  BY ReviewFacts DEF ReviewSafe
<1>2. Belongs(r, job[r].signed) BY <1>1 DEF JobSafe, Fits
<1>3. job[r].at \in Nat /\ job[r].stash \subseteq TreeFiles /\ job[r].pub \subseteq TreeFiles
  BY ReviewFacts DEF Jobs
<1> QED BY <1>1, <1>2, <1>3, OwnInTree, BelongsFacts DEF JobSafe

LEMMA Working ==
    ASSUME NEW r
    PROVE  /\ job[r].step # "idle" => job[r] # NoJob
           /\ job[r].op # "none" => job[r] # NoJob
BY DEF NoJob

(* A step that changes only the job of r, and the directory of r.             *)
LEMMA JobStep ==
    ASSUME IInv, NEW r \in Reviews, NEW j \in Jobs, NEW S, S \subseteq OwnFiles(r), Uniq(S),
           job' = [job EXCEPT ![r] = j], stash' = [stash EXCEPT ![r] = S],
           UNCHANGED <<now, record, engine, crashes, faults>>,
           TreeSafe(tree', now), status' \in Lists,
           record[r].signed # None => Fresh(r, record[r].signed, {}, S),
           j # NoJob => engine[r] = 0 /\ JobSafe(r, j, record[r], S, now)
    PROVE  IInv'
<1>1. ReviewSafe(r, record[r], engine[r], job[r], stash[r], now) BY ReviewFacts
<1>2. ReviewSafe(r, record[r], engine[r], j, S, now) BY <1>1 DEF ReviewSafe
<1>3. StepOf(r, record[r], engine[r], j, S) BY ReviewFacts DEF StepOf
<1>4. S \in SUBSET TreeFiles BY DEF TreeFiles
<1>5. crashes' = crashes /\ faults' = faults OBVIOUS
<1> QED BY <1>2, <1>3, <1>4, <1>5, ReviewFacts, SafeStep

LEMMA OwnStash ==
    ASSUME IInv, NEW r \in Reviews
    PROVE  /\ stash[r] \subseteq OwnFiles(r) /\ Uniq(stash[r])
           /\ record[r].signed # None =>
                /\ engine[r] = 0 /\ Fits(r, record[r].signed, record[r], now)
                /\ Fresh(r, record[r].signed, {}, stash[r])
                /\ Belongs(r, record[r].signed)
BY ReviewFacts DEF ReviewSafe, Fits

LEMMA SignSafe ==
    ASSUME IInv, NEW r \in Reviews, NEW id \in AttIds, NEW hold \in Nat \cup {None},
           Sign(r, id, hold)
    PROVE  IInv'
<1>1. PICK s : s = SignedRecord(r, record[r], id, hold) OBVIOUS
<1>2. PICK K : K = HeldFiles(r, record[r], id, hold) OBVIOUS
<1>3. /\ record[r].signed = None /\ id \in IdsOf[r] /\ With(record[r].findings, "pending") = {}
      /\ r \in EngineReviews => record[r].agent = "done"
  BY DEF Sign, Blocked
<1>4. record[r] \in Records /\ now \in Nat BY ReviewFacts
<1>5. /\ Fits(r, s, record[r], now)
      /\ AllFiles(r, record[r], id) = Docs(r, s) /\ K \subseteq Docs(r, s)
      /\ s.held = PathsOf(K) /\ \A f \in Docs(r, s) \ K : f.path \notin s.held
  BY <1>1, <1>2, <1>3, <1>4, SignedIs
<1>6. Belongs(r, s) /\ s \in SignedRecords BY <1>5, BelongsFacts DEF Fits
<1>7. Docs(r, s) \subseteq TreeFiles BY <1>6, OwnInTree
<1> DEFINE j == Writing("sign", K, Docs(r, s) \ K, s)
<1>8. j \in Jobs BY <1>4, <1>5, <1>6, <1>7 DEF Writing, Jobs
<1>9. /\ j.op = "sign" /\ j.step = "write" /\ j.stash = K /\ j.pub = Docs(r, s) \ K
      /\ j.signed = s
  BY DEF Writing
<1>10. engine[r] = 0 BY <1>3, ReviewFacts DEF ReviewSafe
<1>11. Fresh(r, s, K, stash[r]) BY <1>5 DEF Fresh, PathsOf
<1>12. job' = [job EXCEPT ![r] = j] BY <1>1, <1>2, <1>5 DEF Sign
<1> HIDE DEF j
<1>13. JobSafe(r, j, record[r], stash[r], now)
  BY <1>3, <1>5, <1>9, <1>11 DEF JobSafe
<1>14. /\ UNCHANGED <<now, record, engine, crashes, faults>> /\ tree' = tree
       /\ status' = status /\ stash' = [stash EXCEPT ![r] = stash[r]]
  BY ReviewFacts DEF Sign
<1> QED BY <1>3, <1>8, <1>10, <1>12, <1>13, <1>14, OwnStash, ReviewFacts, JobStep

(* What is released is what the record holds, and may be published by now.    *)
LEMMA ReleaseIs ==
    ASSUME IInv, NEW r \in Reviews, record[r].signed # None, now >= record[r].signed.until,
           NEW s, s = [att |-> record[r].signed.att, held |-> {}, until |-> 0],
           NEW P, P = {f \in stash[r] : f.path \in record[r].signed.held}
    PROVE  /\ Fits(r, s, record[r], now) /\ Docs(r, s) = Docs(r, record[r].signed)
           /\ P \subseteq Docs(r, s)
<1> DEFINE old == record[r].signed
<1>1. Fits(r, old, record[r], now) /\ Fresh(r, old, {}, stash[r]) /\ Belongs(r, old)
  BY OwnStash
<1>2. s.att = old.att /\ s.held = {} /\ s.until = 0 OBVIOUS
<1>3. Docs(r, s) = Docs(r, old) BY <1>2 DEF Docs
<1>4. P \subseteq Docs(r, s) BY <1>1, <1>3 DEF Fresh
<1>5. old.att \in Attestations BY <1>1, BelongsFacts
<1>6. s \in SignedRecords BY <1>5 DEF SignedRecords
<1>7. Belongs(r, s) BY <1>1, <1>2, <1>6 DEF Belongs
<1>8. s.att.result = "fail" /\ Embargo[r] # None => now >= EmbargoEnds(r, s)
  BY <1>1, <1>2 DEF Fits, EmbargoEnds
<1>9. Fits(r, s, record[r], now) BY <1>1, <1>2, <1>7, <1>8 DEF Fits
<1> QED BY <1>3, <1>4, <1>9

LEMMA ReleaseSafe ==
    ASSUME IInv, NEW r \in Reviews, Release(r)
    PROVE  IInv'
<1>1. PICK s : s = [att |-> record[r].signed.att, held |-> {}, until |-> 0] OBVIOUS
<1>2. PICK P : P = {f \in stash[r] : f.path \in record[r].signed.held} OBVIOUS
<1>3. record[r].signed # None /\ now >= record[r].signed.until BY DEF Release
<1>4. Fits(r, s, record[r], now) /\ P \subseteq Docs(r, s)
  BY <1>1, <1>2, <1>3, ReleaseIs
<1>5. Belongs(r, s) /\ s \in SignedRecords BY <1>4, BelongsFacts DEF Fits
<1>6. Docs(r, s) \subseteq TreeFiles BY <1>5, OwnInTree
<1> DEFINE j == Writing("release", {}, P, s)
<1>7. j \in Jobs BY <1>4, <1>5, <1>6, ReviewFacts DEF Writing, Jobs
<1>8. /\ j.op = "release" /\ j.step = "write" /\ j.stash = {} /\ j.pub = P /\ j.signed = s
  BY DEF Writing
<1>9. s.att = record[r].signed.att /\ s.held = {} BY <1>1
<1>10. Fresh(r, s, {}, stash[r]) BY <1>9 DEF Fresh
<1>11. job' = [job EXCEPT ![r] = j] BY <1>1, <1>2 DEF Release
<1> HIDE DEF j
<1>12. JobSafe(r, j, record[r], stash[r], now)
  BY <1>3, <1>4, <1>8, <1>9, <1>10 DEF JobSafe
<1>13. /\ UNCHANGED <<now, record, engine, crashes, faults>> /\ tree' = tree
       /\ status' = status /\ stash' = [stash EXCEPT ![r] = stash[r]]
  BY ReviewFacts DEF Release
<1> QED BY <1>3, <1>7, <1>11, <1>12, <1>13, OwnStash, ReviewFacts, JobStep
LEMMA WriteHeldSafe ==
    ASSUME IInv, NEW r \in Reviews, WriteHeld(r)
    PROVE  IInv'
<1>1. PICK f \in job[r].stash : /\ stash' = [stash EXCEPT ![r] = Put(stash[r], f)]
                                /\ job' = [job EXCEPT ![r].stash = job[r].stash \ {f}]
  BY DEF WriteHeld
<1>2. job[r].step = "write" /\ job[r] # NoJob BY Working DEF WriteHeld
<1> DEFINE j == [job[r] EXCEPT !.stash = job[r].stash \ {f}]
           S == Put(stash[r], f)
<1>3. /\ JobSafe(r, job[r], record[r], stash[r], now) /\ engine[r] = 0
      /\ Belongs(r, job[r].signed)
  BY <1>2, JobFacts
<1>4. f \in Docs(r, job[r].signed) /\ f \in OwnFiles(r) /\ job[r].stash # {}
  BY <1>1, <1>3, DocsOwn DEF JobSafe
<1>5. job[r].op = "sign" /\ record[r].signed = None BY <1>3, <1>4 DEF JobSafe
<1>6. job[r] \in Jobs BY ReviewFacts
<1>7. /\ j \in Jobs /\ j.op = job[r].op /\ j.step = "write" /\ j.pub = job[r].pub
      /\ j.signed = job[r].signed /\ j.stash = job[r].stash \ {f} /\ j.read = job[r].read
  BY <1>2, <1>6 DEF Jobs
<1>8. S \subseteq OwnFiles(r) /\ Uniq(S)
      /\ \A g : g \in S <=> g = f \/ (g \in stash[r] /\ g.path # f.path)
  BY <1>4, OwnStash, PutIs
<1>9. job' = [job EXCEPT ![r] = j] BY <1>1
<1> HIDE DEF j, S
<1>10. Fresh(r, j.signed, j.stash, S)
  <2>1. SUFFICES ASSUME NEW g \in S, g.path \in job[r].signed.held,
                        g \notin Docs(r, job[r].signed)
                 PROVE  \E h \in job[r].stash \ {f} : h.path = g.path
    BY <1>7 DEF Fresh
  <2>2. g \in stash[r] /\ g.path # f.path BY <1>4, <1>8, <2>1
  <2>3. PICK h \in job[r].stash : h.path = g.path BY <1>3, <2>1, <2>2 DEF JobSafe, Fresh
  <2> QED BY <2>2, <2>3
<1>11. JobSafe(r, j, record[r], S, now) BY <1>3, <1>5, <1>7, <1>10 DEF JobSafe
<1>12. /\ UNCHANGED <<now, record, engine, crashes, faults>> /\ tree' = tree
       /\ status' = status
  BY DEF WriteHeld
<1>13. stash' = [stash EXCEPT ![r] = S] BY <1>1 DEF S
<1> QED BY <1>3, <1>5, <1>7, <1>8, <1>9, <1>11, <1>12, <1>13, ReviewFacts, JobStep

LEMMA PublishedIs ==
    ASSUME NEW T
    PROVE  \A a : a \in Published(T) <=> \E f \in T : f.path[1] = "attestations" /\ a = f.doc
BY DEF Published

LEMMA PublishedTyped ==
    ASSUME NEW T, T \subseteq TreeFiles
    PROVE  Published(T) \subseteq Attestations
<1>1. SUFFICES ASSUME NEW f \in T, f.path[1] = "attestations" PROVE f.doc \in Attestations
  BY PublishedIs
<1>2. PICK r \in Reviews : f \in OwnFiles(r) BY DEF TreeFiles
<1> QED BY <1>1, <1>2, Kinds

(* A file of the documents of r, not held, may be written into the tree.      *)
LEMMA PutTree ==
    ASSUME NEW r \in Reviews, NEW s, NEW rec, NEW t, Fits(r, s, rec, t), NEW T, TreeSafe(T, t),
           NEW f \in Docs(r, s), f.path \notin s.held
    PROVE  TreeSafe(Put(T, f), t)
<1>1. Belongs(r, s) BY DEF Fits
<1>2. f \in TreeFiles /\ (f.path[1] = "attestations" => f = AttFile(s.att))
  BY <1>1, DocsOwn, OwnInTree
<1>3. Uniq(T) /\ T \subseteq TreeFiles BY DEF TreeSafe
<1>4. Uniq(Put(T, f)) /\ \A g : g \in Put(T, f) <=> g = f \/ (g \in T /\ g.path # f.path)
  BY <1>3, PutIs
<1>5. Put(T, f) \subseteq TreeFiles BY <1>2, <1>3, <1>4
<1>6. ASSUME NEW g \in Put(T, f), g.path[1] = "attestations", g.doc.result = "fail",
             Embargo[g.doc.review] # None
      PROVE  t >= g.doc.issuedAt + Embargo[g.doc.review]
  <2>1. CASE g \in T
    <3>1. g.doc \in Published(T) BY <1>6, <2>1 DEF Published
    <3> QED BY <1>6, <3>1 DEF TreeSafe
  <2>2. CASE g = f
    <3>1. g.doc = s.att /\ f.path = AttPath(s.att.id)
      BY <1>2, <1>6, <2>2 DEF AttFile, File
    <3>2. s.att.review = r BY <1>1, BelongsFacts
    <3> QED BY <1>6, <3>1, <3>2 DEF Fits, EmbargoEnds
  <2> QED BY <1>4, <2>1, <2>2
<1>7. \A a \in Published(Put(T, f)) :
         a.result = "fail" /\ Embargo[a.review] # None => t >= a.issuedAt + Embargo[a.review]
  BY <1>6, PublishedIs
<1> QED BY <1>4, <1>5, <1>7 DEF TreeSafe

LEMMA WritePublicSafe ==
    ASSUME IInv, NEW r \in Reviews, WritePublic(r)
    PROVE  IInv'
<1>1. PICK f \in job[r].pub : /\ tree' = Put(tree, f)
                              /\ job' = [job EXCEPT ![r].pub = job[r].pub \ {f}]
  BY DEF WritePublic
<1>2. job[r].step = "write" /\ job[r] # NoJob BY Working DEF WritePublic
<1> DEFINE j == [job[r] EXCEPT !.pub = job[r].pub \ {f}]
<1>3. /\ JobSafe(r, job[r], record[r], stash[r], now) /\ engine[r] = 0
      /\ Fits(r, job[r].signed, record[r], now)
  BY <1>2, JobFacts DEF JobSafe
<1>4. f \in Docs(r, job[r].signed) /\ f.path \notin job[r].signed.held
  BY <1>1, <1>3 DEF JobSafe
<1>5. TreeSafe(tree', now) BY <1>1, <1>3, <1>4, PutTree, ReviewFacts
<1>6. job[r] \in Jobs BY ReviewFacts
<1>7. /\ j \in Jobs /\ j.op = job[r].op /\ j.step = "write" /\ j.pub = job[r].pub \ {f}
      /\ j.signed = job[r].signed /\ j.stash = job[r].stash /\ j.read = job[r].read
  BY <1>2, <1>6 DEF Jobs
<1>8. job' = [job EXCEPT ![r] = j] BY <1>1
<1> HIDE DEF j
<1>9. JobSafe(r, j, record[r], stash[r], now) BY <1>3, <1>7 DEF JobSafe
<1>10. /\ UNCHANGED <<now, record, engine, crashes, faults>> /\ status' = status
       /\ stash' = [stash EXCEPT ![r] = stash[r]]
  BY ReviewFacts DEF WritePublic
<1> QED BY <1>3, <1>5, <1>7, <1>8, <1>9, <1>10, OwnStash, ReviewFacts, JobStep

(* The steps of a job that has written its files.                             *)
LEMMA OnwardSafe ==
    ASSUME IInv, NEW r \in Reviews, job[r] # NoJob,
           NEW step \in {"collect", "resign", "save"}, NEW read \in Lists \cup {None},
           step = "resign" => read \in Lists, NEW rec, JobSafe(r, job[r], rec, stash[r], now),
           job[r].stash = {}
    PROVE  /\ Onward(job[r], step, read) \in Jobs
           /\ JobSafe(r, Onward(job[r], step, read), rec, stash[r], now)
<1>1. job[r] \in Jobs BY ReviewFacts
<1>2. Onward(job[r], step, read) \in Jobs BY <1>1 DEF Onward, Jobs
<1> DEFINE j == Onward(job[r], step, read)
<1>3. /\ j.op = job[r].op /\ j.step = step /\ j.pub = {} /\ j.stash = {}
      /\ j.signed = job[r].signed /\ j.read = read
  BY DEF Onward
<1> HIDE DEF j
<1>4. JobSafe(r, j, rec, stash[r], now) BY <1>3 DEF JobSafe
<1> QED BY <1>2, <1>4 DEF j

LEMMA WroteSafe ==
    ASSUME IInv, NEW r \in Reviews, Wrote(r)
    PROVE  IInv'
<1>1. PICK step \in {"collect", "save"} : job' = [job EXCEPT ![r] = Onward(job[r], step, None)]
  BY DEF Wrote
<1>2. job[r] # NoJob /\ job[r].stash = {} BY Working DEF Wrote
<1>3. JobSafe(r, job[r], record[r], stash[r], now) /\ engine[r] = 0 BY <1>2, JobFacts
<1>4. PICK j : j = Onward(job[r], step, None) OBVIOUS
<1>5. j \in Jobs /\ JobSafe(r, j, record[r], stash[r], now)
  BY <1>2, <1>3, <1>4, OnwardSafe
<1>6. /\ UNCHANGED <<now, record, engine, crashes, faults>> /\ status' = status
      /\ tree' = tree /\ stash' = [stash EXCEPT ![r] = stash[r]]
  BY ReviewFacts DEF Wrote
<1> QED BY <1>1, <1>3, <1>4, <1>5, <1>6, OwnStash, ReviewFacts, JobStep

LEMMA CollectSafe ==
    ASSUME IInv, NEW r \in Reviews, Collect(r)
    PROVE  IInv'
<1>1. PICK list : /\ list = [ epoch |-> Epoch(job[r].at, status.epoch),
                              atts |-> Published(tree) ]
                  /\ job' = [job EXCEPT ![r] = Onward(job[r], "resign", list)]
  BY DEF Collect
<1>2. job[r] # NoJob /\ job[r].step = "collect" BY Working DEF Collect
<1>3. JobSafe(r, job[r], record[r], stash[r], now) /\ engine[r] = 0 /\ job[r].at \in Nat
  BY <1>2, JobFacts
<1>4. job[r].stash = {} BY <1>2, <1>3 DEF JobSafe
<1>5. Epoch(job[r].at, status.epoch) \in Nat BY <1>3, ReviewFacts DEF Epoch, Lists
<1>6. list \in Lists BY <1>1, <1>5, PublishedTyped, ReviewFacts DEF Lists
<1>7. PICK j : j = Onward(job[r], "resign", list) OBVIOUS
<1>8. j \in Jobs /\ JobSafe(r, j, record[r], stash[r], now)
  BY <1>2, <1>3, <1>4, <1>6, <1>7, OnwardSafe
<1>9. /\ UNCHANGED <<now, record, engine, crashes, faults>> /\ status' = status
      /\ tree' = tree /\ stash' = [stash EXCEPT ![r] = stash[r]]
  BY ReviewFacts DEF Collect
<1> QED BY <1>1, <1>3, <1>7, <1>8, <1>9, OwnStash, ReviewFacts, JobStep
LEMMA ResignSafe ==
    ASSUME IInv, NEW r \in Reviews, Resign(r)
    PROVE  IInv'
<1>1. job[r] # NoJob /\ job[r].step = "resign" BY Working DEF Resign
<1>2. PICK j : j = IF job[r].op = "sign" THEN Onward(job[r], "save", None) ELSE NoJob OBVIOUS
<1>3. job' = [job EXCEPT ![r] = j] BY <1>2 DEF Resign
<1>4. JobSafe(r, job[r], record[r], stash[r], now) /\ engine[r] = 0 BY <1>1, JobFacts
<1>5. job[r].stash = {} /\ job[r].read \in Lists BY <1>1, <1>4 DEF JobSafe
<1>6. j \in Jobs /\ (j # NoJob => JobSafe(r, j, record[r], stash[r], now))
  <2>1. CASE job[r].op = "sign" BY <1>1, <1>2, <1>4, <1>5, <2>1, OnwardSafe
  <2>2. CASE job[r].op # "sign" BY <1>2, <2>2 DEF NoJob, Jobs
  <2> QED BY <2>1, <2>2
<1>7. /\ UNCHANGED <<now, record, engine, crashes, faults>> /\ status' = job[r].read
      /\ tree' = tree /\ stash' = [stash EXCEPT ![r] = stash[r]]
  BY ReviewFacts DEF Resign
<1> QED BY <1>3, <1>4, <1>5, <1>6, <1>7, OwnStash, ReviewFacts, JobStep

(* Saving makes what was signed the record's, which was not signed before or  *)
(* is released.                                                               *)
LEMMA SaveIs ==
    ASSUME IInv, NEW r \in Reviews, Save(r)
    PROVE  \E rec \in Records, j \in Jobs :
              /\ StepOf(r, rec, engine[r], j, stash[r])
              /\ ReviewSafe(r, rec, engine[r], j, stash[r], now)
              /\ rec.signed = job[r].signed
              /\ j = IF job[r].op = "sign" THEN NoJob ELSE Onward(job[r], "collect", None)
              /\ rec.findings = record[r].findings /\ rec.coverage = record[r].coverage
              /\ rec.agent = record[r].agent
<1> DEFINE rec == [record[r] EXCEPT !.signed = job[r].signed]
<1>1. job[r] # NoJob /\ job[r].step = "save" BY Working DEF Save
<1>2. PICK j : j = IF job[r].op = "sign" THEN NoJob ELSE Onward(job[r], "collect", None) OBVIOUS
<1>3. job' = [job EXCEPT ![r] = j] BY <1>2 DEF Save
<1>4. /\ JobSafe(r, job[r], record[r], stash[r], now) /\ engine[r] = 0
      /\ job[r].signed \in SignedRecords /\ job[r].op \in {"sign", "release"}
      /\ Belongs(r, job[r].signed)
  BY <1>1, JobFacts
<1>5. record[r] \in Records BY ReviewFacts
<1>6. /\ rec \in Records /\ rec.signed = job[r].signed /\ rec.agent = record[r].agent
      /\ rec.findings = record[r].findings /\ rec.coverage = record[r].coverage
      /\ rec.refused = record[r].refused
  BY <1>4, <1>5 DEF Records
<1>7. job[r].stash = {} /\ Fits(r, job[r].signed, record[r], now)
  BY <1>1, <1>4 DEF JobSafe
<1>8. record' = [record EXCEPT ![r] = rec] BY DEF Save
<1> HIDE DEF rec
<1>9. Fits(r, rec.signed, rec, now) BY <1>6, <1>7, FitsAlike
<1>10. Fresh(r, rec.signed, {}, stash[r]) BY <1>4, <1>6, <1>7 DEF JobSafe
<1>11. rec.signed # None BY <1>4, <1>6, BelongsFacts
<1>12. j \in Jobs /\ (j # NoJob => JobSafe(r, j, rec, stash[r], now))
  <2>1. CASE job[r].op = "sign" BY <1>2, <2>1 DEF NoJob, Jobs
  <2>2. CASE job[r].op = "release"
    <3>1. JobSafe(r, job[r], rec, stash[r], now)
      BY <1>4, <1>6, <1>9, <1>11, <2>2 DEF JobSafe
    <3> QED BY <1>1, <1>2, <1>7, <2>2, <3>1, OnwardSafe
  <2> QED BY <1>4, <2>1, <2>2
<1>13. ReviewSafe(r, record[r], engine[r], job[r], stash[r], now) BY ReviewFacts
<1>14. ReviewSafe(r, rec, engine[r], j, stash[r], now)
  BY <1>4, <1>6, <1>9, <1>10, <1>12, <1>13 DEF ReviewSafe
<1>15. StepOf(r, rec, engine[r], j, stash[r]) BY <1>3, <1>8, ReviewFacts DEF StepOf, Save
<1> QED BY <1>2, <1>6, <1>12, <1>14, <1>15

LEMMA SaveSafe ==
    ASSUME IInv, NEW r \in Reviews, Save(r)
    PROVE  IInv'
<1>1. PICK rec \in Records, j \in Jobs :
         /\ StepOf(r, rec, engine[r], j, stash[r])
         /\ ReviewSafe(r, rec, engine[r], j, stash[r], now)
  BY SaveIs
<1>2. tree' = tree /\ status' = status /\ crashes' = crashes /\ faults' = faults
  BY DEF Save
<1> QED BY <1>1, <1>2, ReviewFacts, SafeStep

(* A handler that fails and a restart forget jobs and engines.                *)
LEMMA Forgets ==
    ASSUME NEW r, NEW rec, NEW n, NEW j, NEW S, NEW t, ReviewSafe(r, rec, n, j, S, t),
           NEW m \in {0, n}
    PROVE  ReviewSafe(r, rec, m, NoJob, S, t)
BY DEF ReviewSafe

LEMMA FailSafe ==
    ASSUME IInv, NEW r \in Reviews, Fail(r)
    PROVE  IInv'
<1>1. ReviewSafe(r, record[r], engine[r], NoJob, stash[r], now) BY ReviewFacts, Forgets
<1>2. StepOf(r, record[r], engine[r], NoJob, stash[r]) BY ReviewFacts DEF Fail, StepOf
<1>3. NoJob \in Jobs BY DEF NoJob, Jobs
<1>4. tree' = tree /\ status' = status /\ crashes' = crashes /\ faults' = faults + 1
  BY DEF Fail
<1> QED BY <1>1, <1>2, <1>3, <1>4, ReviewFacts, SafeStep

LEMMA CrashSafe ==
    ASSUME IInv, Crash
    PROVE  IInv'
<1>1. NoJob \in Jobs BY DEF NoJob, Jobs
<1>2. Typed' BY <1>1 DEF IInv, Typed, Crash
<1>3. ASSUME NEW r \in Reviews
      PROVE  ReviewSafe(r, record'[r], engine'[r], job'[r], stash'[r], now)
  <2>1. record'[r] = record[r] /\ engine'[r] = 0 /\ job'[r] = NoJob /\ stash'[r] = stash[r]
    BY DEF Crash
  <2>2. ReviewSafe(r, record[r], 0, NoJob, stash[r], now) BY ReviewFacts, Forgets
  <2> QED BY <2>1, <2>2
<1>4. now' = now /\ tree' = tree BY DEF Crash
<1>5. \A r \in Reviews : SafeNow(r)' BY <1>3, <1>4 DEF SafeNow
<1>6. TreeSafe(tree, now)' BY <1>4 DEF IInv
<1> QED BY <1>2, <1>5, <1>6 DEF IInv

LEMMA TickSafe ==
    ASSUME IInv, Tick
    PROVE  IInv'
<1>1. /\ now \in Nat /\ now' = now + 1 /\ tree' = tree /\ record' = record
      /\ engine' = engine /\ job' = job /\ stash' = stash
  BY DEF IInv, Typed, Tick
<1>2. Typed' BY <1>1 DEF IInv, Typed, Tick
<1>3. PICK u \in Nat : u = now' BY <1>1
<1>4. now <= u BY <1>1, <1>3
<1>5. ASSUME NEW r \in Reviews
      PROVE  ReviewSafe(r, record[r], engine[r], job[r], stash[r], u)
  BY <1>1, <1>4, ReviewFacts, SafeLater
<1>6. \A r \in Reviews : SafeNow(r)' BY <1>1, <1>3, <1>5 DEF SafeNow
<1>7. TreeSafe(tree, u)
  <2>1. ASSUME NEW a \in Published(tree), a.result = "fail", Embargo[a.review] # None
        PROVE  u >= a.issuedAt + Embargo[a.review]
    <3>1. now >= a.issuedAt + Embargo[a.review] BY <2>1 DEF IInv, TreeSafe
    <3>2. a \in Attestations BY PublishedTyped DEF IInv, TreeSafe
    <3>3. a.issuedAt \in Nat /\ Embargo[a.review] \in Nat
      BY <2>1, <3>2, ConstantFacts DEF Attestations
    <3> QED BY <1>1, <1>4, <3>1, <3>3
  <2> QED BY <2>1 DEF IInv, TreeSafe
<1>8. TreeSafe(tree, now)' BY <1>1, <1>3, <1>7
<1> QED BY <1>2, <1>6, <1>8 DEF IInv

LEMMA NextSafe ==
    ASSUME IInv, [Next]_vars
    PROVE  IInv'
<1>1. ASSUME NEW r \in Reviews, Conclude(r) PROVE IInv'
  <2>1. ASSUME NEW id \in AttIds, NEW hold \in (1..MaxTime) \cup {None}, Sign(r, id, hold)
        PROVE  IInv'
    BY <2>1, SignSafe, ReviewAssumption
  <2> QED BY <1>1, <2>1, ReleaseSafe, WriteHeldSafe, WritePublicSafe, WroteSafe, CollectSafe,
             ResignSafe, SaveSafe DEF Conclude
<1>2. ASSUME UNCHANGED vars PROVE IInv'
  <2>1. /\ now' = now /\ tree' = tree /\ status' = status /\ record' = record
        /\ stash' = stash /\ engine' = engine /\ job' = job /\ crashes' = crashes
        /\ faults' = faults
    BY <1>2 DEF vars
  <2> QED BY <2>1 DEF IInv, Typed, SafeNow
<1> QED BY <1>1, <1>2, ExamineSafe, FailSafe, CrashSafe, TickSafe DEF Next

LEMMA AlwaysSafe == Spec => []IInv
BY InitSafe, NextSafe, PTL DEF Spec
-------------------------------------------------------------------------------
(* What a step of one review leaves to the others.                            *)
OthersStay(r) ==
    /\ now' = now /\ crashes' = crashes /\ faults' = faults
    /\ \A q \in Reviews : q # r =>
          record'[q] = record[q] /\ job'[q] = job[q] /\ stash'[q] = stash[q]

RecordOnly(r) ==
    /\ OthersStay(r) /\ job[r] = NoJob
    /\ record[r].signed = None /\ record'[r].signed = None
    /\ UNCHANGED <<tree, status, stash, job>>

(* Nobody examines a review that is locked or signed.                         *)
LEMMA ExamineIs ==
    ASSUME IInv, NEW r \in Reviews, Examine(r)
    PROVE  RecordOnly(r)
<1>1. record[r] \in Records /\ record \in [Reviews -> Records] BY DEF IInv, Typed
<1>2. ASSUME NEW rec, rec.signed = record[r].signed, record' = [record EXCEPT ![r] = rec],
             job[r] = NoJob, record[r].signed = None,
             UNCHANGED <<now, tree, status, stash, job, crashes, faults>>
      PROVE  RecordOnly(r)
  BY <1>1, <1>2 DEF OthersStay, RecordOnly
<1>3. ASSUME NEW f \in FindingIds, NEW st, Update(r, [record[r] EXCEPT !.findings[f] = st])
      PROVE  RecordOnly(r)
  <2>1. [record[r] EXCEPT !.findings[f] = st].signed = record[r].signed BY <1>1 DEF Records
  <2> QED BY <1>2, <1>3, <2>1 DEF Update, Unlocked
<1>4. ASSUME NEW c \in Coverages \ {"none"}, SetCoverage(r, c)
      PROVE  RecordOnly(r)
  <2>1. [record[r] EXCEPT !.coverage = c].signed = record[r].signed BY <1>1 DEF Records
  <2> QED BY <1>2, <1>4, <2>1 DEF SetCoverage, Update, Unlocked
<1>5. ASSUME StartAgent(r)
      PROVE  RecordOnly(r)
  <2>1. [record[r] EXCEPT !.agent = "running"].signed = record[r].signed BY <1>1 DEF Records
  <2> QED BY <1>2, <1>5, <2>1 DEF StartAgent, Update, Unlocked
<1>6. engine[r] > 0 => record[r].signed = None
  BY ReviewFacts DEF ReviewSafe
<1>7. ASSUME AgentError(r)
      PROVE  RecordOnly(r)
  <2>1. [record[r] EXCEPT !.agent = "error"].signed = record[r].signed BY <1>1 DEF Records
  <2>2. record' = [record EXCEPT ![r] = [record[r] EXCEPT !.agent = "error"]] BY <1>7 DEF AgentError
  <2> QED BY <1>2, <1>6, <1>7, <2>1, <2>2 DEF AgentError, Unlocked
<1>8. ASSUME NEW found \in SUBSET FindingIds, NEW c \in Coverages, NEW refused \in Refusals,
             AgentDone(r, found, c, refused)
      PROVE  RecordOnly(r)
  <2>1. PICK rec : rec.signed = record[r].signed /\ record' = [record EXCEPT ![r] = rec]
    BY <1>8 DEF AgentDone
  <2> QED BY <1>2, <1>6, <1>8, <2>1 DEF AgentDone, Unlocked
<1>9. ASSUME NEW f \in FindingIds, AddManual(r, f) PROVE RecordOnly(r)
  BY <1>3, <1>9 DEF AddManual
<1>10. ASSUME NEW f \in FindingIds, NEW st \in {"kept", "dropped", "absent"}, Decide(r, f, st)
       PROVE  RecordOnly(r)
  BY <1>3, <1>10 DEF Decide
<1> QED BY <1>4, <1>5, <1>7, <1>8, <1>9, <1>10 DEF Examine

LEMMA SignIs ==
    ASSUME IInv, NEW r \in Reviews, NEW id \in AttIds, NEW hold \in Nat \cup {None},
           Sign(r, id, hold)
    PROVE  /\ OthersStay(r) /\ job[r] = NoJob /\ record[r].signed = None
           /\ record'[r] = record[r] /\ stash'[r] = stash[r]
           /\ \A f \in tree : f.path # AttPath(job'[r].signed.att.id)
           /\ \A f \in Docs(r, job'[r].signed) :
                 f \in job'[r].pub \/ (f.path \in job'[r].signed.held /\ f \in job'[r].stash)
           /\ job'[r].op = "sign" /\ job'[r].step = "write"
           /\ tree' = tree /\ status' = status
<1>1. PICK s : s = SignedRecord(r, record[r], id, hold) OBVIOUS
<1>2. PICK K : K = HeldFiles(r, record[r], id, hold) OBVIOUS
<1>3. /\ record[r].signed = None /\ id \in IdsOf[r] /\ With(record[r].findings, "pending") = {}
      /\ job[r] = NoJob /\ At(tree, AttPath(id)) = {}
  BY DEF Sign, Blocked, Unlocked
<1>4. record[r] \in Records /\ now \in Nat /\ job \in [Reviews -> Jobs] BY DEF IInv, Typed
<1>5. /\ AllFiles(r, record[r], id) = Docs(r, s) /\ K \subseteq Docs(r, s)
      /\ s.held = PathsOf(K) /\ s.att.id = id
  BY <1>1, <1>2, <1>3, <1>4, SignedIs
<1>6. job' = [job EXCEPT ![r] = Writing("sign", K, Docs(r, s) \ K, s)]
  BY <1>1, <1>2, <1>5 DEF Sign
<1>7. /\ job'[r].op = "sign" /\ job'[r].step = "write" /\ job'[r].stash = K
      /\ job'[r].pub = Docs(r, s) \ K /\ job'[r].signed = s
  BY <1>4, <1>6 DEF Writing
<1>8. \A f \in K : f.path \in s.held BY <1>5 DEF PathsOf
<1>9. OthersStay(r) BY <1>4, <1>6 DEF OthersStay, Sign
<1>10. \A f \in tree : f.path # AttPath(s.att.id) BY <1>3, <1>5 DEF At
<1>11. /\ record'[r] = record[r] /\ stash'[r] = stash[r] /\ tree' = tree /\ status' = status
  BY DEF Sign
<1> QED BY <1>3, <1>7, <1>8, <1>9, <1>10, <1>11

LEMMA ReleaseStarts ==
    ASSUME IInv, NEW r \in Reviews, Release(r)
    PROVE  /\ OthersStay(r) /\ job[r] = NoJob /\ record[r].signed # None
           /\ record'[r] = record[r] /\ stash'[r] = stash[r]
           /\ now >= record[r].signed.until
           /\ job'[r].op = "release" /\ job'[r].step = "write"
           /\ job'[r].signed.att = record[r].signed.att
           /\ job'[r].stash = {}
           /\ job'[r].pub = {f \in stash[r] : f.path \in record[r].signed.held}
           /\ tree' = tree /\ status' = status
<1>1. PICK s : s = [att |-> record[r].signed.att, held |-> {}, until |-> 0] OBVIOUS
<1>2. PICK P : P = {f \in stash[r] : f.path \in record[r].signed.held} OBVIOUS
<1>3. job' = [job EXCEPT ![r] = Writing("release", {}, P, s)] BY <1>1, <1>2 DEF Release
<1>4. job \in [Reviews -> Jobs] BY DEF IInv, Typed
<1>5. /\ job'[r].op = "release" /\ job'[r].step = "write" /\ job'[r].stash = {}
      /\ job'[r].pub = P /\ job'[r].signed = s
  BY <1>3, <1>4 DEF Writing
<1>6. OthersStay(r) BY <1>3, <1>4 DEF OthersStay, Release
<1>7. s.att = record[r].signed.att BY <1>1
<1>8. /\ record[r].signed # None /\ now >= record[r].signed.until /\ job[r] = NoJob
      /\ record'[r] = record[r] /\ stash'[r] = stash[r] /\ tree' = tree /\ status' = status
  BY DEF Release, Unlocked
<1> QED BY <1>2, <1>5, <1>6, <1>7, <1>8
(* A job that goes on: its operation and what it signs stay.                  *)
LEMMA GoesOn ==
    ASSUME IInv, NEW r \in Reviews, WriteHeld(r) \/ WritePublic(r) \/ Wrote(r) \/ Collect(r)
    PROVE  /\ OthersStay(r) /\ job[r] # NoJob /\ record'[r] = record[r]
           /\ job'[r].op = job[r].op /\ job'[r].signed = job[r].signed
           /\ status' = status
<1>1. job \in [Reviews -> Jobs] /\ stash \in [Reviews -> SUBSET TreeFiles] /\ job[r] \in Jobs
  BY DEF IInv, Typed
<1>2. ASSUME WriteHeld(r)
      PROVE  /\ OthersStay(r) /\ job[r] # NoJob /\ record'[r] = record[r]
             /\ job'[r].op = job[r].op /\ job'[r].signed = job[r].signed
             /\ status' = status
  <2>1. PICK f \in job[r].stash : /\ stash' = [stash EXCEPT ![r] = Put(stash[r], f)]
                                  /\ job' = [job EXCEPT ![r].stash = job[r].stash \ {f}]
    BY <1>2 DEF WriteHeld
  <2>2. job'[r].op = job[r].op /\ job'[r].signed = job[r].signed BY <1>1, <2>1 DEF Jobs
  <2>3. OthersStay(r) BY <1>1, <1>2, <2>1 DEF OthersStay, WriteHeld
  <2> QED BY <1>2, <2>2, <2>3, Working DEF WriteHeld
<1>3. ASSUME WritePublic(r)
      PROVE  /\ OthersStay(r) /\ job[r] # NoJob /\ record'[r] = record[r]
             /\ job'[r].op = job[r].op /\ job'[r].signed = job[r].signed
             /\ status' = status
  <2>1. PICK f \in job[r].pub : job' = [job EXCEPT ![r].pub = job[r].pub \ {f}]
    BY <1>3 DEF WritePublic
  <2>2. job'[r].op = job[r].op /\ job'[r].signed = job[r].signed BY <1>1, <2>1 DEF Jobs
  <2>3. OthersStay(r) BY <1>1, <1>3, <2>1 DEF OthersStay, WritePublic
  <2> QED BY <1>3, <2>2, <2>3, Working DEF WritePublic
<1>4. ASSUME NEW step, NEW read, job' = [job EXCEPT ![r] = Onward(job[r], step, read)],
             Wrote(r) \/ Collect(r)
      PROVE  /\ OthersStay(r) /\ job[r] # NoJob /\ record'[r] = record[r]
             /\ job'[r].op = job[r].op /\ job'[r].signed = job[r].signed
             /\ status' = status
  <2>1. job'[r].op = job[r].op /\ job'[r].signed = job[r].signed BY <1>1, <1>4 DEF Onward
  <2>2. OthersStay(r) BY <1>1, <1>4 DEF OthersStay, Wrote, Collect
  <2> QED BY <1>4, <2>1, <2>2, Working DEF Wrote, Collect
<1>5. Wrote(r) => \E step : job' = [job EXCEPT ![r] = Onward(job[r], step, None)]
  BY DEF Wrote
<1>6. Collect(r) => \E read : job' = [job EXCEPT ![r] = Onward(job[r], "resign", read)]
  BY DEF Collect
<1> QED BY <1>2, <1>3, <1>4, <1>5, <1>6

LEMMA ResignIs ==
    ASSUME IInv, NEW r \in Reviews, Resign(r)
    PROVE  /\ OthersStay(r) /\ job[r].step = "resign" /\ record'[r] = record[r]
           /\ tree' = tree /\ stash'[r] = stash[r] /\ status' = job[r].read
           /\ job'[r] = IF job[r].op = "sign" THEN Onward(job[r], "save", None) ELSE NoJob
<1>1. job \in [Reviews -> Jobs] BY DEF IInv, Typed
<1>2. PICK j : j = IF job[r].op = "sign" THEN Onward(job[r], "save", None) ELSE NoJob OBVIOUS
<1>3. job' = [job EXCEPT ![r] = j] BY <1>2 DEF Resign
<1>4. job'[r] = j BY <1>1, <1>3
<1>5. OthersStay(r) BY <1>1, <1>3 DEF OthersStay, Resign
<1> QED BY <1>2, <1>4, <1>5 DEF Resign

LEMMA SaveEnds ==
    ASSUME IInv, NEW r \in Reviews, Save(r)
    PROVE  /\ OthersStay(r) /\ job[r] # NoJob /\ job[r].step = "save"
           /\ tree' = tree /\ stash'[r] = stash[r] /\ status' = status
           /\ job'[r] = IF job[r].op = "sign" THEN NoJob ELSE Onward(job[r], "collect", None)
           /\ record'[r].signed = job[r].signed
           /\ record'[r].findings = record[r].findings
           /\ record'[r].coverage = record[r].coverage /\ record'[r].agent = record[r].agent
<1>1. PICK rec \in Records, j \in Jobs :
         /\ StepOf(r, rec, engine[r], j, stash[r]) /\ rec.signed = job[r].signed
         /\ j = IF job[r].op = "sign" THEN NoJob ELSE Onward(job[r], "collect", None)
         /\ rec.findings = record[r].findings /\ rec.coverage = record[r].coverage
         /\ rec.agent = record[r].agent
  BY SaveIs
<1>2. /\ job \in [Reviews -> Jobs] /\ record \in [Reviews -> Records]
      /\ stash \in [Reviews -> SUBSET TreeFiles]
  BY DEF IInv, Typed
<1>3. record'[r] = rec /\ job'[r] = j BY <1>1, <1>2 DEF StepOf
<1>4. OthersStay(r) BY <1>1, <1>2 DEF OthersStay, StepOf, Save
<1> QED BY <1>1, <1>3, <1>4, Working DEF Save
-------------------------------------------------------------------------------
(* Orders and scopes while an embargo runs.                                   *)

LEMMA EngagementOwn ==
    ASSUME NEW r \in Reviews, NEW q \in Reviews, q # r
    PROVE  EngagementFiles(q) \cap OwnFiles(r) = {}
<1>1. SUFFICES ASSUME NEW f \in EngagementFiles(q), f \in OwnFiles(r) PROVE FALSE OBVIOUS
<1>2. f \in OwnFiles(q) /\ f.path[1] # "attestations"
  BY DEF EngagementFiles, OwnFiles, File, ScopePath, OrderPath
<1> QED BY <1>1, <1>2, PathsTell

LEMMA OutStep ==
    ASSUME IInv, NothingOut, NEW r \in Reviews, OthersStay(r), NEW new, new \subseteq OwnFiles(r),
           tree' \subseteq tree \cup new,
           Embargoed(r, record'[r], job'[r], now) =>
               Embargoed(r, record[r], job[r], now) /\ EngagementFiles(r) \cap new = {}
    PROVE  NothingOut'
<1>1. SUFFICES ASSUME crashes' = 0, faults' = 0, NEW q \in Reviews,
                      Embargoed(q, record'[q], job'[q], now')
               PROVE  EngagementFiles(q) \cap tree' = {}
  BY DEF NothingOut
<1>2. crashes = 0 /\ faults = 0 /\ now' = now BY <1>1 DEF OthersStay
<1>3. CASE q = r BY <1>1, <1>2, <1>3 DEF NothingOut
<1>4. CASE q # r
  <2>1. Embargoed(q, record[q], job[q], now) BY <1>1, <1>2, <1>4 DEF OthersStay
  <2>2. EngagementFiles(q) \cap tree = {} BY <1>2, <2>1 DEF NothingOut
  <2> QED BY <1>4, <2>2, EngagementOwn
<1> QED BY <1>3, <1>4

(* A job writes no order or scope of a review whose embargo runs.             *)
LEMMA NotOut ==
    ASSUME IInv, NEW r \in Reviews, job[r] # NoJob, NEW f \in job[r].pub,
           Embargoed(r, record[r], job[r], now)
    PROVE  f \notin EngagementFiles(r)
<1>1. JobSafe(r, job[r], record[r], stash[r], now) BY JobFacts
<1>2. f.path \notin job[r].signed.held BY <1>1 DEF JobSafe
<1>3. CASE job[r].op = "sign"
  <2>1. record[r].signed = None BY <1>1, <1>3 DEF JobSafe
  <2>2. AttPath(job[r].signed.att.id) \in job[r].signed.held BY <2>1 DEF Embargoed
  <2>3. PathsOf(EngagementFiles(r)) \subseteq job[r].signed.held
    BY <1>1, <2>2 DEF JobSafe, Fits
  <2> QED BY <1>2, <2>3 DEF PathsOf
<1>4. CASE job[r].op = "release"
  <2>1. /\ record[r].signed # None /\ job[r].signed.held = {}
        /\ record[r].signed = job[r].signed \/ now >= record[r].signed.until
    BY <1>1, <1>4 DEF JobSafe
  <2>2. now < record[r].signed.until /\ record[r].signed.held # {}
    BY <1>4, <2>1 DEF Embargoed
  <2>3. record[r].signed.until \in Nat /\ now \in Nat BY <2>1, OwnStash, BelongsFacts, ReviewFacts
  <2> QED BY <2>1, <2>2, <2>3
<1> QED BY <1>1, <1>3, <1>4 DEF JobSafe

LEMMA OutGoesOn ==
    ASSUME IInv, NothingOut, NEW r \in Reviews,
           WriteHeld(r) \/ WritePublic(r) \/ Wrote(r) \/ Collect(r)
    PROVE  NothingOut'
<1>1. /\ OthersStay(r) /\ job[r] # NoJob /\ record'[r] = record[r]
      /\ job'[r].op = job[r].op /\ job'[r].signed = job[r].signed
  BY GoesOn
<1>2. job[r].op # "none" BY <1>1, JobFacts
<1>3. job'[r] # NoJob BY <1>1, <1>2 DEF NoJob
<1>4. Embargoed(r, record'[r], job'[r], now) => Embargoed(r, record[r], job[r], now)
  BY <1>1, <1>3 DEF Embargoed
<1>5. CASE WriteHeld(r) \/ Wrote(r) \/ Collect(r)
  <2>1. tree' = tree BY <1>5 DEF WriteHeld, Wrote, Collect
  <2>2. PICK new : new = {} OBVIOUS
  <2> QED BY <1>1, <1>4, <2>1, <2>2, OutStep
<1>6. CASE WritePublic(r)
  <2>1. PICK f \in job[r].pub : tree' = Put(tree, f) BY <1>6 DEF WritePublic
  <2>2. f \in OwnFiles(r) BY <1>1, JobFacts, DocsOwn DEF JobSafe
  <2>3. Embargoed(r, record'[r], job'[r], now) => f \notin EngagementFiles(r)
    BY <1>1, <1>4, NotOut
  <2>4. PICK new : new = {f} OBVIOUS
  <2>5. tree' \subseteq tree \cup new BY <2>1, <2>4 DEF Put
  <2>6. new \subseteq OwnFiles(r) BY <2>2, <2>4
  <2>7. Embargoed(r, record'[r], job'[r], now) =>
          Embargoed(r, record[r], job[r], now) /\ EngagementFiles(r) \cap new = {}
    BY <1>4, <2>3, <2>4
  <2> QED BY <1>1, <2>5, <2>6, <2>7, OutStep
<1> QED BY <1>5, <1>6

LEMMA OutConclude ==
    ASSUME IInv, NothingOut, NEW r \in Reviews, Conclude(r)
    PROVE  NothingOut'
<1> PICK new : new = {} OBVIOUS
<1>1. ASSUME NEW id \in AttIds, NEW hold \in (1..MaxTime) \cup {None}, Sign(r, id, hold)
      PROVE  NothingOut'
  <2>1. hold \in Nat \cup {None} BY ReviewAssumption
  <2>2. /\ OthersStay(r) /\ job[r] = NoJob /\ record[r].signed = None /\ tree' = tree
    BY <1>1, <2>1, SignIs
  <2>3. Embargoed(r, record[r], job[r], now) BY <2>2 DEF Embargoed
  <2> QED BY <2>2, <2>3, OutStep
<1>2. ASSUME Release(r) PROVE NothingOut'
  <2>1. /\ OthersStay(r) /\ job'[r].op = "release" /\ record'[r] = record[r] /\ tree' = tree
    BY <1>2, ReleaseStarts
  <2>2. job'[r] # NoJob BY <2>1 DEF NoJob
  <2>3. Embargoed(r, record'[r], job'[r], now) => Embargoed(r, record[r], job[r], now)
    BY <2>1, <2>2 DEF Embargoed
  <2> QED BY <2>1, <2>3, OutStep
<1>3. ASSUME Resign(r) PROVE NothingOut'
  <2>1. /\ OthersStay(r) /\ job[r].step = "resign" /\ record'[r] = record[r] /\ tree' = tree
        /\ job'[r] = IF job[r].op = "sign" THEN Onward(job[r], "save", None) ELSE NoJob
    BY <1>3, ResignIs
  <2>2. JobSafe(r, job[r], record[r], stash[r], now) BY <2>1, Working, JobFacts
  <2>3. CASE job[r].op = "sign"
    <3>1. job'[r].op = "sign" /\ job'[r].signed = job[r].signed BY <2>1, <2>3 DEF Onward
    <3>2. job'[r] # NoJob BY <3>1 DEF NoJob
    <3>3. Embargoed(r, record'[r], job'[r], now) => Embargoed(r, record[r], job[r], now)
      BY <2>1, <2>3, <3>1, <3>2 DEF Embargoed
    <3> QED BY <2>1, <3>3, OutStep
  <2>4. CASE job[r].op = "release"
    <3>1. record[r].signed # None BY <2>2, <2>4 DEF JobSafe
    <3>2. job'[r].op # "sign" BY <2>1, <2>4 DEF NoJob
    <3>3. Embargoed(r, record'[r], job'[r], now) => Embargoed(r, record[r], job[r], now)
      BY <2>1, <3>1, <3>2 DEF Embargoed
    <3> QED BY <2>1, <3>3, OutStep
  <2> QED BY <2>2, <2>3, <2>4 DEF JobSafe
<1>4. ASSUME Save(r) PROVE NothingOut'
  <2>1. /\ OthersStay(r) /\ job[r] # NoJob /\ tree' = tree
        /\ job'[r] = IF job[r].op = "sign" THEN NoJob ELSE Onward(job[r], "collect", None)
        /\ record'[r].signed = job[r].signed
    BY <1>4, SaveEnds
  <2>2. JobSafe(r, job[r], record[r], stash[r], now) /\ job[r].signed # None
    BY <2>1, JobFacts, BelongsFacts
  <2>3. CASE job[r].op = "sign"
    <3>1. job'[r].op # "sign" BY <2>1, <2>3 DEF NoJob
    <3>2. Embargoed(r, record'[r], job'[r], now) => Embargoed(r, record[r], job[r], now)
      BY <2>1, <2>2, <2>3, <3>1 DEF Embargoed
    <3> QED BY <2>1, <3>2, OutStep
  <2>4. CASE job[r].op = "release"
    <3>1. job'[r].op = "release" /\ job[r].signed.held = {}
      BY <2>1, <2>2, <2>4 DEF Onward, JobSafe
    <3>2. ~Embargoed(r, record'[r], job'[r], now) BY <2>1, <2>2, <3>1 DEF Embargoed
    <3> QED BY <2>1, <3>2, OutStep
  <2> QED BY <2>2, <2>3, <2>4 DEF JobSafe
<1> QED BY <1>1, <1>2, <1>3, <1>4, OutGoesOn DEF Conclude

LEMMA OutNext ==
    ASSUME IInv, NothingOut, [Next]_vars
    PROVE  NothingOut'
<1>1. ASSUME NEW r \in Reviews, Examine(r) PROVE NothingOut'
  <2>1. /\ OthersStay(r) /\ job[r] = NoJob /\ record[r].signed = None /\ tree' = tree
    BY <1>1, ExamineIs DEF RecordOnly
  <2>2. Embargoed(r, record[r], job[r], now) BY <2>1 DEF Embargoed
  <2>3. PICK new : new = {} OBVIOUS
  <2> QED BY <2>1, <2>2, <2>3, OutStep
<1>2. ASSUME NEW r \in Reviews, Fail(r) PROVE NothingOut'
  <2>1. faults' = faults + 1 /\ faults \in Nat BY <1>2 DEF Fail, IInv, Typed
  <2> QED BY <2>1 DEF NothingOut
<1>3. ASSUME Crash PROVE NothingOut'
  <2>1. crashes' = crashes + 1 /\ crashes \in Nat BY <1>3 DEF Crash, IInv, Typed
  <2> QED BY <2>1 DEF NothingOut
<1>4. ASSUME Tick PROVE NothingOut'
  <2>1. /\ now' = now + 1 /\ now \in Nat /\ record' = record /\ job' = job /\ tree' = tree
        /\ crashes' = crashes /\ faults' = faults
    BY <1>4 DEF Tick, IInv, Typed
  <2>2. ASSUME NEW r \in Reviews, Embargoed(r, record[r], job[r], now')
        PROVE  Embargoed(r, record[r], job[r], now)
    <3>1. CASE /\ record[r].signed # None /\ now' < record[r].signed.until
               /\ AttPath(record[r].signed.att.id) \in record[r].signed.held
      <4>1. record[r].signed.until \in Nat BY <3>1, OwnStash, BelongsFacts
      <4> QED BY <2>1, <3>1, <4>1 DEF Embargoed
    <3> QED BY <2>2, <3>1 DEF Embargoed
  <2> QED BY <2>1, <2>2 DEF NothingOut
<1>5. ASSUME UNCHANGED vars PROVE NothingOut'
  <2>1. /\ now' = now /\ tree' = tree /\ record' = record /\ job' = job
        /\ crashes' = crashes /\ faults' = faults
    BY <1>5 DEF vars
  <2> QED BY <2>1 DEF NothingOut
<1> QED BY <1>1, <1>2, <1>3, <1>4, <1>5, OutConclude DEF Next

LEMMA InitOut == Init => NothingOut
BY DEF Init, NothingOut

LEMMA AlwaysOut == Spec => []NothingOut
BY AlwaysSafe, InitOut, OutNext, PTL DEF Spec

(* Whatever fails and whenever the console stops, an embargoed fail is not    *)
(* published before its date, and as long as nothing has failed neither is    *)
(* its order or scope.                                                        *)
THEOREM EmbargoStays == Spec => []EmbargoKept
<1>1. IInv /\ NothingOut => EmbargoKept
  <2> SUFFICES ASSUME IInv, NothingOut PROVE EmbargoKept OBVIOUS
  <2>1. \A r \in Reviews : EmbargoRuns(r) => Embargoed(r, record[r], job[r], now)
    BY DEF EmbargoRuns, Embargoed
  <2> QED BY <2>1 DEF IInv, TreeSafe, NothingOut, EmbargoKept
<1> QED BY <1>1, AlwaysSafe, AlwaysOut, PTL
-------------------------------------------------------------------------------
(* A signed review.                                                           *)
SameReview(r) ==
    /\ record'[r].signed # None
    /\ record'[r].signed.att = record[r].signed.att
    /\ record'[r].findings = record[r].findings
    /\ record'[r].coverage = record[r].coverage
    /\ record'[r].agent = record[r].agent

LEMMA FrozenStep ==
    ASSUME IInv, [Next]_vars, NEW q \in Reviews, record[q].signed # None
    PROVE  SameReview(q)
<1>1. ASSUME record'[q] = record[q] PROVE SameReview(q) BY <1>1 DEF SameReview
<1>2. ASSUME NEW r \in Reviews, Examine(r) PROVE SameReview(q)
  BY <1>1, <1>2, ExamineIs DEF RecordOnly, OthersStay
<1>3. ASSUME NEW r \in Reviews, Conclude(r) PROVE SameReview(q)
  <2>1. CASE Save(r)
    <3>1. CASE q # r BY <1>1, <2>1, <3>1, SaveEnds DEF OthersStay
    <3>2. CASE q = r
      <4>1. /\ job[r] # NoJob /\ record'[r].signed = job[r].signed
            /\ record'[r].findings = record[r].findings
            /\ record'[r].coverage = record[r].coverage /\ record'[r].agent = record[r].agent
        BY <2>1, SaveEnds
      <4>2. JobSafe(r, job[r], record[r], stash[r], now) /\ job[r].signed # None
        BY <4>1, JobFacts, BelongsFacts
      <4>3. job[r].signed.att = record[r].signed.att BY <3>2, <4>2 DEF JobSafe
      <4> QED BY <3>2, <4>1, <4>2, <4>3 DEF SameReview
    <3> QED BY <3>1, <3>2
  <2>2. CASE ~Save(r)
    <3>1. record' = record
      BY <1>3, <2>2 DEF Conclude, Sign, Release, WriteHeld, WritePublic, Wrote, Collect, Resign
    <3> QED BY <1>1, <3>1
  <2> QED BY <2>1, <2>2
<1>4. ASSUME (\E r \in Reviews : Fail(r)) \/ Crash \/ Tick \/ UNCHANGED vars PROVE SameReview(q)
  <2>1. record' = record BY <1>4 DEF Fail, Crash, Tick, vars
  <2> QED BY <1>1, <2>1
<1> QED BY <1>2, <1>3, <1>4 DEF Next

(* Neither the auditor nor an engine that comes back late changes a review    *)
(* that is signed, or what it is signed as.                                   *)
THEOREM SignedStays == Spec => FrozenOnceSigned
<1>1. IInv /\ [Next]_vars =>
        [\A r \in Reviews : record[r].signed # None =>
            /\ record'[r].signed # None
            /\ record'[r].signed.att = record[r].signed.att
            /\ record'[r].findings = record[r].findings
            /\ record'[r].coverage = record[r].coverage
            /\ record'[r].agent = record[r].agent]_vars
  BY FrozenStep DEF SameReview
<1> QED BY <1>1, AlwaysSafe, PTL DEF Spec, FrozenOnceSigned

-------------------------------------------------------------------------------
(* Where the documents of a signed review are.                                *)

(* A file that r writes is none of the documents of another review, and what  *)
(* r itself writes is one of its own.                                         *)
LEMMA SettledPut ==
    ASSUME DistinctIds, NEW r \in Reviews, NEW q \in Reviews, NEW s, Belongs(q, s),
           NEW f \in OwnFiles(r), r = q => f \in Docs(q, s),
           NEW T, Uniq(T), NEW S, NEW P, NEW K, Settled(q, s, T, S, P, K)
    PROVE  Settled(q, s, Put(T, f), S, P, K)
<1>1. \A g : g \in Put(T, f) <=> g = f \/ (g \in T /\ g.path # f.path) BY PutIs
<1>2. f.path[1] = "attestations" /\ f.path = AttPath(s.att.id) => f = AttFile(s.att)
  <2>1. SUFFICES ASSUME f.path[1] = "attestations", f.path = AttPath(s.att.id)
                 PROVE  f = AttFile(s.att)
    OBVIOUS
  <2>2. f.path = AttPath(f.doc.id) /\ f.doc.id \in IdsOf[r] BY <2>1, Kinds
  <2>3. f.doc.id = s.att.id BY <2>1, <2>2 DEF AttPath
  <2>4. s.att.id \in IdsOf[q] BY BelongsFacts
  <2>5. r = q BY <2>2, <2>3, <2>4 DEF DistinctIds
  <2> QED BY <2>1, <2>5, DocsOwn
<1>3. ASSUME NEW d \in Docs(q, s), d.path = f.path PROVE d = f
  <2>1. d \in OwnFiles(q) BY DocsOwn
  <2>2. CASE d.path[1] = "attestations"
    <3>1. d = AttFile(s.att) BY <2>2, DocsOwn
    <3>2. d.path = AttPath(s.att.id) BY <3>1 DEF AttFile, File
    <3> QED BY <1>2, <1>3, <2>2, <3>1, <3>2
  <2>3. CASE d.path[1] # "attestations" BY <1>3, <2>1, <2>3, PathsTell
  <2> QED BY <2>2, <2>3
<1>4. ASSUME NEW d \in Docs(q, s)
      PROVE  d \in Put(T, f) \/ d \in P \/ (d.path \in s.held /\ (d \in S \/ d \in K))
  BY <1>1, <1>3 DEF Settled
<1>5. ASSUME NEW g \in Put(T, f), g.path = AttPath(s.att.id) PROVE g = AttFile(s.att)
  BY <1>1, <1>2, <1>5 DEF Settled, AttPath
<1> QED BY <1>4, <1>5 DEF Settled

(* Only the attestation counts where the documents go.                        *)
LEMMA DocsAlike ==
    ASSUME NEW r, NEW s, NEW o, s.att = o.att
    PROVE  Docs(r, s) = Docs(r, o)
BY DEF Docs

(* A file that is published replaces no other attestation.                    *)
LEMMA PublishedGrows ==
    ASSUME NEW r \in Reviews, NEW s, Belongs(r, s), NEW f \in Docs(r, s),
           NEW T, Uniq(T), NEW S, NEW P, NEW K, Settled(r, s, T, S, P, K)
    PROVE  Published(T) \subseteq Published(Put(T, f))
<1>1. \A g : g \in Put(T, f) <=> g = f \/ (g \in T /\ g.path # f.path) BY PutIs
<1>2. ASSUME NEW g \in T, g.path[1] = "attestations" PROVE g \in Put(T, f)
  <2>1. CASE g.path # f.path BY <1>1, <2>1
  <2>2. CASE g.path = f.path
    <3>1. f = AttFile(s.att) BY <1>2, <2>2, DocsOwn
    <3>2. f.path = AttPath(s.att.id) BY <3>1 DEF AttFile, File
    <3>3. g = AttFile(s.att) BY <2>2, <3>2 DEF Settled
    <3> QED BY <1>1, <3>1, <3>3
  <2> QED BY <2>1, <2>2
<1> QED BY <1>2, PublishedIs

LEMMA KeptStep ==
    ASSUME KInv, NEW r \in Reviews, OthersStay(r), Published(tree) \subseteq Published(tree'),
           \A q \in Reviews : q # r => Kept(q, record[q], job[q], tree', stash[q]),
           Kept(r, record'[r], job'[r], tree', stash'[r]),
           status'.atts \subseteq Published(tree')
    PROVE  KInv'
<1>1. ASSUME NEW q \in Reviews PROVE Kept(q, record'[q], job'[q], tree', stash'[q])
  <2>1. CASE q = r BY <2>1
  <2>2. CASE q # r BY <2>2 DEF OthersStay
  <2> QED BY <2>1, <2>2
<1> QED BY <1>1 DEF KInv
(* A step that leaves the tree alone.                                         *)
LEMMA KeptSameTree ==
    ASSUME KInv, NEW r \in Reviews, OthersStay(r), tree' = tree,
           Kept(r, record'[r], job'[r], tree, stash'[r]), status'.atts \subseteq Published(tree)
    PROVE  KInv'
<1>1. /\ Published(tree) \subseteq Published(tree') /\ status'.atts \subseteq Published(tree')
      /\ Kept(r, record'[r], job'[r], tree', stash'[r])
      /\ \A q \in Reviews : q # r => Kept(q, record[q], job[q], tree', stash[q])
  BY DEF KInv
<1> QED BY <1>1, KeptStep

LEMMA NoJobStep == NoJob.step = "idle"
BY DEF NoJob

LEMMA KeptFacts ==
    ASSUME IInv, KInv, NEW r \in Reviews
    PROVE  /\ Kept(r, record[r], job[r], tree, stash[r]) /\ status.atts \subseteq Published(tree)
           /\ record[r].signed # None =>
                 Settled(r, record[r].signed, tree, stash[r], {}, {}) /\ Belongs(r, record[r].signed)
           /\ job[r] # NoJob =>
                 /\ Settled(r, job[r].signed, tree, stash[r], job[r].pub, job[r].stash)
                 /\ Belongs(r, job[r].signed)
BY JobFacts, OwnStash DEF KInv, Kept

LEMMA SignKept ==
    ASSUME IInv, KInv, NEW r \in Reviews, NEW id \in AttIds, NEW hold \in Nat \cup {None},
           Sign(r, id, hold)
    PROVE  KInv'
<1>1. /\ OthersStay(r) /\ record'[r] = record[r] /\ stash'[r] = stash[r]
      /\ record[r].signed = None /\ job'[r].step = "write" /\ tree' = tree /\ status' = status
      /\ \A f \in tree : f.path # AttPath(job'[r].signed.att.id)
      /\ \A f \in Docs(r, job'[r].signed) :
            f \in job'[r].pub \/ (f.path \in job'[r].signed.held /\ f \in job'[r].stash)
  BY SignIs
<1>2. Settled(r, job'[r].signed, tree, stash[r], job'[r].pub, job'[r].stash)
  BY <1>1 DEF Settled
<1>3. Kept(r, record'[r], job'[r], tree, stash'[r]) BY <1>1, <1>2 DEF Kept
<1> QED BY <1>1, <1>3, KeptFacts, KeptSameTree

LEMMA ReleaseKept ==
    ASSUME IInv, KInv, NEW r \in Reviews, Release(r)
    PROVE  KInv'
<1>1. /\ OthersStay(r) /\ record'[r] = record[r] /\ stash'[r] = stash[r]
      /\ record[r].signed # None /\ job'[r].step = "write" /\ tree' = tree /\ status' = status
      /\ job'[r].signed.att = record[r].signed.att
      /\ job'[r].pub = {f \in stash[r] : f.path \in record[r].signed.held}
  BY ReleaseStarts
<1>2. Settled(r, record[r].signed, tree, stash[r], {}, {}) BY <1>1, KeptFacts
<1>3. Docs(r, job'[r].signed) = Docs(r, record[r].signed) BY <1>1, DocsAlike
<1>4. Settled(r, job'[r].signed, tree, stash[r], job'[r].pub, job'[r].stash)
  BY <1>1, <1>2, <1>3 DEF Settled
<1>5. Kept(r, record'[r], job'[r], tree, stash'[r]) BY <1>1, <1>2, <1>4 DEF Kept
<1> QED BY <1>1, <1>5, KeptFacts, KeptSameTree

LEMMA WriteHeldKept ==
    ASSUME IInv, KInv, NEW r \in Reviews, WriteHeld(r)
    PROVE  KInv'
<1>1. /\ OthersStay(r) /\ job[r] # NoJob /\ record'[r] = record[r]
      /\ job'[r].signed = job[r].signed /\ status' = status
  BY GoesOn
<1>2. job \in [Reviews -> Jobs] /\ stash \in [Reviews -> SUBSET TreeFiles] /\ job[r] \in Jobs
  BY DEF IInv, Typed
<1>3. PICK f \in job[r].stash : /\ stash' = [stash EXCEPT ![r] = Put(stash[r], f)]
                                /\ job' = [job EXCEPT ![r].stash = job[r].stash \ {f}]
  BY DEF WriteHeld
<1>4. /\ stash'[r] = Put(stash[r], f) /\ job'[r].stash = job[r].stash \ {f}
      /\ job'[r].pub = job[r].pub /\ job'[r].step = "write" /\ tree' = tree
  BY <1>2, <1>3 DEF WriteHeld, Jobs
<1>5. JobSafe(r, job[r], record[r], stash[r], now) BY <1>1, JobFacts
<1>6. record[r].signed = None BY <1>3, <1>5 DEF JobSafe
<1>7. Settled(r, job[r].signed, tree, stash[r], job[r].pub, job[r].stash)
      /\ Belongs(r, job[r].signed)
  BY <1>1, KeptFacts
<1>8. f \in Docs(r, job[r].signed) /\ Uniq(Docs(r, job[r].signed))
  BY <1>3, <1>5, <1>7, DocsOwn DEF JobSafe
<1>9. \A g : g \in stash'[r] <=> g = f \/ (g \in stash[r] /\ g.path # f.path)
  BY <1>4, OwnStash, PutIs
<1>10. Settled(r, job'[r].signed, tree, stash'[r], job'[r].pub, job'[r].stash)
  <2>1. ASSUME NEW d \in Docs(r, job[r].signed), d.path \in job[r].signed.held,
               d \in stash[r] \/ d \in job[r].stash
        PROVE  d \in stash'[r] \/ d \in job'[r].stash
    <3>1. CASE d.path = f.path
      <4>1. d = f BY <1>8, <3>1 DEF Uniq
      <4> QED BY <1>9, <4>1
    <3>2. CASE d.path # f.path BY <1>4, <1>9, <2>1, <3>2
    <3> QED BY <3>1, <3>2
  <2> QED BY <1>1, <1>4, <1>7, <2>1 DEF Settled
<1>11. Kept(r, record'[r], job'[r], tree, stash'[r]) BY <1>1, <1>4, <1>6, <1>10 DEF Kept
<1> QED BY <1>1, <1>4, <1>11, KeptFacts, KeptSameTree

LEMMA WritePublicKept ==
    ASSUME DistinctIds, IInv, KInv, NEW r \in Reviews, WritePublic(r)
    PROVE  KInv' /\ Published(tree) \subseteq Published(tree')
<1>1. /\ OthersStay(r) /\ job[r] # NoJob /\ record'[r] = record[r]
      /\ job'[r].signed = job[r].signed /\ status' = status
  BY GoesOn
<1>2. job \in [Reviews -> Jobs] /\ job[r] \in Jobs BY DEF IInv, Typed
<1>3. PICK f \in job[r].pub : /\ tree' = Put(tree, f)
                              /\ job' = [job EXCEPT ![r].pub = job[r].pub \ {f}]
  BY DEF WritePublic
<1>4. /\ job'[r].pub = job[r].pub \ {f} /\ job'[r].stash = job[r].stash
      /\ job'[r].step = "write" /\ stash'[r] = stash[r]
  BY <1>2, <1>3 DEF WritePublic, Jobs
<1>5. JobSafe(r, job[r], record[r], stash[r], now) BY <1>1, JobFacts
<1>6. Settled(r, job[r].signed, tree, stash[r], job[r].pub, job[r].stash)
      /\ Belongs(r, job[r].signed)
  BY <1>1, KeptFacts
<1>7. f \in Docs(r, job[r].signed) /\ f \in OwnFiles(r) BY <1>3, <1>5, <1>6, DocsOwn DEF JobSafe
<1>8. Uniq(tree) BY ReviewFacts
<1>9. Published(tree) \subseteq Published(tree') BY <1>3, <1>6, <1>7, <1>8, PublishedGrows
<1>10. ASSUME NEW q \in Reviews, q # r PROVE Kept(q, record[q], job[q], tree', stash[q])
  <2>1. record[q].signed # None => Settled(q, record[q].signed, tree', stash[q], {}, {})
    BY <1>3, <1>7, <1>8, <1>10, KeptFacts, SettledPut
  <2>2. job[q] # NoJob =>
          Settled(q, job[q].signed, tree', stash[q], job[q].pub, job[q].stash)
    BY <1>3, <1>7, <1>8, <1>10, KeptFacts, SettledPut
  <2>3. job[q].step = "resign" => job[q].read.atts \subseteq Published(tree')
    BY <1>9, KeptFacts DEF Kept
  <2> QED BY <2>1, <2>2, <2>3 DEF Kept
<1>11. record[r].signed # None => Settled(r, record[r].signed, tree', stash[r], {}, {})
  <2>1. SUFFICES ASSUME record[r].signed # None
                 PROVE  Settled(r, record[r].signed, tree', stash[r], {}, {})
    OBVIOUS
  <2>2. record[r].signed.att = job[r].signed.att BY <1>5, <2>1 DEF JobSafe
  <2>3. f \in Docs(r, record[r].signed) BY <1>7, <2>2, DocsAlike
  <2> QED BY <1>3, <1>7, <1>8, <2>1, <2>3, KeptFacts, SettledPut
<1>12. Settled(r, job[r].signed, tree', stash[r], job[r].pub \ {f}, job[r].stash)
  <2>1. Settled(r, job[r].signed, tree', stash[r], job[r].pub, job[r].stash)
    BY <1>3, <1>6, <1>7, <1>8, SettledPut
  <2>2. f \in tree' BY <1>3, <1>8, PutIs
  <2> QED BY <2>1, <2>2 DEF Settled
<1>13. Kept(r, record'[r], job'[r], tree', stash'[r])
  BY <1>1, <1>4, <1>11, <1>12 DEF Kept
<1>14. status'.atts \subseteq Published(tree') BY <1>1, <1>9 DEF KInv
<1>15. KInv' BY <1>1, <1>9, <1>10, <1>13, <1>14, KeptStep
<1> QED BY <1>9, <1>15
(* A job whose files are written has nothing left to write.                   *)
LEMMA OnwardKept ==
    ASSUME IInv, KInv, NEW r \in Reviews, job[r] # NoJob, job[r].pub = {}, job[r].stash = {},
           NEW step, NEW read, step = "resign" => read.atts \subseteq Published(tree),
           NEW rec, rec.signed # None => Settled(r, rec.signed, tree, stash[r], {}, {})
    PROVE  Kept(r, rec, Onward(job[r], step, read), tree, stash[r])
<1> DEFINE j == Onward(job[r], step, read)
<1>1. /\ j.step = step /\ j.pub = {} /\ j.stash = {} /\ j.signed = job[r].signed
      /\ j.read = read
  BY DEF Onward
<1> HIDE DEF j
<1>2. Settled(r, j.signed, tree, stash[r], j.pub, j.stash) BY <1>1, KeptFacts
<1>3. Kept(r, rec, j, tree, stash[r]) BY <1>1, <1>2 DEF Kept
<1> QED BY <1>3 DEF j

LEMMA ForgetKept ==
    ASSUME NEW r, NEW rec, NEW j, NEW T, NEW S, Kept(r, rec, j, T, S)
    PROVE  Kept(r, rec, NoJob, T, S)
BY NoJobStep DEF Kept

LEMMA WroteKept ==
    ASSUME IInv, KInv, NEW r \in Reviews, Wrote(r)
    PROVE  KInv'
<1>1. /\ OthersStay(r) /\ job[r] # NoJob /\ record'[r] = record[r] /\ status' = status
  BY GoesOn
<1>2. PICK step \in {"collect", "save"} :
         job' = [job EXCEPT ![r] = Onward(job[r], step, None)]
  BY DEF Wrote
<1>3. job \in [Reviews -> Jobs] BY DEF IInv, Typed
<1>4. /\ job'[r] = Onward(job[r], step, None) /\ job[r].pub = {} /\ job[r].stash = {}
      /\ tree' = tree /\ stash'[r] = stash[r]
  BY <1>2, <1>3 DEF Wrote
<1>5. Kept(r, record[r], Onward(job[r], step, None), tree, stash[r])
  BY <1>1, <1>2, <1>4, KeptFacts, OnwardKept
<1>6. Kept(r, record'[r], job'[r], tree, stash'[r]) BY <1>1, <1>4, <1>5
<1> QED BY <1>1, <1>4, <1>6, KeptFacts, KeptSameTree

LEMMA CollectKept ==
    ASSUME IInv, KInv, NEW r \in Reviews, Collect(r)
    PROVE  KInv'
<1>1. /\ OthersStay(r) /\ job[r] # NoJob /\ record'[r] = record[r] /\ status' = status
  BY GoesOn
<1>2. PICK list : /\ list = [ epoch |-> Epoch(job[r].at, status.epoch),
                              atts |-> Published(tree) ]
                  /\ job' = [job EXCEPT ![r] = Onward(job[r], "resign", list)]
  BY DEF Collect
<1>3. job \in [Reviews -> Jobs] BY DEF IInv, Typed
<1>4. /\ job'[r] = Onward(job[r], "resign", list) /\ job[r].step = "collect"
      /\ tree' = tree /\ stash'[r] = stash[r]
  BY <1>2, <1>3 DEF Collect
<1>5. job[r].pub = {} /\ job[r].stash = {} BY <1>1, <1>4, JobFacts DEF JobSafe
<1>6. Kept(r, record[r], Onward(job[r], "resign", list), tree, stash[r])
  BY <1>1, <1>2, <1>5, KeptFacts, OnwardKept
<1>7. Kept(r, record'[r], job'[r], tree, stash'[r]) BY <1>1, <1>4, <1>6
<1> QED BY <1>1, <1>4, <1>7, KeptFacts, KeptSameTree

LEMMA ResignKept ==
    ASSUME IInv, KInv, NEW r \in Reviews, Resign(r)
    PROVE  KInv'
<1>1. /\ OthersStay(r) /\ job[r].step = "resign" /\ record'[r] = record[r]
      /\ tree' = tree /\ stash'[r] = stash[r] /\ status' = job[r].read
      /\ job'[r] = IF job[r].op = "sign" THEN Onward(job[r], "save", None) ELSE NoJob
  BY ResignIs
<1>2. job[r] # NoJob BY <1>1, Working
<1>3. job[r].pub = {} /\ job[r].stash = {} BY <1>1, <1>2, JobFacts DEF JobSafe
<1>4. Kept(r, record[r], job[r], tree, stash[r]) BY KeptFacts
<1>5. Kept(r, record[r], Onward(job[r], "save", None), tree, stash[r])
  BY <1>2, <1>3, KeptFacts, OnwardKept
<1>6. Kept(r, record[r], NoJob, tree, stash[r]) BY <1>4, ForgetKept
<1>7. Kept(r, record'[r], job'[r], tree, stash'[r]) BY <1>1, <1>5, <1>6
<1>8. status'.atts \subseteq Published(tree) BY <1>1, <1>4 DEF Kept
<1> QED BY <1>1, <1>7, <1>8, KeptSameTree

LEMMA SaveKept ==
    ASSUME IInv, KInv, NEW r \in Reviews, Save(r)
    PROVE  KInv'
<1>1. /\ OthersStay(r) /\ job[r] # NoJob /\ job[r].step = "save"
      /\ tree' = tree /\ stash'[r] = stash[r] /\ status' = status
      /\ job'[r] = IF job[r].op = "sign" THEN NoJob ELSE Onward(job[r], "collect", None)
      /\ record'[r].signed = job[r].signed
  BY SaveEnds
<1>2. job[r].pub = {} /\ job[r].stash = {} BY <1>1, JobFacts DEF JobSafe
<1>3. Settled(r, job[r].signed, tree, stash[r], {}, {}) BY <1>1, <1>2, KeptFacts
<1>4. PICK rec : rec = record'[r] OBVIOUS
<1>5. rec.signed = job[r].signed BY <1>1, <1>4
<1>6. Kept(r, rec, Onward(job[r], "collect", None), tree, stash[r])
  BY <1>1, <1>2, <1>3, <1>5, OnwardKept
<1>7. Kept(r, rec, NoJob, tree, stash[r]) BY <1>6, ForgetKept
<1>8. Kept(r, record'[r], job'[r], tree, stash'[r]) BY <1>1, <1>4, <1>6, <1>7
<1> QED BY <1>1, <1>8, KeptFacts, KeptSameTree

LEMMA OtherKept ==
    ASSUME KInv, tree' = tree, status' = status, stash' = stash,
           \A r \in Reviews : record'[r].signed = record[r].signed
                              /\ job'[r] \in {job[r], NoJob}
    PROVE  KInv'
<1>1. ASSUME NEW r \in Reviews PROVE Kept(r, record'[r], job'[r], tree, stash[r])
  <2>1. Kept(r, record[r], job[r], tree, stash[r]) BY DEF KInv
  <2>2. Kept(r, record[r], job'[r], tree, stash[r])
    <3>1. CASE job'[r] = job[r] BY <2>1, <3>1
    <3>2. CASE job'[r] = NoJob BY <2>1, <3>2, ForgetKept
    <3> QED BY <3>1, <3>2
  <2>3. record'[r].signed = record[r].signed OBVIOUS
  <2> QED BY <2>2, <2>3 DEF Kept
<1> QED BY <1>1 DEF KInv

(* No step loses a document of a signed review or a published attestation.    *)
LEMMA KeptNext ==
    ASSUME DistinctIds, IInv, KInv, [Next]_vars
    PROVE  KInv' /\ Published(tree) \subseteq Published(tree')
<1>1. ASSUME NEW r \in Reviews, Examine(r)
      PROVE  KInv' /\ Published(tree) \subseteq Published(tree')
  <2>1. /\ OthersStay(r) /\ record[r].signed = None /\ record'[r].signed = None
        /\ tree' = tree /\ status' = status /\ stash' = stash /\ job' = job
    BY <1>1, ExamineIs DEF RecordOnly
  <2>2. \A q \in Reviews : record'[q].signed = record[q].signed BY <2>1 DEF OthersStay
  <2> QED BY <2>1, <2>2, OtherKept
<1>2. ASSUME NEW r \in Reviews, Conclude(r)
      PROVE  KInv' /\ Published(tree) \subseteq Published(tree')
  <2>1. ASSUME NEW id \in AttIds, NEW hold \in (1..MaxTime) \cup {None}, Sign(r, id, hold)
        PROVE  KInv'
    BY <2>1, SignKept, ReviewAssumption
  <2>2. CASE WritePublic(r) BY <2>2, WritePublicKept
  <2>3. CASE ~WritePublic(r)
    <3>1. tree' = tree
      BY <1>2, <2>3 DEF Conclude, Sign, Release, WriteHeld, Wrote, Collect, Resign, Save
    <3>2. KInv'
      BY <1>2, <2>1, <2>3, ReleaseKept, WriteHeldKept, WroteKept, CollectKept, ResignKept,
         SaveKept DEF Conclude
    <3> QED BY <3>1, <3>2
  <2> QED BY <2>2, <2>3
<1>3. ASSUME (\E r \in Reviews : Fail(r)) \/ Crash \/ Tick \/ UNCHANGED vars
      PROVE  KInv' /\ Published(tree) \subseteq Published(tree')
  <2>1. record' = record /\ tree' = tree /\ status' = status /\ stash' = stash
    BY <1>3 DEF Fail, Crash, Tick, vars
  <2>2. job \in [Reviews -> Jobs] BY DEF IInv, Typed
  <2>3. \A q \in Reviews : job'[q] \in {job[q], NoJob}
    BY <1>3, <2>2 DEF Fail, Crash, Tick, vars
  <2> QED BY <2>1, <2>3, OtherKept
<1> QED BY <1>1, <1>2, <1>3 DEF Next

LEMMA InitKept == Init => KInv
<1> SUFFICES ASSUME Init PROVE KInv OBVIOUS
<1>1. /\ \A r \in Reviews : record[r].signed = None /\ job[r] = NoJob
      /\ status.atts = {}
  BY DEF Init, NewReview
<1> QED BY <1>1, NoJobStep DEF KInv, Kept

LEMMA AlwaysKept ==
    ASSUME DistinctIds
    PROVE  Spec => []KInv
BY AlwaysSafe, InitKept, KeptNext, PTL DEF Spec
(* What the invariants say of a signed review and of the types.               *)
LEMMA TypesHold ==
    ASSUME IInv
    PROVE  TypeOK
<1>1. now \in Nat /\ crashes \in Nat /\ faults \in Nat BY DEF IInv, Typed
<1>2. \A f \in tree : f.path[1] = "attestations" =>
         f.doc \in Attestations /\ f.path = AttPath(f.doc.id)
  BY Kinds DEF IInv, TreeSafe, TreeFiles
<1>3. \A f, g \in tree : f.path = g.path => f = g BY DEF IInv, TreeSafe, Uniq
<1>4. status.epoch \in Nat /\ status.atts \subseteq Attestations BY DEF IInv, Typed, Lists
<1>5. ASSUME NEW r \in Reviews
      PROVE  /\ record[r].agent \in {"none", "running", "done", "error"}
             /\ record[r].coverage \in {"none", "partial", "complete"}
             /\ record[r].refused \in BOOLEAN
             /\ record[r].findings \in
                   [FindingIds -> {"absent", "kept", "dropped"}
                                  \cup (IF r \in EngineReviews THEN {"pending"} ELSE {})]
             /\ record[r].signed \in SignedRecords \cup {None}
             /\ engine[r] \in 0..1
             /\ job[r].step \in {"idle", "write", "collect", "resign", "save"}
  <2>1. record[r] \in Records /\ engine[r] \in 0..1 /\ job[r] \in Jobs BY ReviewFacts
  <2>2. r \notin EngineReviews => With(record[r].findings, "pending") = {}
    BY ReviewFacts DEF ReviewSafe
  <2>3. record[r].findings \in
          [FindingIds -> {"absent", "kept", "dropped"}
                         \cup (IF r \in EngineReviews THEN {"pending"} ELSE {})]
    BY <2>1, <2>2 DEF Records, Findings, With
  <2> QED BY <2>1, <2>3 DEF Records, Jobs
<1> QED BY <1>1, <1>2, <1>3, <1>4, <1>5 DEF TypeOK

LEMMA ReportsWhole ==
    ASSUME IInv
    PROVE  ReportComplete
<1>1. SUFFICES ASSUME NEW r \in Reviews, record[r].signed # None
               PROVE  LET att == record[r].signed.att IN
                      /\ att.report.kept \cup att.report.dropped
                            = {f \in FindingIds : record[r].findings[f] # "absent"}
                      /\ att.result = ResultClass(record[r])
  BY DEF ReportComplete
<1>2. Fits(r, record[r].signed, record[r], now) BY <1>1, OwnStash
<1>3. record[r].findings \in Findings BY ReviewFacts DEF Records
<1>4. /\ record[r].signed.att.report = Report(r, record[r])
      /\ record[r].signed.att.result = ResultClass(record[r])
      /\ With(record[r].findings, "pending") = {}
  BY <1>2 DEF Fits
<1>5. With(record[r].findings, "kept") \cup With(record[r].findings, "dropped")
        = {f \in FindingIds : record[r].findings[f] # "absent"}
  BY <1>3, <1>4 DEF With, Findings
<1>6. /\ Report(r, record[r]).kept = With(record[r].findings, "kept")
      /\ Report(r, record[r]).dropped = With(record[r].findings, "dropped")
  BY DEF Report
<1> QED BY <1>4, <1>5, <1>6

(* Types and whole reports need nothing of the ids.                           *)
THEOREM ReportsStayWhole == Spec => [](TypeOK /\ ReportComplete)
<1>1. IInv => TypeOK /\ ReportComplete BY TypesHold, ReportsWhole
<1> QED BY <1>1, AlwaysSafe, PTL

(* Where no two reviews share an id: once a review is signed, its report      *)
(* accounts for every finding, and each of its documents is published or held *)
(* with a record that says so, whatever fails in the middle.                  *)
THEOREM SignedStaysWhole ==
    ASSUME DistinctIds
    PROVE  Spec => []SignedWhole
<1>1. IInv /\ KInv => SignedWhole
  <2> SUFFICES ASSUME IInv, KInv PROVE SignedWhole OBVIOUS
  <2>1. NothingLost
    <3>1. SUFFICES ASSUME NEW r \in Reviews, record[r].signed # None
                   PROVE  \A f \in Docs(r, record[r].signed) :
                             f \in tree \/ (f.path \in record[r].signed.held /\ f \in stash[r])
      BY DEF NothingLost, Docs, AttFile, ReportOf
    <3>2. Settled(r, record[r].signed, tree, stash[r], {}, {}) BY <3>1, KeptFacts
    <3> QED BY <3>2 DEF Settled
  <2> QED BY <2>1, TypesHold, ReportsWhole DEF SignedWhole
<1> QED BY <1>1, AlwaysSafe, AlwaysKept, PTL

(* There, too, the status list names only what the tree has, though two       *)
(* reviews write both without a common lock.                                  *)
THEOREM ListStaysTrue ==
    ASSUME DistinctIds
    PROVE  Spec => []ListMatchesTree
<1>1. KInv => ListMatchesTree BY DEF KInv, ListMatchesTree
<1> QED BY <1>1, AlwaysKept, PTL

(* And no published attestation is ever changed.                              *)
THEOREM AttestationsImmutable ==
    ASSUME DistinctIds
    PROVE  Spec => NeverModified
<1>1. IInv /\ KInv /\ [Next]_vars => [\A a \in Published(tree) : a \in Published(tree')]_vars
  BY KeptNext
<1> QED BY <1>1, AlwaysSafe, AlwaysKept, PTL DEF Spec, NeverModified

================================================================================
