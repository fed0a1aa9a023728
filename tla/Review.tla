-------------------------------- MODULE Review --------------------------------
(* The auditor's review tool (review/review.go, review/sign.go, driven by     *)
(* console/console.go): reviews of the engine or by hand, decided finding by  *)
(* finding, signed into the local public tree, and released when what was     *)
(* held back may be published.                                                *)
(*                                                                            *)
(* Every change of a review runs under that review's lock and starts from the *)
(* record on disk.  The lock is the review's own: two reviews share the       *)
(* public tree and its status list without any.  The engine is a goroutine    *)
(* that takes the lock when it is done.  A crash ends handlers and engine.    *)
EXTENDS StatusList

CONSTANTS
    Reviews,
    EngineReviews,  \* the LLM-assisted ones; the others are manual
    Embargo,        \* [Reviews -> days a fail is embargoed by its order, or None]
    Ordered,        \* the commissioned reviews
    FindingIds,
    Critical,       \* the findings of severity critical
    AttIds,
    IdsOf,          \* [Reviews -> the attestation ids the auditor may give]
    Coverages,      \* bound: what a coverage statement may be ("none": not made)
    Refusals,       \* bound: whether the engine's model may refuse
    MaxTime,        \* bound: the clock stops here
    MaxCrashes, MaxFaults \* bounds: crashes, and failing writes or re-signs

AttPath(id) == <<"attestations", id>>
OrderPath(r) == <<"orders", r>>
ScopePath(r) == <<"scopes", r>>
ReportPath(report) == <<"reports", report>>  \* named by its digest

(* What a signed review consists of.                                          *)
Results == {"inconclusive", "fail", "findings-noted", "clear"}
Reports == [review : Reviews, kept : SUBSET FindingIds, dropped : SUBSET FindingIds]
Attestations == [ id : AttIds, review : Reviews, result : Results, issuedAt : Nat,
                  report : Reports ]
SignedRecords == [ att : Attestations, until : Nat,
                   held : SUBSET ({AttPath(id) : id \in AttIds}
                                  \cup {OrderPath(r) : r \in Reviews}
                                  \cup {ScopePath(r) : r \in Reviews}
                                  \cup {ReportPath(p) : p \in Reports}) ]

ASSUME ReviewAssumption ==
    /\ EngineReviews \subseteq Reviews /\ Ordered \subseteq Reviews
    /\ Embargo \in [Reviews -> Nat \cup {None}]
    /\ \A r \in Reviews : Embargo[r] # None => r \in Ordered
    /\ Critical \subseteq FindingIds
    /\ IdsOf \in [Reviews -> SUBSET AttIds]
    /\ Coverages \subseteq {"none", "partial", "complete"} /\ Refusals \subseteq BOOLEAN
    /\ {MaxTime, MaxCrashes, MaxFaults} \subseteq Nat
    /\ None \notin Nat /\ None \notin SignedRecords

VARIABLES
    now,
    tree,    \* the public tree: a set of files [path, doc]
    status,  \* the local status list: [epoch, atts]
    record,  \* review -> its review.json
    stash,   \* review -> the files under its held/
    engine,  \* review -> its engine goroutines that run
    job,     \* review -> the Sign or Release that holds its lock
    crashes, faults

vars == <<now, tree, status, record, stash, engine, job, crashes, faults>>

-------------------------------------------------------------------------------
(* Files, and what signing makes of a review.                                 *)

At(fs, path) == {f \in fs : f.path = path}
Put(fs, f) == (fs \ At(fs, f.path)) \cup {f}
File(path, doc) == [path |-> path, doc |-> doc]
PathsOf(fs) == {f.path : f \in fs}
Published(fs) == {f.doc : f \in {g \in fs : g.path[1] = "attestations"}}

With(findings, st) == {f \in FindingIds : findings[f] = st}

(* agent.ResultClass over the kept findings.                                  *)
ResultClass(rec) ==
    LET kept == With(rec.findings, "kept") IN
    CASE rec.refused \/ rec.coverage = "none" -> "inconclusive"
      [] kept \cap Critical # {} -> "fail"
      [] kept # {} -> "findings-noted"
      [] rec.coverage = "partial" -> "inconclusive"
      [] OTHER -> "clear"

Report(r, rec) == [ review |-> r, kept |-> With(rec.findings, "kept"),
                    dropped |-> With(rec.findings, "dropped") ]

(* The report and, for the engine, the transcript, one document here.         *)
ReportFile(r, rec) == File(ReportPath(Report(r, rec)), Report(r, rec))

Attestation(r, rec, id) ==
    [ id |-> id, review |-> r, result |-> ResultClass(rec), issuedAt |-> now,
      report |-> Report(r, rec) ]

EngagementFiles(r) ==
    {File(ScopePath(r), r)} \cup (IF r \in Ordered THEN {File(OrderPath(r), r)} ELSE {})

(* A fail under an order that embargoes failures is held with its order and   *)
(* scope, and the report only if the auditor holds it.                        *)
HoldAttestation(r, rec) == ResultClass(rec) = "fail" /\ Embargo[r] # None

HeldFiles(r, rec, id, hold) ==
    (IF hold # None THEN {ReportFile(r, rec)} ELSE {})
    \cup (IF HoldAttestation(r, rec)
          THEN EngagementFiles(r) \cup {File(AttPath(id), Attestation(r, rec, id))}
          ELSE {})

AllFiles(r, rec, id) ==
    EngagementFiles(r) \cup {ReportFile(r, rec), File(AttPath(id), Attestation(r, rec, id))}

SignedRecord(r, rec, id, hold) ==
    LET held == HeldFiles(r, rec, id, hold) IN
    [ att   |-> Attestation(r, rec, id),
      held  |-> PathsOf(held),
      until |-> IF HoldAttestation(r, rec) THEN now + Embargo[r]
                ELSE IF hold # None THEN hold ELSE 0 ]

(* Blockers: what must happen before the review can be signed.                *)
Blocked(r) ==
    \/ record[r].signed # None
    \/ r \in EngineReviews /\ record[r].agent # "done"
    \/ record[r].coverage = "none"
    \/ With(record[r].findings, "pending") # {}

-------------------------------------------------------------------------------
NoJob == [ op |-> "none", step |-> "idle", stash |-> {}, pub |-> {},
           signed |-> None, at |-> 0, read |-> None ]

NewReview == [ agent |-> "none", coverage |-> "none", refused |-> FALSE,
               findings |-> [f \in FindingIds |-> "absent"], signed |-> None ]

Init == /\ now = 0
        /\ tree = {}
        /\ status = [epoch |-> 0, atts |-> {}]
        /\ record = [r \in Reviews |-> NewReview]
        /\ stash = [r \in Reviews |-> {}]
        /\ engine = [r \in Reviews |-> 0]
        /\ job = [r \in Reviews |-> NoJob]
        /\ crashes = 0 /\ faults = 0

Unlocked(r) == job[r] = NoJob

(* A job has files to write, and then goes step by step.                      *)
Writing(op, held, pub, signed) ==
    [ op |-> op, step |-> "write", stash |-> held, pub |-> pub, signed |-> signed,
      at |-> now, read |-> None ]
Onward(j, step, read) ==
    [ op |-> j.op, step |-> step, stash |-> {}, pub |-> {}, signed |-> j.signed,
      at |-> j.at, read |-> read ]

(* Update: the lock is free and the review is not signed.                     *)
Update(r, rec) ==
    /\ Unlocked(r) /\ record[r].signed = None
    /\ record' = [record EXCEPT ![r] = rec]
    /\ UNCHANGED <<now, tree, status, stash, job, crashes, faults>>

AddManual(r, f) ==
    /\ r \notin EngineReviews
    /\ record[r].findings[f] = "absent"
    /\ Update(r, [record[r] EXCEPT !.findings[f] = "kept"])
    /\ UNCHANGED engine

(* Decide: keep, drop with a reason, or delete an auditor's own finding.      *)
Decide(r, f, st) ==
    /\ record[r].findings[f] \notin {"absent", st}
    /\ st = "absent" => r \notin EngineReviews
    /\ Update(r, [record[r] EXCEPT !.findings[f] = st])
    /\ UNCHANGED engine

SetCoverage(r, c) ==
    /\ r \notin EngineReviews
    /\ record[r].coverage # c
    /\ Update(r, [record[r] EXCEPT !.coverage = c])
    /\ UNCHANGED engine

(* Mutant: that the engine is already running is not looked at.               *)
StartAgent_Twice(r) ==
    /\ r \in EngineReviews
    /\ record[r].agent # "done" /\ engine[r] < 2
    /\ Update(r, [record[r] EXCEPT !.agent = "running"])
    /\ engine' = [engine EXCEPT ![r] = @ + 1]

StartAgent(r) ==
    /\ r \in EngineReviews
    /\ record[r].agent \notin {"running", "done"}
    /\ Update(r, [record[r] EXCEPT !.agent = "running"])
    /\ engine' = [engine EXCEPT ![r] = @ + 1]

(* The goroutine comes back, with an error (the model's, or the transcript    *)
(* could not be written) or with findings and coverage.  It does not look at  *)
(* Signed.                                                                    *)
AgentError(r) ==
    /\ engine[r] > 0 /\ Unlocked(r)
    /\ engine' = [engine EXCEPT ![r] = @ - 1]
    /\ record' = [record EXCEPT ![r].agent = "error"]
    /\ UNCHANGED <<now, tree, status, stash, job, crashes, faults>>

AgentDone(r, found, c, refused) ==
    /\ engine[r] > 0 /\ Unlocked(r)
    /\ engine' = [engine EXCEPT ![r] = @ - 1]
    /\ LET old == record[r].findings IN
       record' = [record EXCEPT ![r] =
          [ agent |-> "done", coverage |-> c, refused |-> refused,
            findings |-> [f \in FindingIds |-> IF f \in found THEN "pending" ELSE old[f]],
            signed |-> record[r].signed ]]
    /\ UNCHANGED <<now, tree, status, stash, job, crashes, faults>>

-------------------------------------------------------------------------------
(* Sign and Release, file by file.                                            *)

(* Mutant: an attestation with this id in the tree does not matter.           *)
Sign_NoCheck(r, id, hold) ==
    /\ Unlocked(r) /\ ~Blocked(r)
    /\ id \in IdsOf[r]
    /\ hold # None => hold > now
    /\ LET held == HeldFiles(r, record[r], id, hold) IN
       job' = [job EXCEPT ![r] =
          Writing("sign", held, AllFiles(r, record[r], id) \ held,
                  SignedRecord(r, record[r], id, hold))]
    /\ UNCHANGED <<now, tree, status, record, stash, engine, crashes, faults>>

Sign(r, id, hold) ==
    /\ Unlocked(r) /\ ~Blocked(r)
    /\ id \in IdsOf[r] /\ At(tree, AttPath(id)) = {}
    /\ hold # None => hold > now
    /\ LET held == HeldFiles(r, record[r], id, hold) IN
       job' = [job EXCEPT ![r] =
          Writing("sign", held, AllFiles(r, record[r], id) \ held,
                  SignedRecord(r, record[r], id, hold))]
    /\ UNCHANGED <<now, tree, status, record, stash, engine, crashes, faults>>

(* Mutant: release does not wait for HeldUntil.                               *)
Release_Early(r) ==
    /\ Unlocked(r)
    /\ record[r].signed # None /\ record[r].signed.held # {}
    /\ LET s == record[r].signed IN
       job' = [job EXCEPT ![r] =
          Writing("release", {}, {f \in stash[r] : f.path \in s.held},
                  [att |-> s.att, held |-> {}, until |-> 0])]
    /\ UNCHANGED <<now, tree, status, record, stash, engine, crashes, faults>>

Release(r) ==
    /\ Unlocked(r)
    /\ record[r].signed # None /\ record[r].signed.held # {}
    /\ now >= record[r].signed.until
    /\ LET s == record[r].signed IN
       job' = [job EXCEPT ![r] =
          Writing("release", {}, {f \in stash[r] : f.path \in s.held},
                  [att |-> s.att, held |-> {}, until |-> 0])]
    /\ UNCHANGED <<now, tree, status, record, stash, engine, crashes, faults>>

(* Held files first, then the public ones, each set in the random order of a  *)
(* map.                                                                       *)
WriteHeld(r) ==
    /\ job[r].step = "write"
    /\ \E f \in job[r].stash :
          /\ stash' = [stash EXCEPT ![r] = Put(@, f)]
          /\ job' = [job EXCEPT ![r].stash = @ \ {f}]
    /\ UNCHANGED <<now, tree, status, record, engine, crashes, faults>>

WritePublic_Skip(r) == \* mutant: a failing write is skipped
    /\ job[r].step = "write" /\ job[r].stash = {}
    /\ \E f \in job[r].pub :
          /\ tree' \in {tree, Put(tree, f)}
          /\ job' = [job EXCEPT ![r].pub = @ \ {f}]
    /\ UNCHANGED <<now, status, record, stash, engine, crashes, faults>>

WritePublic(r) ==
    /\ job[r].step = "write" /\ job[r].stash = {}
    /\ \E f \in job[r].pub :
          /\ tree' = Put(tree, f)
          /\ job' = [job EXCEPT ![r].pub = @ \ {f}]
    /\ UNCHANGED <<now, status, record, stash, engine, crashes, faults>>

(* Sign re-signs the list before it saves, unless the attestation is held;    *)
(* Release saves first.                                                       *)
Wrote(r) ==
    /\ job[r].step = "write" /\ job[r].stash = {} /\ job[r].pub = {}
    /\ LET s == job[r].signed
           step == IF job[r].op = "sign" /\ AttPath(s.att.id) \notin s.held
                   THEN "collect" ELSE "save"
       IN  job' = [job EXCEPT ![r] = Onward(@, step, None)]
    /\ UNCHANGED <<now, tree, status, record, stash, engine, crashes, faults>>

(* ResignStatus reads the tree and the previous list, and later writes.       *)
Collect(r) ==
    /\ job[r].step = "collect"
    /\ LET list == [ epoch |-> Epoch(job[r].at, status.epoch), atts |-> Published(tree) ]
       IN  job' = [job EXCEPT ![r] = Onward(@, "resign", list)]
    /\ UNCHANGED <<now, tree, status, record, stash, engine, crashes, faults>>

Resign(r) ==
    /\ job[r].step = "resign"
    /\ status' = job[r].read
    /\ job' = [job EXCEPT ![r] = IF job[r].op = "sign" THEN Onward(@, "save", None)
                                 ELSE NoJob]
    /\ UNCHANGED <<now, tree, record, stash, engine, crashes, faults>>

Save(r) ==
    /\ job[r].step = "save"
    /\ record' = [record EXCEPT ![r].signed = job[r].signed]
    /\ job' = [job EXCEPT ![r] = IF job[r].op = "sign" THEN NoJob
                                 ELSE Onward(@, "collect", None)]
    /\ UNCHANGED <<now, tree, status, stash, engine, crashes, faults>>

-------------------------------------------------------------------------------
(* A write or the re-sign fails: the handler returns with what it has done.   *)
Fail(r) ==
    /\ faults < MaxFaults /\ faults' = faults + 1
    /\ job[r].op # "none"
    /\ job' = [job EXCEPT ![r] = NoJob]
    /\ UNCHANGED <<now, tree, status, record, stash, engine, crashes>>

(* The console is stopped and started again.                                  *)
Crash ==
    /\ crashes < MaxCrashes /\ crashes' = crashes + 1
    /\ job' = [r \in Reviews |-> NoJob]
    /\ engine' = [r \in Reviews |-> 0]
    /\ UNCHANGED <<now, tree, status, record, stash, faults>>

Tick ==
    /\ now < MaxTime /\ now' = now + 1
    /\ UNCHANGED <<tree, status, record, stash, engine, job, crashes, faults>>

Examine(r) == \/ \E f \in FindingIds : AddManual(r, f)
              \/ \E f \in FindingIds, st \in {"kept", "dropped", "absent"} : Decide(r, f, st)
              \/ \E c \in Coverages \ {"none"} : SetCoverage(r, c)
              \/ StartAgent(r)
              \/ AgentError(r)
              \/ \E found \in SUBSET FindingIds, c \in Coverages, refused \in Refusals :
                    AgentDone(r, found, c, refused)

Conclude(r) == \/ \E id \in AttIds, hold \in (1..MaxTime) \cup {None} : Sign(r, id, hold)
               \/ Release(r)
               \/ WriteHeld(r)
               \/ WritePublic(r)
               \/ Wrote(r)
               \/ Collect(r)
               \/ Resign(r)
               \/ Save(r)

Next == \/ \E r \in Reviews : Examine(r) \/ Conclude(r) \/ Fail(r)
        \/ Crash
        \/ Tick

Spec == Init /\ [][Next]_vars

-------------------------------------------------------------------------------
(* Properties.                                                                *)

(* Every variable has its type; an auditor's own finding is never undecided,  *)
(* and a path of attestations holds an attestation with that id.              *)
TypeOK ==
    /\ now \in Nat /\ crashes \in Nat /\ faults \in Nat
    /\ \A f \in tree : f.path[1] = "attestations" =>
          f.doc \in Attestations /\ f.path = AttPath(f.doc.id)
    /\ \A f, g \in tree : f.path = g.path => f = g
    /\ status.epoch \in Nat /\ status.atts \subseteq Attestations
    /\ \A r \in Reviews :
          /\ record[r].agent \in {"none", "running", "done", "error"}
          /\ record[r].coverage \in {"none", "partial", "complete"}
          /\ record[r].refused \in BOOLEAN
          /\ record[r].findings \in
                [FindingIds -> {"absent", "kept", "dropped"}
                               \cup (IF r \in EngineReviews THEN {"pending"} ELSE {})]
          /\ record[r].signed \in SignedRecords \cup {None}
          /\ engine[r] \in 0..1
          /\ job[r].step \in {"idle", "write", "collect", "resign", "save"}

(* A signed review is frozen: no later finding, decision, coverage or engine  *)
(* run changes it, nor the attestation it is signed as (Update, StartAgent    *)
(* and its goroutine, which does not look).                                   *)
FrozenOnceSigned ==
    [][\A r \in Reviews : record[r].signed # None =>
          /\ record'[r].signed # None
          /\ record'[r].signed.att = record[r].signed.att
          /\ record'[r].findings = record[r].findings
          /\ record'[r].coverage = record[r].coverage
          /\ record'[r].agent = record[r].agent]_vars

(* The attestation of a signed review accounts for every finding there is,    *)
(* kept or dropped, and its result is the one these findings have: nothing    *)
(* the engine reported disappears between the run and the report.             *)
ReportComplete ==
    \A r \in Reviews : record[r].signed # None =>
        LET att == record[r].signed.att IN
        /\ att.report.kept \cup att.report.dropped
              = {f \in FindingIds : record[r].findings[f] # "absent"}
        /\ att.result = ResultClass(record[r])

(* Once a review is signed, each of its documents is in the public tree, or   *)
(* held in the review's directory with a record that says so: whatever fails  *)
(* in the middle of Sign or Release, none is lost (writes, then save).        *)
NothingLost ==
    \A r \in Reviews : record[r].signed # None =>
        LET s == record[r].signed
            docs == EngagementFiles(r) \cup
                    {File(AttPath(s.att.id), s.att), File(ReportPath(s.att.report), s.att.report)}
        IN  \A f \in docs : f \in tree \/ (f.path \in s.held /\ f \in stash[r])

EmbargoRuns(r) == /\ record[r].signed # None
                  /\ AttPath(record[r].signed.att.id) \in record[r].signed.held
                  /\ now < record[r].signed.until

(* An embargoed fail is not in the tree before its embargo ends, and as long  *)
(* as nothing has failed neither is its order or scope (sign, Release).       *)
EmbargoKept ==
    /\ \A a \in Published(tree) :
          a.result = "fail" /\ Embargo[a.review] # None
              => now >= a.issuedAt + Embargo[a.review]
    /\ crashes = 0 /\ faults = 0 =>
          \A r \in Reviews : EmbargoRuns(r) => EngagementFiles(r) \cap tree = {}

(* The local status list names only attestations the tree holds, with these   *)
(* bytes, although the two reviews that write both know nothing of each other.*)
ListMatchesTree == status.atts \subseteq Published(tree)

(* "attestations are immutable": what is at an attestation's path stays, as   *)
(* long as no two reviews are signed under one id.                            *)
NeverModified ==
    [][\A a \in Published(tree) : a \in Published(tree')]_vars

(* A record of its type that is signed has its report, with every finding     *)
(* kept, and none of its documents is lost before its release.                *)
SignedWhole ==
    /\ TypeOK
    /\ ReportComplete
    /\ NothingLost

================================================================================
