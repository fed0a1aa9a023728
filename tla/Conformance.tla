------------------------------ MODULE Conformance ------------------------------
(* The conformance suite for Discovery providers (conformance/discovery): one *)
(* run fetches a deployment's documents one after the other, over a network   *)
(* that loses some, within a budget, while the provider goes on publishing,   *)
(* pruning, equivocating; every check ends with an outcome and the run with a *)
(* result, which an auditor then signs.                                       *)
(*                                                                            *)
(* The deployment is not this repository's code: it is whatever the suite may *)
(* meet. A flaw <<document, name>> says that the suite's decoder finds that   *)
(* problem in that document, or that its URI answers with that status; a      *)
(* snapshot's digest is its sequence and variant.                             *)
EXTENDS Integers, SequencesExt

CONSTANTS
    None,
    Order,         \* the catalogs, in the manifest's order
    Listing,       \* catalog -> the components its snapshots list
    Length,        \* catalog -> the snapshots published before the run
    Window,        \* a snapshot's usual life
    ShortWindow, MaxWindow, Skew, \* six weeks, ninety days, ten minutes
    HubTime,       \* the hub's deadline for a run
    MaxWalk,       \* siblings walked back
    Budgets,       \* requests after which a run's budget may be spent
    FlawSets,      \* the sets of flaws a deployment may have
    Busy,          \* bound: the catalogs whose provider acts while it is examined
    Founded,       \* a time at which all founding snapshots exist
    MaxTime, MaxSeq, MaxTrouble \* bounds

Catalogs == ToSet(Order)
Components == UNION {Listing[c] : c \in Catalogs}

M == <<"manifest">>
Descriptor(c) == <<"descriptor", c>>
Entry(c, x) == <<"entry", c, x>>

(* What the decoders can find in each document, and what its URI can answer.  *)
Statuses == {"404", "403", "5xx", "off-policy", "section7"}
FlawNames(doc) ==
    CASE doc[1] = "manifest" ->
           {"uri", "seat", "size", "parse", "schema", "identity", "key", "unsigned", "signature",
            "valid-until", "privacy-missing", "privacy-uri", "privacy-digest", "catalogs",
            "duplicate-id", "cookie"} \cup Statuses
      [] doc[1] \in {"manifest.sig", "latest.sig", "sibling.sig"} ->
           {"size", "form", "cookie"} \cup Statuses
      [] doc[1] \in {"privacy", "policy"} -> {"size", "bytes", "cookie"} \cup Statuses
      [] doc[1] \in {"latest", "sibling"} -> {"cookie"} \cup Statuses
      [] doc[1] = "descriptor" -> {"fields", "unknown", "uri", "audience"}
      [] doc[1] = "snapshot" ->
           {"size", "parse", "schema", "identity", "catalog", "signature", "unsigned", "policy",
            "chain-fields", "no-sequence", "times", "future", "born-expired", "window-max",
            "window-short", "no-entries", "entry-count", "duplicate"}
      [] doc[1] = "entry" -> {"fields", "unknown", "uri", "seat-type", "pin"}
      [] doc[1] = "dest" ->
           {"size", "changed", "parse", "conflict", "unsure", "foreign-key", "unsigned",
            "foreign-signature", "signature"} \cup Statuses

(* The documents of a deployment that can have a flaw.                        *)
Documents ==
    {M, <<"manifest.sig">>, <<"privacy">>}
      \cup {<<kind, c>> : kind \in {"descriptor", "policy", "latest", "latest.sig"}, c \in Catalogs}
      \cup {<<kind, c, k>> : kind \in {"snapshot", "sibling", "sibling.sig"}, c \in Catalogs, k \in 1..MaxSeq}
      \cup {<<"dest", x>> : x \in Components}
      \cup UNION {{Entry(c, x) : x \in Listing[c]} : c \in Catalogs}

ASSUME ConformanceAssumption ==
    /\ Order \in Seq(Catalogs) /\ Order # <<>>
    /\ \A i, j \in DOMAIN Order : Order[i] = Order[j] => i = j
    /\ MaxSeq \in Nat /\ MaxTime \in Nat /\ MaxTrouble \in Nat /\ Budgets \subseteq Nat
    /\ Founded \in Nat /\ Founded <= MaxTime
    /\ \A c \in Catalogs : Length[c] \in 1..MaxSeq /\ Length[c] <= Founded
    /\ {Window, ShortWindow, MaxWindow, Skew, HubTime, MaxWalk} \subseteq Nat \ {0}
    /\ Window <= ShortWindow /\ ShortWindow < MaxWindow /\ HubTime < Skew
    /\ Busy \subseteq Catalogs

(* A document has the flaws its decoder knows, and a URI answers one way. A   *)
(* catalog that lists nothing lists nothing twice.                            *)
ASSUME FlawsAssumption ==
    \A fs \in FlawSets :
        /\ IsFiniteSet(fs)
        /\ \A f \in fs :
             /\ f = <<f[1], f[2]>> /\ f[1] \in Documents /\ f[2] \in FlawNames(f[1])
             /\ f[1][1] = "snapshot" /\ f[2] = "duplicate" => Listing[f[1][2]] # {}
        /\ \A f, g \in fs : f[1] = g[1] /\ {f[2], g[2]} \subseteq Statuses => f = g

(* A snapshot: its bytes are known by its sequence and variant.               *)
SnapshotSet ==
    [ cat : Catalogs, seq : Nat, alt : {0, 1}, prev : (Nat \X {0, 1}) \cup {None}, policy : Nat,
      gen : Nat, exp : Nat ]
ASSUME NoneAssumption == None \notin Nat \cup (Nat \X {0, 1}) \cup SnapshotSet

VARIABLES
    \* the deployment
    now,
    ver,      \* the version of the manifest served
    policy,   \* catalog -> the policy the manifest pins, and policyUri serves
    chain,    \* catalog -> the snapshots published; the last is the latest
    shelf,    \* catalog -> sequence -> what <catalog>-<sequence>.json serves, or None
    flaws,
    \* the run
    phase,    \* idle, probed, run, done, or refused by the hub
    at,       \* the run's time, by which everything is judged
    doing,    \* what the run does next: a URI to fetch, or a step without one
    got,      \* the cache: URI -> response
    found,    \* findings <<check, subject, outcome>>
    stopped,
    deadline, \* the end of the hub's time for the run; None for the command
    budget,
    \* kept for the properties, and bounds
    wrongs,   \* what the provider did that no provider may
    changes, mishaps

deployment == <<now, ver, policy, chain, shelf, wrongs, changes>>
vars == <<deployment, flaws, phase, at, doing, got, found, stopped, deadline, budget, mishaps>>

-------------------------------------------------------------------------------
(* The deployment's documents.                                                *)
Bad(doc, names) == \E n \in names : <<doc, n>> \in flaws

IsBad(s, names) == s.alt = 0 /\ Bad(<<"snapshot", s.cat, s.seq>>, names)
Digest(s) == <<s.seq, s.alt>>
Twin(s) == [s EXCEPT !.alt = 1 - s.alt]

Life(c, k) ==
    LET snap == <<"snapshot", c, k>>
    IN  IF Bad(snap, {"window-max"}) THEN MaxWindow + 1
        ELSE IF Bad(snap, {"born-expired"}) THEN 0
        ELSE IF Bad(snap, {"window-short"}) THEN ShortWindow + 1
        ELSE Window

Snapshot(c, k, prev, pol, t) ==
    LET gen == IF Bad(<<"snapshot", c, k>>, {"future"}) THEN MaxTime + Skew + 1 ELSE t
    IN  [ cat |-> c, seq |-> k, alt |-> 0, prev |-> prev, policy |-> pol,
          gen |-> gen, exp |-> gen + Life(c, k) ]

Founding(c) ==
    [k \in 1..Length[c] |-> Snapshot(c, k, IF k = 1 THEN None ELSE <<k - 1, 0>>, 1, k)]

-------------------------------------------------------------------------------
(* Fetching. A response is its status and the document.                       *)
Answer(st) == [st |-> st, doc |-> None]
Ok(doc) == [st |-> "200", doc |-> doc]

Filed(s, doc) == IF s = None THEN Answer("404") ELSE Ok(doc)

Body(u) ==
    CASE u[1] = "manifest" -> Ok([ver |-> ver, policy |-> policy])
      [] u[1] = "manifest.sig" -> Ok(ver)
      [] u[1] = "policy" -> Ok(policy[u[2]])
      [] u[1] = "latest" -> Ok(Last(chain[u[2]]))
      [] u[1] = "latest.sig" -> Ok(Digest(Last(chain[u[2]])))
      [] u[1] = "sibling" -> Filed(shelf[u[2]][u[3]], shelf[u[2]][u[3]])
      [] u[1] = "sibling.sig" -> Filed(shelf[u[2]][u[3]], Digest(shelf[u[2]][u[3]]))
      [] u[1] \in {"privacy", "dest"} -> Ok(None)
Served(u) ==
    IF Bad(u, Statuses) THEN Answer(CHOOSE st \in Statuses : <<u, st>> \in flaws) ELSE Body(u)

(* What a response tells: a document that need not be there may be denied.    *)
State(r, optional) ==
    CASE r.st = "200" -> "ok"
      [] r.st \in {"lost", "spent", "5xx", "off-policy"} -> "unknown"
      [] r.st = "404" \/ (optional /\ r.st = "403") -> "absent"
      [] OTHER -> "refused"

(* One request per URI and run, as long as its budget and its time last.      *)
Trouble == Cardinality(flaws) + changes + mishaps
             + (IF \E b \in Budgets : budget < b THEN 1 ELSE 0)

Late == deadline # None /\ now > deadline

Get(u, r) ==
    \/ /\ u \in DOMAIN got /\ r = got[u]
       /\ UNCHANGED <<got, mishaps>>
    \/ /\ u \notin DOMAIN got
       /\ got' = [v \in DOMAIN got \cup {u} |-> IF v = u THEN r ELSE got[v]]
       /\ \/ /\ Cardinality(DOMAIN got) >= budget
             /\ r = Answer("spent") /\ UNCHANGED mishaps
          \/ /\ Cardinality(DOMAIN got) < budget /\ Late
             /\ r = Answer("lost") /\ UNCHANGED mishaps
          \/ /\ Cardinality(DOMAIN got) < budget /\ ~Late
             /\ r = Served(u) /\ UNCHANGED mishaps
          \/ /\ Cardinality(DOMAIN got) < budget /\ ~Late
             /\ Trouble < MaxTrouble
             /\ r = Answer("lost") /\ mishaps' = mishaps + 1

Responses(u) ==
    {Served(u), Answer("lost"), Answer("spent")}
        \cup (IF u \in DOMAIN got THEN {got[u]} ELSE {})

-------------------------------------------------------------------------------
(* Checks, findings and what follows from them.                               *)
Chain4 == {"chain.retention", "chain.sibling-valid", "chain.links", "chain.latest-sibling"}
DestScoped == {"dest.retrievable", "dest.digest", "dest.fields", "dest.signature"}
EntryChecks ==
    {"snapshot.duplicate-component", "entry.fields", "entry.unknown-keys", "entry.seat-type-declared"}
AfterSignature ==
    {"snapshot.policy-digest", "snapshot.chain-fields", "snapshot.dates", "snapshot.window-max",
     "snapshot.window-short", "snapshot.fresh", "snapshot.entry-count"}
        \cup EntryChecks \cup Chain4 \cup DestScoped
SnapshotChecks ==
    {"snapshot.size", "snapshot.schema", "snapshot.identity", "snapshot.signature",
     "snapshot.detached-sig"}
CatalogScoped == {"policy.document", "snapshot.fetch"} \cup SnapshotChecks \cup AfterSignature
DescriptorChecks ==
    {"catalog.descriptor-fields", "catalog.descriptor-unknown-keys", "catalog.decodable",
     "catalog.duplicate-id"}
Should ==
    {"catalog.descriptor-unknown-keys", "snapshot.window-short", "entry.unknown-keys",
     "entry.seat-type-declared", "dest.retrievable", "dest.digest"}
Checks ==
    {"manifest.uri", "manifest.fetch", "manifest.size", "manifest.schema", "manifest.identity",
     "manifest.signature", "manifest.detached-sig", "manifest.valid-until", "uri.rules",
     "privacy.document", "provider.cross-catalog-digest", "serving.no-cookies"}
        \cup DescriptorChecks \cup CatalogScoped

Passed(check, subject) == <<check, subject, "pass">>
Failed(check, subject) == <<check, subject, "fail">>
Judge(check, subject, bad) == IF bad THEN Failed(check, subject) ELSE Passed(check, subject)
Block(checks, subject) == {<<check, subject, "inconclusive">> : check \in checks}
NotApplicable(checks, subject) == {<<check, subject, "not-applicable">> : check \in checks}

Required(check, subject, r) ==
    << check, subject,
       CASE State(r, FALSE) = "ok" -> "pass"
         [] State(r, FALSE) = "unknown" -> "inconclusive"
         [] OTHER -> "fail" >>

(* A pinned document: served, within its bound, and hashing to the pin.       *)
Document(check, subject, u, r, malformed, pin) ==
    << check, subject,
       IF State(r, FALSE) = "unknown" THEN "inconclusive"
       ELSE IF State(r, FALSE) # "ok" \/ Bad(u, {"size"}) THEN "fail"
       ELSE IF malformed THEN "inconclusive"
       ELSE IF Bad(u, {"bytes"}) \/ r.doc # pin THEN "fail"
       ELSE "pass" >>

(* The optional .sig beside a signed document.                                *)
Detached(check, subject, u, r, embedded) ==
    << check, subject,
       CASE State(r, TRUE) = "absent" -> "not-applicable"
         [] State(r, TRUE) = "unknown" -> "inconclusive"
         [] State(r, TRUE) = "refused" -> "fail"
         [] State(r, TRUE) = "ok" ->
              IF Bad(u, {"size", "form"}) \/ r.doc # embedded THEN "fail" ELSE "pass" >>

OutcomeOf_Best(check) == \* mutant: one subject that passes is enough
    LET outs == {f[3] : f \in {g \in found : g[1] = check}}
    IN  IF outs = {} /\ stopped THEN "inconclusive"
        ELSE IF "fail" \in outs THEN "fail"
        ELSE IF "pass" \in outs THEN "pass"
        ELSE IF "inconclusive" \in outs THEN "inconclusive"
        ELSE "not-applicable"

OutcomeOf(check) ==
    LET outs == {f[3] : f \in {g \in found : g[1] = check}}
    IN  IF outs = {} /\ stopped THEN "inconclusive"
        ELSE IF "fail" \in outs THEN "fail"
        ELSE IF "inconclusive" \in outs THEN "inconclusive"
        ELSE IF "pass" \in outs THEN "pass"
        ELSE "not-applicable"

Result ==
    LET ended(out) == {check \in Checks : OutcomeOf(check) = out}
    IN  IF ended("fail") \ Should # {} THEN "fail"
        ELSE IF ended("inconclusive") \ Should # {} THEN "inconclusive"
        ELSE IF (ended("fail") \cup ended("inconclusive")) \cap Should # {} THEN "findings-noted"
        ELSE "clear"

(* What a step of the run finds, and what the run does next.                  *)
End == <<"end">>
Go(finds, next) ==
    /\ found' = found \cup finds
    /\ doing' = next
    /\ UNCHANGED stopped
Stop_Again(finds) == \* mutant: the step stays to be done
    /\ found' = found \cup finds
    /\ doing' = doing /\ stopped' = TRUE
Stop(finds) ==
    /\ found' = found \cup finds
    /\ doing' = End /\ stopped' = TRUE

Doing(t) == phase = "run" /\ doing = t
Running == UNCHANGED <<deployment, flaws, phase, at, deadline, budget>>

-------------------------------------------------------------------------------
(* The manifest, its signature and its descriptors.                           *)
ManifestSchemaBad ==
    Bad(M, {"schema", "unsigned", "catalogs", "privacy-missing", "privacy-digest"})

GetManifest ==
    /\ Doing(M) /\ Running
    /\ \E r \in Responses(M) :
         LET fetched == Required("manifest.fetch", M, r)
             size == Judge("manifest.size", M, Bad(M, {"size"}))
             schema == Judge("manifest.schema", M, Bad(M, {"parse"}) \/ ManifestSchemaBad)
             identity == Judge("manifest.identity", M, Bad(M, {"identity", "seat", "key"}))
         IN  /\ Get(M, r)
             /\ \/ State(r, FALSE) # "ok" /\ Stop({fetched})
                \/ State(r, FALSE) = "ok" /\ Bad(M, {"size"}) /\ Stop({fetched, size})
                \/ /\ State(r, FALSE) = "ok" /\ ~Bad(M, {"size"}) /\ Bad(M, {"parse"})
                   /\ Stop({fetched, size, schema})
                \/ /\ State(r, FALSE) = "ok" /\ ~Bad(M, {"size", "parse"})
                   /\ Go({fetched, size, schema, identity}, <<"manifest.sig">>)

Decoded == {c \in Catalogs : ~Bad(Descriptor(c), {"fields", "unknown", "uri"})}
Public == {c \in Decoded : ~Bad(Descriptor(c), {"audience"})}

Descriptors ==
    {Judge("catalog.descriptor-fields", <<c>>, Bad(Descriptor(c), {"fields"})) : c \in Catalogs}
      \cup {Judge("catalog.descriptor-unknown-keys", <<c>>, Bad(Descriptor(c), {"unknown"})) :
              c \in Catalogs}
      \cup {Judge("uri.rules", <<c>>, Bad(Descriptor(c), {"uri"})) :
              c \in {d \in Catalogs : Bad(Descriptor(d), {"uri"}) \/ ~Bad(Descriptor(d), {"fields"})}}
      \cup {Judge("catalog.decodable", M, Decoded = {})}
      \cup (IF Decoded = {} THEN {}
            ELSE {Judge("catalog.duplicate-id", M, Bad(M, {"duplicate-id"}))})

PrivacyUri ==
    IF Bad(M, {"privacy-missing"}) THEN {Failed("privacy.document", M)}
    ELSE IF Bad(M, {"privacy-uri"}) THEN {Failed("uri.rules", M)} \cup Block({"privacy.document"}, M)
    ELSE {Passed("uri.rules", M)}

(* The public catalogs are examined in the manifest's order, then the entries *)
(* of those whose latest snapshot the operator signed.                        *)
Position(c) == CHOOSE i \in DOMAIN Order : Order[i] = c
Following(i) ==
    LET rest == {j \in DOMAIN Order : j > i /\ Order[j] \in Public}
    IN  IF rest = {} THEN <<"entries">>
        ELSE <<"policy", Order[CHOOSE j \in rest : \A l \in rest : j <= l]>>
NextCatalog(c) == Following(Position(c))
AfterPrivacy == IF Bad(M, {"catalogs"}) THEN End ELSE Following(0)

(* Only a manifest its operator signed is held against anyone.                *)
GetManifestSig ==
    LET u == <<"manifest.sig">>
    IN  /\ Doing(u) /\ Running
        /\ \E r \in Responses(u) :
             LET embedded == IF Bad(M, {"unsigned"}) THEN None ELSE got[M].doc.ver
                 sig == Detached("manifest.detached-sig", M, u, r, embedded)
                 valid == {Passed("manifest.signature", M),
                           Judge("manifest.valid-until", M, Bad(M, {"valid-until"}))}
                 next == IF Bad(M, {"privacy-missing", "privacy-uri"}) THEN AfterPrivacy
                         ELSE <<"privacy">>
             IN  /\ Get(u, r)
                 /\ \/ /\ Bad(M, {"key"})
                       /\ Stop({sig} \cup Block({"manifest.signature"}, M))
                    \/ /\ ~Bad(M, {"key"}) /\ Bad(M, {"unsigned", "signature"})
                       /\ Stop({sig, Failed("manifest.signature", M)})
                    \/ /\ ~Bad(M, {"key", "unsigned", "signature"}) /\ Bad(M, {"catalogs"})
                       /\ Go({sig} \cup valid \cup PrivacyUri
                               \cup Block(DescriptorChecks \cup CatalogScoped, M), next)
                    \/ /\ ~Bad(M, {"key", "unsigned", "signature", "catalogs"})
                       /\ Go({sig} \cup valid \cup PrivacyUri \cup Descriptors, next)

GetPrivacy ==
    LET u == <<"privacy">>
    IN  /\ Doing(u) /\ Running
        /\ \E r \in Responses(u) :
             /\ Get(u, r)
             /\ Go({Document("privacy.document", M, u, r, Bad(M, {"privacy-digest"}), None)}, AfterPrivacy)

GetPolicy(c) ==
    LET u == <<"policy", c>>
    IN  /\ Doing(u) /\ Running
        /\ \E r \in Responses(u) :
             /\ Get(u, r)
             /\ Go({Document("policy.document", <<c>>, u, r, FALSE, got[M].doc.policy[c])},
                <<"latest", c>>)

-------------------------------------------------------------------------------
(* A catalog's latest snapshot.                                               *)
SchemaBad(s) == IsBad(s, {"schema", "unsigned", "no-sequence", "no-entries"})
IdentityBad(s) == IsBad(s, {"identity", "catalog"})
ChainFieldsBad(s) == IsBad(s, {"chain-fields", "no-sequence"})
SigOK(s) == ~IsBad(s, {"unsigned", "signature"})
TimesOK(s) == ~IsBad(s, {"times"})

GetLatest(c) ==
    LET u == <<"latest", c>>
    IN  /\ Doing(u) /\ Running
        /\ \E r \in Responses(u) :
             LET s == r.doc
                 ok == State(r, FALSE) = "ok"
                 fetched == Required("snapshot.fetch", <<c>>, r)
                 size == Passed("snapshot.size", <<c>>)
             IN  /\ Get(u, r)
                 /\ \/ /\ ~ok
                       /\ Go({fetched} \cup Block(SnapshotChecks \cup AfterSignature, <<c>>), NextCatalog(c))
                    \/ /\ ok /\ IsBad(s, {"size"})
                       /\ Go({fetched, Failed("snapshot.size", <<c>>)}
                               \cup Block((SnapshotChecks \ {"snapshot.size"}) \cup AfterSignature, <<c>>),
                             NextCatalog(c))
                    \/ /\ ok /\ ~IsBad(s, {"size"}) /\ IsBad(s, {"parse"})
                       /\ Go({fetched, size, Failed("snapshot.schema", <<c>>)}
                               \cup Block({"snapshot.identity", "snapshot.signature",
                                           "snapshot.detached-sig"} \cup AfterSignature, <<c>>),
                             NextCatalog(c))
                    \/ /\ ok /\ ~IsBad(s, {"size", "parse"})
                       /\ Go({fetched, size, Judge("snapshot.schema", <<c>>, SchemaBad(s)),
                              Judge("snapshot.identity", <<c>>, IdentityBad(s))},
                             <<"latest.sig", c>>)

Times(c, s) ==
    IF ~TimesOK(s)
    THEN {Failed("snapshot.dates", <<c>>)}
           \cup Block({"snapshot.window-max", "snapshot.window-short", "snapshot.fresh"}, <<c>>)
    ELSE {Judge("snapshot.dates", <<c>>, s.gen > at + Skew \/ s.exp <= s.gen),
          Judge("snapshot.window-max", <<c>>, s.exp - s.gen > MaxWindow),
          Judge("snapshot.window-short", <<c>>, s.exp - s.gen > ShortWindow),
          Judge("snapshot.fresh", <<c>>, s.exp + Skew < at)}

(* Entries are decoded lossily: what a client would skip is not judged on.    *)
Surviving(c) == {x \in Listing[c] : ~Bad(Entry(c, x), {"fields", "unknown", "uri"})}
EntryJudged(check, c, flaw, over) ==
    {Failed(check, <<c, x>>) : x \in {y \in over : Bad(Entry(c, y), {flaw})}}
      \cup {Passed(check, <<c>>) : x \in {y \in over : \A z \in over : ~Bad(Entry(c, z), {flaw})}}

Entries(c, s) ==
    IF IsBad(s, {"no-entries"}) THEN Block(EntryChecks, <<c>>)
    ELSE IF Listing[c] = {} THEN {Passed("snapshot.duplicate-component", <<c>>)}
    ELSE EntryJudged("entry.fields", c, "fields", Listing[c])
           \cup EntryJudged("entry.unknown-keys", c, "unknown", Listing[c])
           \cup {Failed("uri.rules", <<c, x>>) : x \in {y \in Listing[c] : Bad(Entry(c, y), {"uri"})}}
           \cup {Passed("uri.rules", <<c>>) : x \in Surviving(c)}
           \cup {Judge("snapshot.duplicate-component", <<c>>, IsBad(s, {"duplicate"}))}
           \cup EntryJudged("entry.seat-type-declared", c, "seat-type", Surviving(c))

Content(c, s) ==
    {Judge("snapshot.policy-digest", <<c>>,
           s.policy # got[M].doc.policy[c] \/ IsBad(s, {"policy"})),
     Judge("snapshot.chain-fields", <<c>>, ChainFieldsBad(s))}
      \cup Times(c, s)
      \cup (IF IsBad(s, {"no-entries"}) THEN Block({"snapshot.entry-count"}, <<c>>)
            ELSE {Judge("snapshot.entry-count", <<c>>, IsBad(s, {"entry-count"}))})
      \cup Entries(c, s)

(* The walk goes back from the sequence before the latest.                    *)
Lowest(n) == IF n - MaxWalk < 1 THEN 1 ELSE n - MaxWalk
WalkUp(c, n, k) == \* mutant: from the oldest on
    LET next == IF k = n THEN Lowest(n) ELSE k + 1
    IN  IF next < n THEN <<"sibling", c, next>> ELSE <<"chain", c>>
Walk(c, n, k) == IF k > Lowest(n) THEN <<"sibling", c, k - 1>> ELSE <<"chain", c>>

GetLatestSig(c) ==
    LET u == <<"latest.sig", c>>
    IN  /\ Doing(u) /\ Running
        /\ \E r \in Responses(u) :
             LET s == got[<<"latest", c>>].doc
                 n == s.seq
                 sig == Detached("snapshot.detached-sig", <<c>>, u, r,
                                 IF IsBad(s, {"unsigned"}) THEN None ELSE Digest(s))
                 judged == {sig, Passed("snapshot.signature", <<c>>)} \cup Content(c, s)
             IN  /\ Get(u, r)
                 /\ \/ /\ ~SigOK(s)
                       /\ Go({sig, Failed("snapshot.signature", <<c>>)}
                               \cup Block(AfterSignature, <<c>>), NextCatalog(c))
                    \/ /\ SigOK(s) /\ IsBad(s, {"no-sequence"})
                       /\ Go(judged \cup Block(Chain4, <<c>>), NextCatalog(c))
                    \/ /\ SigOK(s) /\ ~IsBad(s, {"no-sequence"}) /\ n <= 1
                       /\ Go(judged \cup NotApplicable(Chain4 \ {"chain.latest-sibling"}, <<c>>),
                             <<"newest", c>>)
                    \/ /\ SigOK(s) /\ ~IsBad(s, {"no-sequence"}) /\ n > 1
                       /\ Go(judged, <<"newest", c>>)

-------------------------------------------------------------------------------
(* The retained chain.                                                        *)
GetNewest(c) ==
    LET s == got[<<"latest", c>>].doc
        u == <<"sibling", c, s.seq>>
    IN  /\ Doing(<<"newest", c>>) /\ Running
        /\ \E r \in Responses(u) :
             /\ Get(u, r)
             /\ Go({<< "chain.latest-sibling", <<c>>,
                       CASE State(r, TRUE) = "unknown" -> "inconclusive"
                         [] State(r, TRUE) \in {"absent", "refused"} -> "not-applicable"
                         [] State(r, TRUE) = "ok" -> IF r.doc = s THEN "pass" ELSE "fail" >>},
                   IF s.seq <= 1 THEN NextCatalog(c) ELSE Walk(c, s.seq, s.seq))

GetSibling(c, k) ==
    LET u == <<"sibling", c, k>>
    IN  /\ Doing(u) /\ Running
        /\ \E r \in Responses(u) :
             LET s == r.doc
                 ok == State(r, TRUE) = "ok"
                 next == Walk(c, got[<<"latest", c>>].doc.seq, k)
                 bad == \/ IsBad(s, {"parse"}) \/ SchemaBad(s) \/ IdentityBad(s)
                        \/ ChainFieldsBad(s) \/ s.seq # k \/ ~SigOK(s)
             IN  /\ Get(u, r)
                 /\ \/ ~ok /\ Go({}, next)
                    \/ ok /\ IsBad(s, {"size"}) /\ Go({Failed("chain.sibling-valid", <<c, k>>)}, next)
                    \/ /\ ok /\ ~IsBad(s, {"size"})
                       /\ Go({Judge("chain.sibling-valid", <<c, k>>, bad)}, <<"sibling.sig", c, k>>)

GetSiblingSig(c, k) ==
    LET u == <<"sibling.sig", c, k>>
        s == got[<<"sibling", c, k>>].doc
    IN  /\ Doing(u) /\ Running
        /\ \E r \in Responses(u) :
             /\ Get(u, r)
             /\ Go({Detached("snapshot.detached-sig", <<c, k>>, u, r,
                             IF IsBad(s, {"unsigned", "parse"}) THEN None ELSE Digest(s))},
                Walk(c, got[<<"latest", c>>].doc.seq, k))

Sibling(c, k) == got[<<"sibling", c, k>>]
Fetched_OrGone(c, k) == \* mutant: what cannot be fetched is not there
    IF State(Sibling(c, k), TRUE) = "ok" THEN "ok" ELSE "absent"
Fetched(c, k) == State(Sibling(c, k), TRUE)
Usable_AnySequence(c, k) == \* mutant: whatever its sequence
    /\ Fetched(c, k) = "ok"
    /\ SigOK(Sibling(c, k).doc) /\ ~IsBad(Sibling(c, k).doc, {"size", "parse", "catalog", "no-sequence"})

Usable(c, k) ==
    /\ Fetched(c, k) = "ok"
    /\ SigOK(Sibling(c, k).doc) /\ ~IsBad(Sibling(c, k).doc, {"size", "parse", "catalog", "no-sequence"})
    /\ Sibling(c, k).doc.seq = k

(* A gap is held against the provider when an older snapshot it retains has   *)
(* not expired yet; otherwise nothing shows that it had to be kept.           *)
Evidence(c, k, lo) ==
    \E j \in lo..(k - 1) :
        Usable(c, j) /\ TimesOK(Sibling(c, j).doc) /\ Sibling(c, j).doc.exp > at
Retention(c, lo, hi) ==
    {Passed("chain.retention", <<c>>) : k \in {j \in lo..hi : Usable(c, j)}}
      \cup {<<"chain.retention", <<c, k>>, "inconclusive">> :
              k \in {j \in lo..hi : Fetched(c, j) = "unknown"}}
      \cup {Failed("chain.retention", <<c, k>>) :
              k \in {j \in lo..hi : Fetched(c, j) \in {"absent", "refused"} /\ Evidence(c, j, lo)}}
      \cup (UNION {NotApplicable({"chain.retention"}, <<c, k>>) :
              k \in {j \in lo..hi : Fetched(c, j) \in {"absent", "refused"} /\ ~Evidence(c, j, lo)}})
      \cup (IF lo > 1 THEN NotApplicable({"chain.retention"}, <<c>>) ELSE {})

(* The link from k + 1 to k, and what can be said of it.                      *)
Upper(c, k) ==
    LET latest == got[<<"latest", c>>].doc
        above == IF k + 1 = latest.seq THEN latest
                 ELSE IF Usable(c, k + 1) THEN Sibling(c, k + 1).doc
                 ELSE None
    IN  IF above # None /\ ~IsBad(above, {"chain-fields"}) THEN above.prev ELSE None
Comparable(c, k) == Usable(c, k) /\ Upper(c, k) # None
LinkUnknown(c, k) ==
    /\ ~Comparable(c, k)
    /\ \/ Fetched(c, k) = "unknown"
       \/ k + 1 < got[<<"latest", c>>].doc.seq /\ Fetched(c, k + 1) = "unknown"
Links(c, lo, hi) ==
    LET pairs == {k \in lo..hi : Comparable(c, k)}
        notes == {k \in lo..hi : LinkUnknown(c, k)}
    IN  {Judge("chain.links", <<c, k>>, Upper(c, k) # Digest(Sibling(c, k).doc)) : k \in pairs}
          \cup {<<"chain.links", <<c, k>>, "inconclusive">> : k \in notes}
          \cup {<<"chain.links", <<c>>, "not-applicable">> : k \in {j \in {lo} : pairs = {} /\ notes = {}}}

CheckChain(c) ==
    LET n == got[<<"latest", c>>].doc.seq
        lo == Lowest(n)
        served == {k \in lo..(n - 1) : Fetched(c, k) = "ok"}
    IN  /\ Doing(<<"chain", c>>) /\ Running
        /\ Go(Retention(c, lo, n - 1) \cup Links(c, lo, n - 1)
                \cup (IF served = {} THEN NotApplicable({"chain.sibling-valid"}, <<c>>) ELSE {}),
              NextCatalog(c))
        /\ UNCHANGED <<got, mishaps>>

-------------------------------------------------------------------------------
(* Destinations and the catalogs against one another.                         *)
Verified == {c \in Public : Passed("snapshot.signature", <<c>>) \in found}
Unfetched(c) == IsBad(got[<<"latest", c>>].doc, {"no-entries", "entry-count"})
Decodable(c) == IF IsBad(got[<<"latest", c>>].doc, {"no-entries"}) THEN {} ELSE Surviving(c)
Pins(x) == {Bad(Entry(c, x), {"pin"}) : c \in {d \in Verified : x \in Decodable(d)}}
CrossCatalog ==
    {Judge("provider.cross-catalog-digest", M, \E x \in Components : Cardinality(Pins(x)) > 1) :
       c \in {d \in Verified : Cardinality(Verified) > 1}}

Presenting(es) == IF es = {} THEN End ELSE <<"dests", es>>
ExamineEntries ==
    LET examined == {c \in Verified : ~Unfetched(c)}
    IN  /\ Doing(<<"entries">>) /\ Running
        /\ Go(CrossCatalog \cup UNION {Block(DestScoped, <<c>>) : c \in Verified \ examined},
              Presenting(UNION {{<<c, x>> : x \in Decodable(c)} : c \in examined}))
        /\ UNCHANGED <<got, mishaps>>

DestFields(subject, u) ==
    << "dest.fields", subject,
       IF Bad(u, {"conflict"}) THEN "fail"
       ELSE IF Bad(u, {"unsure"}) THEN "inconclusive"
       ELSE "pass" >>
DestSignature(subject, u) ==
    << "dest.signature", subject,
       IF Bad(u, {"foreign-key", "unsigned", "foreign-signature"}) THEN "inconclusive"
       ELSE IF Bad(u, {"signature"}) THEN "fail"
       ELSE "pass" >>

GetDest(x, c) ==
    LET u == <<"dest", x>>
        es == <<c, x>>
        next == Presenting(doing[2] \ {es})
    IN  /\ phase = "run" /\ doing[1] = "dests" /\ es \in doing[2] /\ Running
        /\ \A e \in doing[2] : Position(c) <= Position(e[1])
        /\ \E r \in Responses(u) :
             LET there == State(r, FALSE) = "ok" /\ ~Bad(u, {"size"})
                 same == Bad(u, {"changed"}) = Bad(Entry(c, x), {"pin"})
             IN  /\ Get(u, r)
                 /\ \/ /\ ~there
                       /\ Go({IF State(r, FALSE) = "ok" THEN Failed("dest.retrievable", es)
                              ELSE Required("dest.retrievable", es, r)}
                               \cup Block(DestScoped \ {"dest.retrievable"}, es), next)
                    \/ /\ there /\ ~same
                       /\ Go({Passed("dest.retrievable", es), Failed("dest.digest", es)}
                               \cup Block({"dest.fields", "dest.signature"}, es), next)
                    \/ /\ there /\ same /\ Bad(u, {"parse"})
                       /\ Go({Passed("dest.retrievable", es), Passed("dest.digest", es)}
                               \cup Block({"dest.fields", "dest.signature"}, es), next)
                    \/ /\ there /\ same /\ ~Bad(u, {"parse"})
                       /\ Go({Passed("dest.retrievable", es), Passed("dest.digest", es),
                              DestFields(es, u), DestSignature(es, u)}, next)

-------------------------------------------------------------------------------
(* The hub asks first whether this is a Discovery provider at all; the        *)
(* command does not. A run is judged by the time it starts at.                *)
Probe ==
    /\ phase = "idle"
    /\ LET r == Served(M)
       IN  phase' = IF Bad(M, {"uri", "seat"}) \/ State(r, FALSE) # "ok" THEN "refused" ELSE "probed"
    /\ deadline' = now + HubTime
    /\ UNCHANGED <<deployment, flaws, at, doing, got, found, stopped, budget, mishaps>>

Start ==
    /\ phase \in {"idle", "probed"}
    /\ phase' = "run" /\ at' = now
    /\ found' = {Judge("manifest.uri", M, Bad(M, {"uri"}))}
    /\ stopped' = Bad(M, {"uri"})
    /\ doing' = IF Bad(M, {"uri"}) THEN End ELSE M
    /\ UNCHANGED <<deployment, flaws, got, deadline, budget, mishaps>>

(* Cookies are looked for last, in whatever the provider's host answered.     *)
Answered == {u \in DOMAIN got : got[u].st \in {"200", "404", "403", "5xx"} /\ u[1] # "dest"}
Cookies ==
    LET bad == {u \in Answered : Bad(u, {"cookie"})}
    IN  {Failed("serving.no-cookies", u) : u \in bad}
          \cup {Passed("serving.no-cookies", M) : u \in {v \in Answered : bad = {}}}

Finish ==
    /\ Doing(End)
    /\ phase' = "done"
    /\ found' = found \cup Cookies
    /\ UNCHANGED <<deployment, flaws, at, doing, got, stopped, deadline, budget, mishaps>>

RunNext ==
    \/ Probe \/ Start \/ Finish
    \/ GetManifest \/ GetManifestSig \/ GetPrivacy \/ ExamineEntries
    \/ \E c \in Catalogs :
         \/ GetPolicy(c) \/ GetLatest(c) \/ GetLatestSig(c) \/ GetNewest(c) \/ CheckChain(c)
         \/ \E k \in 1..MaxSeq : GetSibling(c, k) \/ GetSiblingSig(c, k)
         \/ \E x \in Components : GetDest(x, c)

-------------------------------------------------------------------------------
(* The deployment while it is examined. Every change counts as trouble.       *)
Acts ==
    /\ phase \in {"idle", "run"} /\ Trouble < MaxTrouble
    /\ phase = "run" => doing[1] \notin {"dests", "end"}
    /\ changes' = changes + 1
    /\ UNCHANGED <<flaws, phase, at, doing, got, found, stopped, deadline, budget, mishaps>>

Tick ==
    /\ Acts
    /\ now' \in {now + 1, MaxTime} /\ now < now' /\ now' <= MaxTime
    /\ UNCHANGED <<ver, policy, chain, shelf, wrongs>>

Publish(c) ==
    LET n == Len(chain[c]) + 1
        s == Snapshot(c, n, Digest(Last(chain[c])), policy[c], now)
    IN  /\ Acts /\ n <= MaxSeq
        /\ chain' = [chain EXCEPT ![c] = Append(@, s)]
        /\ shelf' = [shelf EXCEPT ![c][n] = s]
        /\ UNCHANGED <<now, ver, policy, wrongs>>

(* A new manifest, with a new policy for a catalog or as it was.              *)
Redeclare(cs) ==
    /\ Acts
    /\ ver' = ver + 1
    /\ policy' = [c \in Catalogs |-> IF c \in cs THEN policy[c] + 1 ELSE policy[c]]
    /\ UNCHANGED <<now, chain, shelf, wrongs>>

Prune(c) ==
    /\ Acts
    /\ shelf' = [shelf EXCEPT ![c] =
         [k \in 1..MaxSeq |->
            IF k < Len(chain[c]) /\ chain[c][k].exp <= now THEN None ELSE shelf[c][k]]]
    /\ shelf' # shelf
    /\ UNCHANGED <<now, ver, policy, chain, wrongs>>

Wrong(what, c, k) == wrongs' = wrongs \cup {<<what, c, k, phase = "run">>}

Drop(c, k) ==
    /\ Acts
    /\ k < Len(chain[c]) /\ shelf[c][k] # None
    /\ chain[c][k].exp > now
    /\ shelf' = [shelf EXCEPT ![c][k] = None]
    /\ Wrong("dropped", c, k)
    /\ UNCHANGED <<now, ver, policy, chain>>

(* Other bytes under a sequence's name: a second document the operator signed *)
(* for it, or another sequence's.                                             *)
Replace(c, k, s) ==
    /\ Acts
    /\ shelf[c][k] # None /\ s # shelf[c][k]
    /\ shelf' = [shelf EXCEPT ![c][k] = s]
    /\ Wrong(IF s.seq = k THEN "forked" ELSE "misplaced", c, k)
    /\ UNCHANGED <<now, ver, policy, chain>>

(* A second document for the latest sequence, at the catalog's own address.   *)
Equivocate(c) ==
    /\ Acts
    /\ chain' = [chain EXCEPT ![c][Len(chain[c])] = Twin(@)]
    /\ Wrong("forked", c, Len(chain[c]))
    /\ UNCHANGED <<now, ver, policy, shelf>>

ProviderNext ==
    \/ Tick
    \/ \E cs \in SUBSET Busy : Redeclare(cs)
    \/ \E c \in Busy :
         \/ Publish(c) \/ Prune(c) \/ Equivocate(c)
         \/ \E k \in 1..Len(chain[c]) :
              Drop(c, k) \/ \E s \in {Last(chain[c]), Twin(chain[c][k])} : Replace(c, k, s)

-------------------------------------------------------------------------------
Init ==
    /\ now = Founded /\ ver = 1 /\ policy = [c \in Catalogs |-> 1]
    /\ flaws \in FlawSets
    /\ chain = [c \in Catalogs |-> Founding(c)]
    /\ shelf = [c \in Catalogs |-> [k \in 1..MaxSeq |-> IF k <= Length[c] THEN chain[c][k] ELSE None]]
    /\ phase = "idle" /\ at = 0 /\ doing = M /\ got = <<>> /\ found = {} /\ stopped = FALSE
    /\ deadline = None /\ budget \in Budgets
    /\ wrongs = {} /\ changes = 0 /\ mishaps = 0
    /\ Trouble <= MaxTrouble

(* A run that is over is kept as it is.                                       *)
Over == phase \in {"done", "refused"} /\ UNCHANGED vars

Next == RunNext \/ ProviderNext \/ Over
Spec == Init /\ [][Next]_vars /\ WF_vars(RunNext)

-------------------------------------------------------------------------------
(* Properties.                                                                *)
TypeOK ==
    /\ phase \in {"idle", "probed", "run", "done", "refused"}
    /\ doing[1] \in {"manifest", "manifest.sig", "privacy", "policy", "latest", "latest.sig", "newest",
                   "sibling", "sibling.sig", "chain", "entries", "dests", "end"}
    /\ now \in Nat /\ at \in Nat /\ ver \in Nat /\ policy \in [Catalogs -> Nat]
    /\ deadline \in Nat \cup {None} /\ stopped \in BOOLEAN
    /\ \A c \in Catalogs : DOMAIN chain[c] = 1..Len(chain[c]) /\ DOMAIN shelf[c] = 1..MaxSeq
    /\ \A f \in found : f[1] \in Checks
                         /\ f[3] \in {"pass", "fail", "inconclusive", "not-applicable"}

(* A deployment without a flaw, whose provider does nothing but publish, renew*)
(* and prune, is accused of nothing, whatever the network loses and whenever  *)
(* it publishes. Four checks compare two fetches and may be torn by a         *)
(* publication between them (the detail of one says so: "re-run if a policy   *)
(* transition was in progress"); a run without the hub's deadline may outlast *)
(* the skew allowed to generatedAt; and a provider may be told that it let    *)
(* everything it had published before the run lapse.                          *)
Torn == {"manifest.detached-sig", "snapshot.detached-sig", "snapshot.policy-digest", "policy.document"}
Outlasted == IF deadline = None THEN {"snapshot.dates"} ELSE {}
Lapsed(c) == \A k \in DOMAIN chain[c] : chain[c][k].gen < at => chain[c][k].exp + Skew < at
HonestNotBlamed ==
    flaws = {} /\ wrongs = {} =>
        \A f \in found : f[3] = "fail" =>
            \/ changes > 0 /\ f[1] \in Torn \cup Outlasted
            \/ f[1] = "snapshot.fresh" /\ Lapsed(f[2][1])

(* A sequence is found missing only if the provider took it away before it    *)
(* had expired or never served it, as long as later snapshots of the catalog  *)
(* expire later. (Retention, walk.)                                           *)
ExpiryGrows(c) == \A j, k \in DOMAIN chain[c] : j < k => chain[c][j].exp <= chain[c][k].exp
NotKept(c, k) == Bad(<<"sibling", c, k>>, Statuses) \/ \E mid \in BOOLEAN : <<"dropped", c, k, mid>> \in wrongs
RetentionEarned ==
    \A f \in found : f[1] = "chain.retention" /\ f[3] = "fail" =>
        NotKept(f[2][1], f[2][2]) \/ ~ExpiryGrows(f[2][1])

(* A broken link is proof: the operator signed two documents for one sequence.*)
(* No publication during the walk, no gap, no misplaced file makes one.       *)
ForkIsProof ==
    \A f \in found : f[1] = "chain.links" /\ f[3] = "fail" =>
        \E mid \in BOOLEAN : <<"forked", f[2][1], f[2][2], mid>> \in wrongs

(* What the signed documents the run fetched of a catalog say of the bytes of *)
(* a sequence, each of its own and of the one before: two that disagree fail  *)
(* the run, whichever of them came first.                                     *)
Snapshots(c) ==
    {got[u].doc : u \in {v \in DOMAIN got : v[1] \in {"latest", "sibling"} /\ v[2] = c
                                            /\ State(got[v], TRUE) = "ok"}}
Claims(c) ==
    UNION {{Digest(s), s.prev} \ {None} :
             s \in {t \in Snapshots(c) : SigOK(t) /\ ~IsBad(t, {"size", "parse", "no-sequence", "chain-fields"})}}
EquivocationCaught ==
    phase = "done" =>
        \A c \in Verified : \A a, b \in Claims(c) : a[1] = b[1] /\ a[2] # b[2] => Result = "fail"

(* What could not be fetched, or was not fetched because the budget or the    *)
(* hub's time was over, never leaves a run that clears the deployment.        *)
LossNeverClears ==
    phase = "done" /\ (\E u \in DOMAIN got : State(got[u], TRUE) = "unknown")
        => Result \in {"fail", "inconclusive"}

(* A MUST a client's use of the deployment depends on: whichever document     *)
(* fails it, behind whatever other checks and whatever other flaw, the run is *)
(* not clear. Not seen are a document that need not be served and is not, an  *)
(* entry a client would skip, and a pin that the destination follows.         *)
SiblingGrave ==
    {"size", "parse", "schema", "identity", "catalog", "signature", "unsigned", "chain-fields",
     "no-sequence", "no-entries"}
Mispinned(c, x) ==
    x \in Surviving(c) /\ Bad(Entry(c, x), {"pin"}) # Bad(<<"dest", x>>, {"changed"})
Grave(f) ==
    LET doc == f[1]
        what == f[2]
    IN  CASE doc[1] \in {"manifest", "privacy"} -> TRUE
          [] doc[1] = "manifest.sig" -> ~Bad(doc, {"404", "403"})
          [] doc[1] = "descriptor" -> what \in {"fields", "uri"}
          [] doc[1] \in {"policy", "latest"} -> doc[2] \in Public
          [] doc[1] = "latest.sig" -> doc[2] \in Public /\ ~Bad(doc, {"404", "403"})
          [] doc[1] = "snapshot" ->
               /\ doc[2] \in Public
               /\ \/ doc[3] = Length[doc[2]] /\ what # "window-short"
                  \/ /\ doc[3] \in Lowest(Length[doc[2]])..(Length[doc[2]] - 1)
                     /\ what \in SiblingGrave
                     /\ ~Bad(<<"sibling", doc[2], doc[3]>>, {"404", "403", "section7"})
          [] doc[1] = "entry" ->
               /\ doc[2] \in Public
               /\ what \in {"fields", "uri"} \/ (what = "pin" /\ Mispinned(doc[2], doc[3]))
          [] doc[1] = "dest" ->
               \E c \in Public :
                  doc[2] \in Surviving(c) /\ (what = "changed" => Mispinned(c, doc[2]))
          [] OTHER -> FALSE
FlawNeverCleared ==
    phase = "done" /\ changes = 0 /\ (\E f \in flaws : Grave(f)) => Result \in {"fail", "inconclusive"}

(* A run comes to an end, whatever the deployment does meanwhile.             *)
RunEnds == <>(phase \in {"done", "refused"})

(* Each check has an outcome of its type, one that was deprived of a document *)
(* is not passed, and a deployment with a grave flaw is not clear.            *)
NeverCleared ==
    /\ TypeOK
    /\ LossNeverClears
    /\ FlawNeverCleared

(* A fork is reported exactly when there is one to be seen: never of an       *)
(* honest history, always of an equivocation the walk met.                    *)
ForkExact ==
    /\ ForkIsProof
    /\ EquivocationCaught

================================================================================
