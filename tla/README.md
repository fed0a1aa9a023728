# A TLA+ model of onym-audit

onym-audit runs the *audit seat* of the Onym network: auditors publish signed
attestations about software and services, anyone verifies them. The repository
holds the seat's own site, a *hub* that hosts other auditors, a Discovery
provider that lists them, the verifier relying clients use, and the auditor's
review tools. This directory models the parts that keep state, checks them with
TLC on small instances, and proves the most important results with TLAPS.

Run a check with `tlc -config <name>.cfg <module>.tla` (the run's module is in
`PROJECT.json`), and the proofs with `tlapm <name>.tla` on the modules whose
names end in `Proofs`.

## 1. The system

State is files; there is no database. A document is signed JSON, written with
an atomic rename, and published by lying in a served directory. One server
process (`onym-audit serve`) holds the own seat, the hub and the provider;
auditors run the review tool on their own machines; operators run commands
beside the server. Nothing is transactional: an operation is a sequence of
renames, and a crash leaves a prefix of it (in map order: any subset).

| Component | State | Operations | Interacts with |
|---|---|---|---|
| Status list (`audit/status.go`, `site/site.go`) | `status.json`: epoch, entries | `Collect`, `BuildStatus`, `ResignStatus` | every handler that publishes; relying clients |
| Hosted auditor (`hub/hub.go`) | `tenants/<slug>`, `held/<slug>`, `.disabled` | register, publish, hold, revoke, response, `release`, `ResignAll`, `Disable` | queue of orders, status list, provider (`OnChange`) |
| Orders and requests (`hub/orders.go`, `hub/requests.go`) | `inbox/<slug>/<order>/`, `requests/` with `.closed`, `.responses`, `offers/rsp-` | post, list and close requests, respond, post and decline orders | hosted auditors' locks; two auditors share a request |
| Names and claims (`hub/hub.go`) | `claims/`, `keys/`, the manifest, `offers/` | claim, register, `offerUpdate` | studios' browsers, the limiter, hosted auditor |
| Discovery provider (`provider/`, `serve`) | `catalogs/<id>.json` and numbered siblings, `status/` pages; in memory the throttle | `Refresh`, `RefreshServices`, `throttled` | reads all trees; Onym's own catalog over the network |
| Relying client (`audit/verify.go`) | the highest epoch seen | `ParseStatus`, `Verify` | any list, attestation and revocation it is handed |
| Review tool (`review/`) and console (`console/`) | `review.json`, `held/`, the local public tree | findings, decisions, coverage, `StartAgent`, `Sign`, `Release` | the agent's goroutine; the local status list |
| Own seat's server (`server/server.go`) | site tree, inbox, status list | `postOrder`, `postResponse`, `Loop`, reload, restart | pushes, pulls and commands beside it |
| Own seat's desk (`cmd/onym-audit/main.go`, `review/`) | the desk's copy of the tree, pulled orders | publish, attest, revoke, status, sign a commissioned attestation | `deploy.sh`, `pullOrders` |
| Deployment (`deploy/`) | the installed key and tree | install, push, restart | desk and server |
| Limiter (`hub/hub.go`) | a bucket for each address, in memory | `allow` | every request to the hub |
| Vaults (`hub/vault.go`, `public/hub/studio.js`) | one encrypted file for each identity; lists in browsers | get, put; sync, sign-out | two browsers of one identity |
| Discovery conformance (`conformance/discovery`) | the run: cache, budget, findings, retained chain | one run of fetches and checks | a deployment that changes meanwhile; the hub's probe and deadline |
| Library, Stellar link | nothing; one file | read; one call to a ledger | clients |
| Agent | a transcript | bounded tool loop | the model's API; a review |
| Pure code (`canon`, `sig`, `urirule`, `netguard`, `onymid`) | none | parse, encode, verify, decide | everything |

What is hard in it:

* **Readers take no lock.** Every intermediate state of a handler is served. The
  tree must be right between any two renames.
* **Locks are per auditor**, and what several auditors share (a request and its
  answers, the catalogs) or several processes share (the public tree of two
  reviews) has none.
* **Crashes and full disks** between two writes of one operation, followed by
  the client's retry and the loop's repair.
* **Time.** Embargoes, expiries, claims, throttles, the life of lists; clocks
  that differ or are set back.
* **Replay.** Everything signed is public and may be presented again to a
  client, or to the hub, by anybody.

What makes each part correct is stated by its properties below. The hazards in
`PROJECT.json` point at the line where each of these bites.

## 2. Modules

| Module | Models | Used by |
|---|---|---|
| `StatusList` | the pure rules of a status list: states, supersession, epochs | `Tenant`, `Review`, `Reliance`, proofs |
| `Tenant` | one hosted auditor with held attestations and its queue | `MCTenant`, `Hosted` |
| `Market` | requests and orders across auditors | `MCMarket`, `MarketProofs` |
| `Review` | the auditor's review tool | `MCReview`, `ReviewProofs` |
| `Reliance` | a relying client against everything an auditor ever signed | `MCReliance`, `RelianceProofs`, `Hosted` |
| `Hosted` | `Tenant` and the clients of `Reliance` in one system | `TenantProofs` |
| `Catalog` | the Discovery provider inside the server | `MCCatalog`, `CatalogProofs` |
| `RateLimit` | the limiter's promise, abstractly | refined by `Limiter` |
| `Limiter` | the hub's token buckets | `Names`, `NamesProofs` |
| `Names` | claims and registrations of one name, behind the limiter | `MCNames`, `NamesProofs` |
| `Seat` | the own seat: desk, deploy, server, commands | `MCSeat`, `SeatProofs` |
| `Conformance` | one conformance run against a provider that goes on acting | `MCConformance`, `ConformanceProofs` |
| `Vault` | one identity's vault and its browsers | `MCVault` |
| `TenantProofs`, `MarketProofs`, `ReviewProofs`, `RelianceProofs`, `CatalogProofs`, `NamesProofs`, `SeatProofs`, `ConformanceProofs` | theorems | |

In all of them a document is a record of the fields the code compares, a digest
is the content it stands for, and signatures are what their signers made: the
constants list what is signed, and the parsers refuse the rest. Every bound is
a named constant (`MaxTime`, `MaxCrashes`, `MaxFaults`, …) used in a guard.

### Tenant (with StatusList)

`Tenant` is one hosted auditor: everything the hub's handlers do to its tree
(`tenants/<slug>`), its embargoed attestations (`held/<slug>`), its order queue
(`inbox/<slug>`) and its status list. `StatusList` holds the pure part,
`BuildStatus` and the epoch rule of `ResignStatus`, as operators over what
`Collect` read.

*State.* `tree` maps a path to the document served there; `status` is the last
signed list (it also lives in the tree, but is kept apart because every handler
rewrites it); `held`, `inbox` and `disabled` are the other files. `op`, `pc`,
`todo`, `pending`, `cur` and `taken` are the local state of the handler that
holds the tenant's lock. `due` says that `ResignAll` will run again: the ticker
fired, or the process has just started.

*Steps.* A handler locks, checks, and then writes its files one rename at a
time in the random order in which Go ranges over a map; then it drops the order
from the inbox and signs. The checks read files that only this handler may
change, so lock and checks are one action (`Register`, `Publish`, `Hold`,
`Revoke`, `Respond`, `ResignAll`), and the rest are single steps (`WriteFile`,
`Wrote`, `Fulfil`, `Sign`, `CannotSign`, `Release`, `Released`). Readers of the
tree take no lock, which is why every property is about every intermediate
state. `PostOrder` and `Decline` are one step here; `Market` opens them up.

*Surroundings.* `Crash` drops the handler and its lock at any step and
restarts; `DiskError` ends a handler (or one release) at a write; `Tick` and
`StepBack` move the host's clock; `Disable` is another process and takes no
lock.

*Abstractions.* A document is a record of the fields the code compares. The
detached `.sig` siblings, offers and the temporary files of `WriteAtomic` are
left out. Sizes are counted in files, one unit each: what matters is which
files count (tree, held, replaced), not their bytes. Signatures are assumed to
verify: `Atts` and `Revs` are what the auditor signed, and everything else the
parsers refuse.

### Market

`Market` looks at what `Tenant` takes as one step: the queue of orders, and the
requests for proposals that orderers post and auditors answer.

*State.* `request`, `closed` and `responses` are the request's files, shared by
all auditors; `offer` is each auditor's `offers/rsp-<request>.json`; an entry
of `inbox` is a directory of three files, each there or not; `job` is the
handler that holds an auditor's lock and the files it has still to write or
remove. `asking` holds the answers that found their request open and wait for
the lock: that look is not repeated. `accepted` is a history variable, the
orders answered 202.

*Steps.* Posting a request is one write. An answer looks, locks, writes its
offer and then the list of responses. An order writes three files in any order
and then closes its request; a removal deletes three files in any order. A
crash or a failing write ends the job where it is.

### Review

`Review` is the review tool on an auditor's machine: findings are reported by
the engine's goroutine or entered by hand, decided one by one, and `Sign` writes
order, scope, report and attestation into the public tree or holds them back;
`Release` publishes them when the embargo ends. A review has a lock; the public
tree and its list, which several reviews write, have none, so collecting the
tree, signing the list and saving the record are separate steps. The agent is
its effect on the record: it ends with findings and a coverage, or fails, or
refuses. The console is a page over the same operations.

### Reliance

`Reliance` gives a client any list the auditor signed at any time, with or
without the revocation, and any copy of the attestation. `Usable` and `Fresh`
are `ParseStatus`; `Display` is the order of decisions in `Verify`, which
matters: revoked, superseded, expired, then the user's policy, then whether
the list confirms. The client's clock is off by `Offset`, within the tolerance
`Skew`. A client of `Retaining` keeps the epoch it saw, as a library's user
must; the command line keeps none. `over` remembers what a list has told it.

### Hosted

`Reliance` assumes an auditor that publishes, revokes and signs in single steps.
`Hosted` puts the hub in its place: a step is one of `Tenant`'s (`Hub`) or one
client's verification (`Client`), which reads the tree without the lock. Its own
variables are `Reliance`'s; `revokedAt` and `lists` remember what the hub's
steps made public (`Remember`). The refinement mapping `Relying` reads an attestation and
its revocation from the tree's paths; replies, which `Verify` does not look at,
are left out of the lists. `Tenant`'s `Skew` and `Reliance`'s are one constant here, as
in the code (`audit.Skew`). A clock that is set back is excluded, since `Reliance` excludes
it. `Hosted` has no run: its steps are those the runs of `Tenant` and of `Reliance`
take, and that they fit together is what section 4 proves.

### Catalog

`Catalog` is the provider as `serve` runs it. `run` maps each goroutine to its
refresh: idle, waiting for the mutex, or at a step (`read` one manifest after
the other, `sibling`, `latest`, `prune`, `services`, `fetch`, `pages`), with
what it has read so far. `queued` and `last` are the throttle's memory, `owed`
the handlers that have written and not yet called `OnChange`. `Register`,
`Publish` and `Revoke` are the hub's handlers as the provider sees them: one
write and then a notice; `RegisterUnsigned` is the write without the notice
that a failing re-sign leaves. The outcome of reading Onym's catalog and a
service's manifest is the input `world`. `fired` and `missed` are history
variables. A refresh's file operations take no time beside the clock's unit,
its network calls do. `latest` and `kept` are a catalog's current file and the
set of its numbered ones, the current one's copy among them; a crash may leave a
numbered file whose turn as the current one never came.

### RateLimit, Limiter and Names

`RateLimit` is the limiter as its callers understand it: every address has a
level, spending needs enough of it, time fills all of them at once, a restart
makes all of them full. `Limiter` is the code: a map with buckets for the
addresses that asked, each filled lazily when its address asks again, and
refilled ones forgotten when the map is over its bound. `Level` is the
refinement mapping (an absent bucket counts as full), and `LimiterPromise` says
that `Limiter` implements `RateLimit` under it. Time is relative, so that the
state does not grow with the clock: a bucket knows how long it was idle, and no
more than `Burst` ticks matter.

`Names` puts the two handlers that give a name its holder behind this limiter.
`keyfile`, `claim`, `manifest`, `offer` and `disabled` are the files of one name;
`job` is the handler that holds its lock, with what it has still to write. A
claim mints a key (`Mint`; the old key file is truncated first), stores it
(`StoreKey`) and then the claim file that answers retries (`StoreClaim`, whose
error the code ignores); a registration writes manifest and offer in any order.
`told` and `known` are the studios' memory: the answer that still holds for each
of them, and the keys they may have signed manifests for. Everything signed is
public: `Register` takes any manifest an operator could ever have signed and any
offer, from any address. `cut` remembers that a registration was cut short.

### Seat

`Seat` is the repository's own seat, on two machines. `desk` and `site` are the
two copies of the tree, `replies` and `list` exist on the server only, `inbox`
and `pulled` are an order's files on either side. `deploy` is the set of files
the running `deploy.sh` has still to push; `Push` takes one of them, as the desk
has it at that moment. `work` is what the process and a command run beside it
have in hand: a collection of the tree, attestation by attestation, whose result
is written at the end (`Collect`, `WriteList`), or an order being stored file by
file. `process` follows systemd: down, starting (its first list must be written
before anything is served), up. `Stop` drops the work at any step, because
`serve` returns once `Shutdown` has closed the listener and waits for no handler.
A behaviour follows one of `Plans`, which bounds what the people bring up; the
interleavings are free.

### Conformance

`Conformance` is one run of the suite. The deployment is not this repository's
code: it is whatever the suite may meet, so its actions are marked external. A
flaw is a pair of a document and what the suite's decoder finds wrong with it,
or of a URI and the status it answers; besides, its provider publishes, renews
its policy, prunes, and may drop, replace or fork snapshots while it is examined.
The run is the code: `got` is the cache (one request for each URI), `doing` what
it does next, a URI to fetch or a step without one, in the order of the code:
manifest, its signature and privacy policy, then for each public catalog policy,
latest snapshot and signature, the newest sibling, the walk back (`Walk`,
`Lowest`) and the chain, at last the entries, their destinations and the cookies.
Each step is one fetch with every check made of it, whose findings are triples of
check, subject and outcome. What a failed check stops or blocks follows `stop` and
`block` (`Stop`, `Block`); `OutcomeOf` and `Result` are the roll-up. The hub's
probe and its refusal are `Probe`; `deadline` is when its time is over, after which
every new fetch is lost (`Late`). Parsing is a verdict here; the report's wording
and the draft made of it are left out.

### Vault

`Vault` is the vault of one identity and the browsers signed in to it: a sync
reads, merges, and puts the union back if the browser knew something new. The hub
replaces the file under a lock that covers one request. Requests and answers may
be lost (`PutLost`), a sign-out clears the browser once its sync has succeeded or
its holder agrees to lose what it has.

## 3. What the runs check

Where several statements are about one question, the run checks their
conjunction under one name (`QueueSound`, `NameSound`, `SeatSound`, …); the parts
stay definitions of their own, next to the code they are about.

Deadlock is checked in `Conformance`, whose runs end by themselves; everywhere
else a bounded model ends when its clock stands and its bounds are used up.

| Run | Question | Instance | States |
|---|---|---|---|
| `Tenant_safe` | Is the tree whole, immutable and covered by its list at every step? | four attestation documents on two ids: an embargoed fail, a clear one of the same id, one that supersedes it, one commissioned; one revocation; a crash, a disk error, one step back of the clock, a disable | 1.6 M |
| `Tenant_live` | Do held, published and revoked documents reach readers? | an embargoed fail, its revocation, a manifest that expires and is renewed, a crash and a disk error | 0.1 M |
| `Market` | Are requests closed by their author only, and orders kept? | two auditors, two requests, four orders sharing ids; one answer in flight, a crash, a failing write | 2.6 M |
| `Review_one` | Does a signed review stay whole and frozen? | one engine review, two findings, two ids to sign under, a crash and a failing write | 1.7 M |
| `Review_two` | Can two reviews share the public tree? | an engine review and a manual one with ids of their own | 0.9 M |
| `Reliance` | Can old lists revive what is over, or new ones be refused? | two attestations, one expiring and its successor, revocations at once and later; a slow clock | 0.9 M |
| `Catalog_auditors` | Is the chain walkable, the last change listed, the throttle kept? | the own seat and two hosted auditors for two places, two refreshes at once, two changes, a crash or a failing write | 2.4 M |
| `Catalog_services` | Do the services catalog and its pages catch up, and are snapshots renewed? | two contrary opinions about one service, Onym's catalog out of reach at times | 0.9 M |
| `Names` | Can a name change hands, be rolled back, or lose its key; does the limiter keep its promise? | two studios, two keys, manifests and offers of two versions, claims of two ticks, a crash and a failing write; a bound of no buckets, so that every new address makes the limiter forget | 0.9 M |
| `Seat` | Is what is served backed, kept and listed, whoever writes beside the process? | four plans: documents with a revocation and replies; two orders of one id and what they commission; more orders than the inbox takes; a manifest renewed under another key. One of a crash, a failing write and a command on the server | 0.5 M |
| `Conformance` | Is an honest provider blamed, a fork missed, or a loss taken for a pass? | two catalogs, of three snapshots and of one, listing one component; any two of 162 flaws, or a flaw and an action of the provider, or two actions, a lost fetch, a spent budget, or the hub's deadline: up to two troubles in one run | 0.8 M |
| `Vault_v_lost` | Is a record in the vault or with its browser? | two browsers, two records; fails, see below | |

*Why the bounds are enough.* The hazards are pairwise: two handlers, two
documents of one id, one crash and one retry, one embargo that ends. Each
instance has at least two of whatever can conflict, a clock long enough for
what expires in it to expire (`MaxTime` exceeds every life, embargo and window
it must outlast), and one failure at any step, followed by the retry. Two
crashes add nothing a crash and a restart do not reach, because a restart keeps
only files and every set of files left behind is an initial segment or subset
of one operation's writes. In `Conformance` a chain of three snapshots is the
shortest whose middle one has a neighbour on both sides, and three catalogs would
add no check that compares more than two. Every property has a mutant in
`PROJECT.json`: a plausible mistake in one definition that makes exactly this run
fail.

*Fairness.* `Tenant_live` and `Catalog_services` assume weak fairness: a handler
that has its lock goes on (its goroutine is scheduled), the loop's ticker comes
round and re-signs or refreshes, a timer that is due fires, time passes.
`Seat` assumes that the process goes on with what it has in hand and is started
when it is down (`Restart=always` in `deploy/onym-audit.service`), and that the
loop's ticker gets the mutex in the end; `Recovers` is conditional on `Settles`,
the operator's last deploy. `Conformance` assumes that the run goes on: each of
its fetches has a timeout, so it ends in an answer or a loss. No client is
assumed to do or retry anything, and no crash or disk error is assumed away;
there are at most `MaxFaults`, `MaxCrashes` and `MaxTroubles` of them. Liveness of
the hub is limited to auditors that are not disabled and whose manifest is valid,
of the own seat to manifests that are valid and name the installed key, and of
the services catalog to times when Onym's catalog can be read: the code promises
no more.

### Where the code and its documents disagree

`Vault_v_lost` is expected to fail. `public/hub/studio.js:681` says the list of an
identity's orders leaves the browser "once the vault has it"; a put replaces the
vault whole and names no version (`hub/vault.go:75`), so a browser that had read
before the first one wrote drops its record, which is then nowhere.

The rest were met while modelling. Where a model shows them, its properties state
what does hold and except them by name:

* A revocation may declare the largest safe integer as its epoch. The list that
  must follow cannot be encoded (`audit/status.go:184`, `canon/canon.go:140`), so
  the revocation never shows, though "an auditor must always be able to revoke"
  (`hub/hub.go:757`).
* An embargoed fail's report is published at once unless holding it is asked for
  separately (`review/sign.go:206`); the profile says reports under embargo are
  simply not published (`public/profile/Audit-Static-Ed25519.md:62`).
* A revoked, superseded or expired attestation of an issuer the user omits is
  shown all the same (`audit/verify.go:173`; profile, line 405).
* An order of which a part could not be written is answered 202 on the retry
  (`hub/orders.go:152`), and the auditor is never shown it (`hub/orders.go:264`).
  The own seat's `postOrder` has the same gap (`server/server.go:211`), and its
  retry is refused when the inbox is full, because the cap is checked before the
  order is looked up (`server/server.go:206`). No code empties that inbox.
* The dashboard's change of offers signs the manifest again with the same
  `validUntil` (`public/hub/studio.js:508`), which the hub answers with 409, since
  only the same bytes may share it (`hub/hub.go:437`).
* A claim whose file could not be written is answered like any other
  (`hub/hub.go:258`): the next claim mints another key, and the manifest signed for
  the first is refused. A registration that is cut short may leave its offer under
  a name which another studio then holds, and block an offer of that id there.
* The status key is installed once (`deploy/deploy.sh:54`). A deployed manifest
  that names another one, or one that has expired, leaves a server that cannot
  sign its first list and therefore does not start, hosted auditors included.
* `serve` returns as soon as the listener is closed (`cmd/onym-audit/main.go:508`),
  so the ten seconds of `Shutdown` are given to nobody. Handlers are cut between
  two writes like by a crash.
* The `status` command on the server may write an older collection over the
  process's newer list; the loop repairs it.
* A signed link request is good for as long as its time window, and may be sent
  again within it (`hub/stellarlink.go`).
* Four checks of the conformance suite compare two fetches, and blame a provider
  that publishes between them (`HonestNotBlamed` names them).
* Documents an attestation pins can be offered again with other bytes
  (`hub/hub.go:710`); a crash after a publication's writes leaves the order in the
  queue, and one between them an attestation without its report, whose retry is
  refused; a clock set back below a revocation's `effectiveFrom` makes its entry
  active again; a restart while the engine runs leaves its review running for
  ever; two reviews signed under one id overwrite each other; a read of the latest
  snapshot that fails starts its chain again.

## 4. What is proved

The theorems hold for every value of the constants that satisfies the modules'
assumptions: identifiers, times and epochs are natural numbers, `None` is none of
the values it stands beside, every document is filed under an id there is, an
auditor's name spaces are finite, no two auditors of a catalog rank alike (ranks
stand for slugs), a bucket fills at a positive rate, a claim has a positive life, a
relying client's clock is within the tolerance. Three theorems on `Review` have a
hypothesis besides, `DistinctIds`: no two reviews are signed under one id. The
code checks ids against the public tree only, and two reviews held under one id
do overwrite each other, so what those theorems say is false without it; both
runs meet it, and the other three do not need it. The two theorems on `Hosted` have
`HostedConstants`, which is `Reliance`'s assumption for what `Tenant` does not
declare: the clients and their clocks, and that `None` is no list.

| Theorem | Property |
|---|---|
| `EpochCovers`, `ReferencesAgree` | lemmas on `BuildStatus`: its epoch is above the last and above every revocation's; an entry's references agree with its state |
| `TypeCorrect` | `Tenant`: `Spec => []TypeOK` (no run checks it) |
| `ListServed` | `Tenant`: `Spec => []ListMatchesTree` |
| `Immutability` | `Tenant`: `Spec => NeverModified` |
| `EmbargoHolds` | `Tenant`: `Spec => EmbargoKept` |
| `ReleaseComplete` | `Tenant`: `Spec => ReleasedWhole` |
| `EpochMonotone` | `Tenant`: `Spec => EpochAdvances` |
| `ListGrows` | `Tenant`: `Spec => ListOnlyGrows` |
| `QueueIsSound` | `Tenant`: `Spec => []QueueSound` |
| `LimiterKeepsPromise` | `LimiterSpec => LimiterPromise`: `Limiter` implements `RateLimit` |
| `RequestsLimited` | `Names`: `Spec => LimiterPromise` |
| `FilesAgree` | `Names`: `Spec => []NameSound` |
| `NeverRolledBack` | `Names`: `Spec => Succession` |
| `SeatStaysSound` | `Seat`: `Spec => []SeatSound` |
| `ServedStays` | `Seat`: `Spec => NothingLost` |
| `ListNeverShrinks` | `Seat`: `Spec => ListOnlyGrows` |
| `RevocationInTime` | `Reliance`: `Spec => []RevocationReaches` |
| `RelianceExact` | `Reliance`: `Spec => []RelianceIsExact` |
| `OverForEver` | `Reliance`: `Spec => []OverStaysOver` |
| `LastListUsable` | `Reliance`: `Spec => []HonestListUsable` |
| `HubImplementsReliance` | `HostedSpec => ServesReliance`: `Tenant` with its clients implements `Reliance` |
| `HubServesClients` | `HostedSpec => []ClientsServed`: so `Reliance`'s guarantees hold of the hub's clients |
| `MarketSound` | `Market`: `Spec => []RequestsSound` |
| `AcceptedOrdersKept` | `Market`: `Spec => []OrdersKept` |
| `ClosedByItsAuthor` | `Market`: `Spec => ClosedByOrder` |
| `EmbargoStays` | `Review`: `Spec => []EmbargoKept` |
| `SignedStays` | `Review`: `Spec => FrozenOnceSigned` |
| `ReportsStayWhole` | `Review`: `Spec => [](TypeOK /\ ReportComplete)`, the part of `SignedWhole` that needs nothing of the ids |
| `SignedStaysWhole` | `Review`, ids distinct: `Spec => []SignedWhole` |
| `ListStaysTrue` | `Review`, ids distinct: `Spec => []ListMatchesTree` |
| `AttestationsImmutable` | `Review`, ids distinct: `Spec => NeverModified` |
| `ChainHolds` | `Catalog`: `Spec => []ChainSound` |
| `NobodyForgotten` | `Catalog`: `Spec => []QuietMeansListed` |
| `Successors` | `Catalog`: `Spec => OneSuccessor` |
| `PlacesKept` | `Catalog`: `Spec => NewcomersWait` |
| `RefreshRate` | `Catalog`: `Spec => ChangeRate` |
| `SpecTypeOK` | `Conformance`: `Spec => []TypeOK` |
| `SpecForkIsProof` | `Conformance`: `Spec => []ForkIsProof`, the sound half of `ForkExact` |
| `SpecForkExact` | `Conformance`: `Spec => []ForkExact` |
| `SpecRetentionEarned` | `Conformance`: `Spec => []RetentionEarned` |
| `SpecHonestNotBlamed` | `Conformance`: `Spec => []HonestNotBlamed` |
| `SpecNeverCleared` | `Conformance`: `Spec => []NeverCleared` |

*Tenant.* `ListMatchesTree` is not inductive: a handler that is about to
overwrite a listed document would break it in its next step. `IInv` adds what
the handler's local state guarantees: `Safe` (what it has still to write never
holds other bytes for a path that must not change, because its checks were made
under the lock it still holds), `HeldSafe` (nor does a held file), `WriterSafe`
(only a release writes an embargoed attestation), `ReleaseSafe` (a release has
written a path of its held file once that leaves `todo`, and its time has come)
and `ControlSafe` (where the handler stands). With it each action is
one step of the proof, and most steps are one of three lemmas: a handler begins
(`StartStep`), a rename happens (`WriteStep`), a handler stops (`StopStep`).
`Sign` reads the tree it lists, so `NewStatusFacts`, about `BuildStatus`, gives
`ListMatchesTree'` at once. The action properties follow from `IInv` and the
fact that only `WriteFile` changes the tree, only `Sign` the list, only
`Released` the held files. Two properties need more. `ListOnlyGrows` compares two
lists signed at different times: `PastHolds` says that what the last list called
over is over still, unless the clock was set back, so the next one says it too.
The quota is checked before the first write, so `WithinQuota` counts what the
handler has still to write as stored already; `QueueClear` lets an answered order
lie in the queue only while the handler that answers it is on its way to take it
out, and fails, as it should, after a crash.

*Limiter.* `FillsAsPromised` is the arithmetic: a bucket brought up to date after
one more tick holds what filling it at once would have given, the cap on idle
time included. `ForgettingIsFree`: looking up an address changes no level, since
what is forgotten was full. With these each step of `Limiter` is a step of
`RateLimit` or a stutter (`StepKept`).

*Names.* `NameSound` is not inductive: a claim that mints, or a registration under
way, could still replace the key. `MintSafe` says that while a key is minted no
claim holds and the name is free; `ClaimSafe` that a claim that holds names the
stored key and outlives every answer made of it; `RegisterSafe` that what a
registration has still to write is newer than what it replaces, of the same
operator, and for the stored key. `TypeStep` and `RestStep` go through the
actions one by one.

*Seat.* The server's tree is behind the desk's and never beside it, and no push
carries a status list (`DeskFirst`): this is what `rsync`'s exclusion is for.
`FoundBacked` says that a signer has found what is served, `Covers` that, while no
command signs beside the process, what the served list names was found already or
is still to be looked at, so the next list names it too. For orders `StoringSafe`
describes the directory an order in flight is being written to, and `InboxSafe`
what is there after it: whole, or cut short; what was pulled or commissioned is
still there. `OneOrderPerId` then follows, as all orders taken of an id are the
one in its directory.

*Reliance.* The invariant is about every list ever signed. What one of them calls
over is over for the auditor from then on (`PastHolds`: revocations, successors and
expiries do not go away), and no list of a higher epoch calls it active again
(`Ordered`). A new list has an epoch above all others (`EpochCovers`), so `Ordered` needs only that it agrees with the auditor's tree
as it is. A client that retains its epoch holds one at least as high as the list
that told it so (`SeenOver`). `SignedBefore` bounds the date of a list that does
not name a revocation, `DecisionBacked` says which list a decision rests on, and
`RevocationReaches` is their sum.

*Hosted.* A write shows a client nothing, or a first attestation, or the revocation of
one that is published (`WriteSeen`, from `Safe` and `RevSafe`): documents a release
repeats after a crash are there with the same bytes. The list served is the newest
of all that were signed (`Recorded`), so the epoch `ResignStatus` goes past is the highest
a client may hold (`NewestSigned`), and what `Collect` reads of a tree in which a handler was cut
short is what `Reliance`'s auditor would sign of the same documents (`SameList`). Every
step of the hub is then one of `Reliance`'s auditor or none (`HubServes`), and the
theorems of `RelianceProofs`, instantiated for the tree, apply (`HubServesClients`).
They are about the bytes in the tree: a client reaches the files one by one, which
the model's atomic `Verify` covers because neither kind ever changes again.

*Market.* `JobSafe` says what a handler that holds an auditor's lock has done: an
order being stored is its request's author's, its `order.json` is there exactly
when it is no longer to be written, and until then no accepted order has its id.
With it `AcceptedKept` is inductive, crashes and failing writes included.
`DirSafe` is about the times without failure: a directory is that of the order in
flight, file by file, or is being removed, or is whole. `AnswersSafe` follows an
answer from its look at the request to its place in the list; requests and offers
that are there stay (`WhatStays`), which is why the look need not be repeated. A
step at one auditor leaves the others' part of the invariant alone (`OneAuditor`).

*Review.* Each review has its invariant, `ReviewSafe`. What is signed says what the
record says (`Fits`: the report is that of the findings, all decided, the result is
theirs, and an embargoed fail is held or due), its directory has no stale document
at a path that is held (`Fresh`: an earlier `Sign` that was cut short leaves some,
and the next one replaces them), and a running `Sign` or `Release` is about to
save what fits (`JobSafe`). An engine that is still to come back has a record
that is not signed, which is why it cannot change one that is. `TreeSafe` adds the
tree's part, and `EmbargoKept` follows; `NothingOut`, about order and scope, holds
until something fails, since a retry may decide to hold what the first attempt
published. For the rest `KInv` says where each document is (`Settled`): in the tree,
among the files still to be published, or held; with ids of one's own no step of
another review can take it away (`OthersStay`), although they share the tree and its
list and take turns at any step.

*Catalog.* One refresh runs at a time, and everything else waits (`OneRuns`). What
it carries from one step to the next is still true of the files when it uses it
(`JobOK`, step by step: the snapshot about to be written succeeds the present latest,
and its numbered file is there before it replaces it), and below the latest each
kept file has the one it names under it, unless that has expired (`KeptOK`): pruning
takes expired files only, so this survives it. `WalkDown` makes `ChainWalkable` of it.
`QuietMeansListed` needs to know who will notice: `Caught` says of every auditor
that a notice, a timer or a waiting refresh is pending, or that the refresh under
way has still to read its manifest or has read the present one, or that the latest
snapshot shows it. That the cap drops an entry only when the catalog is full is
counted with an injection into `0 .. MaxEntries - 1` (`CapHolds`, `CapFull`);
`NewcomersWait` follows from the order of entries being total, which is where the
distinct ranks are needed. `ChangeRate` is the throttle: `fired` and the memory
`last` agree.

*Conformance.* Every theorem holds for any number of catalogs and snapshots, any
set of flaws, any number of losses and of the provider's steps, wherever they fall
between the fetches. All rest on `Base`: what the deployment serves is of its
catalog and sequence, and a second variant is the work of a provider that forked
(`Deployed`); a response is of its URI (`FetchInv`); and the run has fetched what
its next task takes for granted and nothing that comes later (`Place`). Of a link
the run compares, both ends are documents for the one sequence, however long after
one another they were fetched; so when they differ one of them is the second
document (`SpecForkIsProof`).

`RetentionEarned` needs to know that what is missing from the shelf, and what was
missing when it was fetched, was dropped, never served, or went when it expired
together with whatever older had expired by then (`Gaps`). `HonestNotBlamed` adds what an honest provider's chain looks like
(`HonestChain`), what was fetched of it and how old that may be (`HonestGot`,
`Timed`), and goes through the findings of each step. `EquivocationCaught` is the
half of `ForkExact` that says what must be found. A run that has failed nothing has
fetched siblings that fit their latest snapshot (`AgreeInv`), and of any two
neighbours among them the link was compared or is still to be (`LinkInv`); at the
end none is.

`NeverCleared` is about what a run that is clear so far (`Clean`) cannot have met.
Nothing it fetched is unknown but the siblings of the walk that is under way
(`LossInv`); each document it fetched has none of the flaws that its check, or the
check after it, sees (`Fine`, `GoodInv`); whatever lies behind the task at hand has
been fetched (`PastInv`); and every entry has been presented or judged fine
(`DestInv`). At the end everything lies behind, so `NoGrave` goes through the
deployment's documents one kind at a time and finds no room for a grave flaw. This
is where a check that stops or blocks another would show: the run must then have
counted the check that did.

Only model-checked: the liveness properties (`HeldIsReleased`, `PublishedShows`,
`ServicesCatchUp`, `Renewed`, `Recovers`, `RunEnds`), since fairness and `ENABLED`
are outside the prover's reach. The
parameters that bound the runs (`MaxTime`, `MaxTrouble`, …) are constants of the
theorems too, so these hold for every value of them. `Vault`'s one property is the
one that fails.

## 5. What is not modelled, and why

Parsing, canonical encoding, signatures and address rules are pure and have
large test suites with fixtures; the models take their verdicts as given.
Detached `.sig` siblings repeat a field of their document; only the conformance
suite reads any, and `Conformance` models that. Byte sizes are counted in files,
or are a flaw. `PublishStatic` and the commands that write one file or none
(keygen, offer, countersign, sign-order, fixtures) are run by hand. The agent's
conversation with a language model is bounded by its tool loop and touches a
review through its findings and coverage only, which `Review` models. The Stellar
link and anchor are single calls to a ledger, the auditor directory reads and
keeps nothing, the console's and the browser's pages call what is modelled or
repeat it: the browser's verifier follows `audit/verify.go`. The own seat's
limiter is one bucket for everybody. Of vaults, the request's signature and the
limit on their number are left out.

## 6. Plan

1. *Done:* `StatusList`, `Tenant`, `Market`, `Review`, `Reliance`, `Catalog`,
   `Limiter` with `RateLimit`, `Names`, `Seat`, `Conformance`, `Vault`, each with its
   run; `Hosted`, which composes `Tenant` with the clients of `Reliance`; the
   theorems above.
2. *Composition of the own seat* with `Reliance`'s clients, as `Hosted` does it for the
   hub; `Recorded`, `NewestSigned` and `SameList` carry over.
3. *Abstract specifications:* `Register`, what a reader of one auditor sees
   (documents that never change and a list that names only what is there),
   implemented by `Tenant`, `Review` and `Seat`: their proofs have the lemmas for it
   (`ListServed` and `Immutability`, `ListStaysTrue` and `AttestationsImmutable`,
   `SeatStaysSound` and `ServedStays`). `Queue`, an order accepted until taken or
   declined, with `Market` implementing it.
