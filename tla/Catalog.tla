-------------------------------- MODULE Catalog --------------------------------
(* The Discovery provider (provider/provider.go, provider/services.go) as the *)
(* server runs it (cmd/onym-audit/main.go, serve): refreshes of the catalog   *)
(* of auditors and the catalog of audited services, chained snapshots with    *)
(* their retained siblings, the status pages, and the throttle between the    *)
(* hub's changes and the refreshes.                                           *)
(*                                                                            *)
(* A refresh reads other auditors' trees while their handlers write them,     *)
(* writes several files one after the other, and may stop between any two.    *)
(* Every document is signed by one key here, so signatures are left out, and  *)
(* a digest is the content it stands for.                                     *)
EXTENDS Integers, FiniteSets

CONSTANTS
    None,
    Own,          \* the site's own seat
    Hosted,       \* auditors that may register on the hub
    Founders,     \* those of them registered when the catalogs are first published
    Rank(_),      \* the order in which the trees are read
    Attestations, \* [by, subject, result, until] published by auditors credited here
    MaxEntries,   \* entries of a snapshot
    Window, Renew,\* a snapshot's life, and what must remain of it
    Gap,          \* two minutes between refreshes that changes cause
    Goroutines,   \* bound: refreshes that run or wait for the mutex
    Lives,        \* validUntil of the manifests, and so their versions
    Worlds,       \* the services Onym's own catalog lists with a manifest that
                  \* verifies: sets of subjects, or None while it cannot be read
    MaxTime,      \* bound: the clock stops here
    MaxEdits,     \* bound: changes of the hub and the world
    MaxMishaps    \* bound: crashes and failing writes

Auditors == {Own} \cup Hosted
Auds == "onym-auditors"
Svcs == "onym-audited-services"
Catalogs == {Auds, Svcs}

(* What signed snapshots may look like.                                       *)
Subjects == {t.subject : t \in Attestations}
Entries == [ id : Auditors \cup Subjects, at : Nat, doc : Nat \cup Subjects,
             status : {"warning", "review", None} ]
Bodies == [seq : Nat, gen : Nat, entries : SUBSET Entries]
Snapshots == [ seq : Nat, gen : Nat, entries : SUBSET Entries,
               prev : Bodies \cup {None} ]

ASSUME CatalogAssumption ==
    /\ Own \notin Hosted /\ Founders \subseteq Hosted
    /\ \A a, b \in Auditors : Rank(a) \in Nat /\ (Rank(a) = Rank(b) => a = b)
    /\ \A t \in Attestations : t.by \in Auditors /\ t.until \in Nat
    /\ Lives \subseteq Nat \ {0}
    /\ {MaxEntries, Window, Gap} \subseteq Nat \ {0} /\ Renew \in 0..(Window - 1)
    /\ Goroutines \subseteq Nat /\ Goroutines # {}
    /\ None \notin Nat /\ None \notin Snapshots
    /\ {MaxTime, MaxEdits, MaxMishaps} \subseteq Nat

VARIABLES
    now,
    manifest,  \* auditor -> validUntil of its manifest, or None
    active,    \* attestations active in their auditors' status lists
    world,     \* what Onym's catalog says
    latest,    \* catalog -> catalogs/<id>.json, or None
    kept,      \* catalog -> the catalogs/<id>-<sequence>.json retained
    pages,     \* service -> the attestations on its status page, or None
    owed,      \* auditors whose handlers have written and not yet called OnChange
    queued, last, \* the throttle: a timer waits; when it last let a change pass
    run,       \* goroutine -> its refresh
    missed,    \* a write or a notice was lost and no refresh began since
    fired,     \* when a change last started a refresh of this process
    edits, mishaps

files == <<latest, kept, pages>>
trees == <<manifest, active, world>>
throttle == <<queued, last, fired>>
bounds == <<edits, mishaps>>
vars == <<now, trees, files, owed, throttle, run, missed, bounds>>

-------------------------------------------------------------------------------
(* Snapshots.                                                                 *)
Body(s) == [seq |-> s.seq, gen |-> s.gen, entries |-> s.entries]
Expiry(gen) == gen + Window

ListedAt_Anew(prev, id, at) == at \* mutant: every listing is a new one

ListedAt(prev, id, at) ==
    IF prev # None /\ \E e \in prev.entries : e.id = id
    THEN (CHOOSE e \in prev.entries : e.id = id).at ELSE at

(* The cap keeps the site's own seat, then the longest listed; the sort is    *)
(* stable, so the order of the trees decides between equals.                  *)
Before(e, f) ==
    \/ e.id = Own /\ f.id # Own
    \/ /\ (e.id = Own) = (f.id = Own)
       /\ \/ e.at < f.at
          \/ e.at = f.at /\ Rank(e.id) < Rank(f.id)

Capped(es) == {e \in es : Cardinality({f \in es : Before(f, e)}) < MaxEntries}

(* The current snapshot still says what the next one would, for long enough.  *)
Current_Expiring(prev, es, t) == \* mutant: renewed when it changes only
    prev # None /\ prev.entries = es

Current(prev, es, t) ==
    prev # None /\ prev.entries = es /\ Expiry(prev.gen) - t > Renew

Snapshot(prev, es, t) ==
    [ seq |-> IF prev = None THEN 1 ELSE prev.seq + 1, gen |-> t, entries |-> es,
      prev |-> IF prev = None THEN None ELSE Body(prev) ]

StatusOf(ts) ==
    CASE \E t \in ts : t.result = "fail" -> "warning"
      [] \A t \in ts : t.result = "clear" -> None
      [] OTHER -> "review"

Verifies(a, t) == manifest[a] # None /\ t < manifest[a]

(* The attestations that count at time t, as a credited auditor's tree shows  *)
(* them.                                                                      *)
Credited(t) == {x \in active : Verifies(x.by, t) /\ t < x.until}
About(ts, s) == {x \in ts : x.subject = s}

(* The services to list: those attested that Onym's catalog lists with a      *)
(* manifest that verifies.                                                    *)
Listed(ts, w) == {s \in Subjects : s \in w /\ About(ts, s) # {}}
ServiceEntries(prev, ts, w, t) ==
    {[ id |-> s, at |-> ListedAt(prev, s, t), doc |-> s,
       status |-> StatusOf(About(ts, s)) ] : s \in Listed(ts, w)}

-------------------------------------------------------------------------------
(* One refresh at a time holds the mutex; others wait for it.                 *)
Idle == [pc |-> "idle"]
Waiting(why) == [pc |-> "wait", why |-> why]
Reading(why, at, prev, todo, found) ==
    [ pc |-> "read", why |-> why, at |-> at, prev |-> prev, todo |-> todo, found |-> found ]
Running_Unlocked(g) == FALSE \* mutant: no mutex

Running(g) == run[g].pc \notin {"idle", "wait"}
Free == {g \in Goroutines : run[g] = Idle}
Start(why) == LET g == CHOOSE h \in Free : \A i \in Free : h <= i
              IN  Free # {} /\ run' = [run EXCEPT ![g] = Waiting(why)]

ToServices(g) ==
    run' = [run EXCEPT ![g] = [pc |-> "services", why |-> run[g].why]]
Finish(g) == run' = [run EXCEPT ![g] = Idle]

(* The trees are listed, the latest snapshot is read, and then one manifest   *)
(* after the other.                                                           *)
Begin(g) ==
    /\ run[g].pc = "wait"
    /\ \A h \in Goroutines : ~Running(h)
    /\ run' = [run EXCEPT ![g] = Reading(run[g].why, now, latest[Auds], Auditors, {})]
    /\ missed' = FALSE
    /\ UNCHANGED <<now, trees, files, owed, throttle, bounds>>

ReadManifest(g) ==
    /\ run[g].pc = "read" /\ run[g].todo # {}
    /\ LET r == run[g]
           a == CHOOSE x \in r.todo : \A y \in r.todo : Rank(x) <= Rank(y)
           e == [ id |-> a, at |-> ListedAt(r.prev, a, r.at), doc |-> manifest[a],
                  status |-> None ]
           fs == IF Verifies(a, r.at) THEN r.found \cup {e} ELSE r.found
       IN  run' = [run EXCEPT ![g] = Reading(r.why, r.at, r.prev, r.todo \ {a}, fs)]
    /\ UNCHANGED <<now, trees, files, owed, throttle, missed, bounds>>

(* Nothing is written while the snapshot stands; otherwise the next one is    *)
(* signed.                                                                    *)
BuildAuditors(g) ==
    /\ run[g].pc = "read" /\ run[g].todo = {}
    /\ LET r == run[g]
           es == Capped(r.found)
       IN  IF Current(r.prev, es, r.at)
           THEN ToServices(g)
           ELSE run' = [run EXCEPT ![g] =
                  [ pc |-> "sibling", why |-> r.why, cat |-> Auds, at |-> r.at,
                    found |-> r.found, snap |-> Snapshot(r.prev, es, r.at) ]]
    /\ UNCHANGED <<now, trees, files, owed, throttle, missed, bounds>>

ReadAttestations(g) ==
    /\ run[g].pc = "services"
    /\ run' = [run EXCEPT ![g] = [ pc |-> "fetch", why |-> run[g].why, at |-> now,
                                   atts |-> Credited(now) ]]
    /\ UNCHANGED <<now, trees, files, owed, throttle, missed, bounds>>

(* If Onym's catalog cannot be read, the current snapshot stays.              *)
FetchDirectory(g) ==
    /\ run[g].pc = "fetch"
    /\ LET r == run[g]
           prev == latest[Svcs]
           es == ServiceEntries(prev, r.atts, world, r.at)
           shown == [ s \in Subjects |-> IF s \in Listed(r.atts, world)
                                         THEN About(r.atts, s) ELSE None ]
       IN  IF world = None
           THEN Finish(g)
           ELSE run' = [run EXCEPT ![g] =
                  IF Current(prev, es, r.at)
                  THEN [pc |-> "pages", why |-> r.why, shown |-> shown]
                  ELSE [ pc |-> "sibling", why |-> r.why, cat |-> Svcs, at |-> r.at,
                         shown |-> shown, snap |-> Snapshot(prev, es, r.at) ]]
    /\ UNCHANGED <<now, trees, files, owed, throttle, missed, bounds>>

-------------------------------------------------------------------------------
(* The writes of a refresh, in their order.                                   *)
WriteSibling(g) ==
    /\ run[g].pc = "sibling"
    /\ LET r == run[g]
       IN  kept' = [kept EXCEPT ![r.cat] = {f \in @ : f.seq # r.snap.seq} \cup {r.snap}]
    /\ run' = [run EXCEPT ![g].pc = "latest"]
    /\ UNCHANGED <<now, trees, latest, pages, owed, throttle, missed, bounds>>

WriteLatest(g) ==
    /\ run[g].pc = "latest"
    /\ LET r == run[g] IN latest' = [latest EXCEPT ![r.cat] = r.snap]
    /\ run' = [run EXCEPT ![g].pc = "prune"]
    /\ UNCHANGED <<now, trees, kept, pages, owed, throttle, missed, bounds>>

(* Retained snapshots that have expired go; the latest's own stays.           *)
Pruned_All(c, seq, t) == \* mutant: superseded ones go at once
    {f \in kept[c] : f.seq # seq}

Pruned(c, seq, t) ==
    {f \in kept[c] : f.seq # seq /\ t > Expiry(f.gen)}

Prune(g) ==
    /\ run[g].pc = "prune"
    /\ LET r == run[g]
       IN  /\ kept' = [kept EXCEPT ![r.cat] = @ \ Pruned(r.cat, r.snap.seq, r.at)]
           /\ IF r.cat = Auds
              THEN ToServices(g)
              ELSE run' = [run EXCEPT ![g] =
                             [pc |-> "pages", why |-> r.why, shown |-> r.shown]]
    /\ UNCHANGED <<now, trees, latest, pages, owed, throttle, missed, bounds>>

(* Pages are written whether or not the snapshot changed, and those of        *)
(* services no longer listed removed.                                         *)
WritePages_Keeping(g) == \* mutant: nothing is removed
    /\ run[g].pc = "pages"
    /\ pages' = [s \in Subjects |-> IF run[g].shown[s] = None THEN pages[s] ELSE run[g].shown[s]]
    /\ Finish(g)
    /\ UNCHANGED <<now, trees, latest, kept, owed, throttle, missed, bounds>>

WritePages(g) ==
    /\ run[g].pc = "pages"
    /\ pages' = run[g].shown
    /\ Finish(g)
    /\ UNCHANGED <<now, trees, latest, kept, owed, throttle, missed, bounds>>

(* A write fails: the rest of its catalog waits for another refresh.          *)
WriteFails(g) ==
    /\ run[g].pc \in {"sibling", "latest", "pages"}
    /\ mishaps < MaxMishaps /\ mishaps' = mishaps + 1
    /\ missed' = TRUE
    /\ IF run[g].pc # "pages" /\ run[g].cat = Auds THEN ToServices(g) ELSE Finish(g)
    /\ UNCHANGED <<now, trees, files, owed, throttle, edits>>

-------------------------------------------------------------------------------
(* The hub.  A handler writes its auditor's tree and calls OnChange after it. *)
(* The site's own seat signs with commands, which tell nobody.                *)
Register(a, until) ==
    /\ edits < MaxEdits /\ edits' = edits + 1
    /\ a \in Hosted /\ now < until
    /\ manifest[a] # None => manifest[a] <= until
    /\ manifest' = [manifest EXCEPT ![a] = until]
    /\ owed' = owed \cup {a}
    /\ UNCHANGED <<now, active, world, files, throttle, run, missed, mishaps>>

(* The manifest is written but the status list cannot be signed: the handler  *)
(* answers 500 and calls nobody.                                              *)
RegisterUnsigned(a, until) ==
    /\ edits < MaxEdits /\ edits' = edits + 1
    /\ mishaps < MaxMishaps /\ mishaps' = mishaps + 1
    /\ a \in Hosted /\ now < until
    /\ manifest[a] # None => manifest[a] <= until
    /\ manifest' = [manifest EXCEPT ![a] = until]
    /\ missed' = TRUE
    /\ UNCHANGED <<now, active, world, files, owed, throttle, run>>

Publish(x) ==
    /\ edits < MaxEdits /\ edits' = edits + 1
    /\ x \notin active /\ Verifies(x.by, now)
    /\ active' = active \cup {x}
    /\ owed' = owed \cup ({x.by} \cap Hosted)
    /\ UNCHANGED <<now, manifest, world, files, throttle, run, missed, mishaps>>

Revoke(x) ==
    /\ edits < MaxEdits /\ edits' = edits + 1
    /\ x \in active /\ Verifies(x.by, now)
    /\ active' = active \ {x}
    /\ owed' = owed \cup ({x.by} \cap Hosted)
    /\ UNCHANGED <<now, manifest, world, files, throttle, run, missed, mishaps>>

(* OnChange: a change passes at most every Gap, and one that comes sooner     *)
(* starts a timer, unless a timer waits already.                              *)
Throttled_Dropped(a) == \* mutant: what comes too soon is dropped
    /\ a \in owed /\ owed' = owed \ {a}
    /\ IF ~queued /\ (last = None \/ now >= last + Gap)
       THEN Start("change") /\ last' = now /\ fired' = now /\ UNCHANGED queued
       ELSE UNCHANGED <<throttle, run>>
    /\ UNCHANGED <<now, trees, files, missed, bounds>>

Throttled_LastUnset(a) == \* mutant: the time it passed is not kept
    /\ a \in owed /\ owed' = owed \ {a}
    /\ IF queued
       THEN UNCHANGED <<throttle, run>>
       ELSE IF last = None \/ now >= last + Gap
       THEN Start("change") /\ fired' = now /\ UNCHANGED <<last, queued>>
       ELSE queued' = TRUE /\ UNCHANGED <<last, fired, run>>
    /\ UNCHANGED <<now, trees, files, missed, bounds>>

Throttled(a) ==
    /\ a \in owed /\ owed' = owed \ {a}
    /\ IF queued
       THEN UNCHANGED <<throttle, run>>
       ELSE IF last = None \/ now >= last + Gap
       THEN /\ Start("change")
            /\ last' = now /\ fired' = now /\ UNCHANGED queued
       ELSE queued' = TRUE /\ UNCHANGED <<last, fired, run>>
    /\ UNCHANGED <<now, trees, files, missed, bounds>>

TimerFires ==
    /\ queued /\ now >= last + Gap
    /\ queued' = FALSE /\ last' = now /\ fired' = now
    /\ Start("change")
    /\ UNCHANGED <<now, trees, files, owed, missed, bounds>>

(* The loop refreshes after it has re-signed, and waits for it to end.  Its   *)
(* ticker may fire at any time here, and keeps doing so.                      *)
Loop ==
    /\ ~\E g \in Goroutines : run[g] # Idle /\ run[g].why = "loop"
    /\ Start("loop")
    /\ UNCHANGED <<now, trees, files, owed, throttle, missed, bounds>>

-------------------------------------------------------------------------------
(* The surroundings.                                                          *)
WorldChanges(w) ==
    /\ edits < MaxEdits /\ edits' = edits + 1
    /\ w # world /\ world' = w
    /\ UNCHANGED <<now, manifest, active, files, owed, throttle, run, missed, mishaps>>

(* Reading and writing files takes no time beside the unit of this clock;     *)
(* waiting for the mutex and for Onym's hosts does.                           *)
Tick ==
    /\ \A g \in Goroutines : run[g].pc \in {"idle", "wait", "fetch"}
    /\ now < MaxTime /\ now' = now + 1
    /\ UNCHANGED <<trees, files, owed, throttle, run, missed, bounds>>

(* The process dies and is started again; it refreshes at once.  What it had  *)
(* queued is forgotten.                                                       *)
Boot == [g \in Goroutines |-> IF \A h \in Goroutines : g <= h THEN Waiting("boot") ELSE Idle]
Crash ==
    /\ mishaps < MaxMishaps /\ mishaps' = mishaps + 1
    /\ run' = Boot
    /\ owed' = {} /\ queued' = FALSE /\ last' = None /\ fired' = None
    /\ missed' = FALSE
    /\ UNCHANGED <<now, trees, files, edits>>

Refresh(g) ==
    \/ Begin(g) \/ ReadManifest(g) \/ BuildAuditors(g) \/ ReadAttestations(g)
    \/ FetchDirectory(g) \/ WriteSibling(g) \/ WriteLatest(g) \/ Prune(g) \/ WritePages(g)

Init ==
    /\ now = 0
    /\ manifest = [a \in Auditors |-> IF a \in Founders \cup {Own} THEN MaxTime + 1 ELSE None]
    /\ active = {} /\ world = Subjects
    /\ latest = [c \in Catalogs |-> None]
    /\ kept = [c \in Catalogs |-> {}]
    /\ pages = [s \in Subjects |-> None]
    /\ owed = {} /\ queued = FALSE /\ last = None /\ fired = None
    /\ run = Boot /\ missed = FALSE
    /\ edits = 0 /\ mishaps = 0

Next ==
    \/ \E g \in Goroutines : Refresh(g) \/ WriteFails(g)
    \/ \E a \in Hosted, l \in Lives : Register(a, l) \/ RegisterUnsigned(a, l)
    \/ \E x \in Attestations : Publish(x) \/ Revoke(x)
    \/ \E a \in Hosted : Throttled(a)
    \/ TimerFires \/ Loop \/ Tick \/ Crash
    \/ \E w \in Worlds : WorldChanges(w)

(* A goroutine that can run does, a timer that is due fires, the loop's       *)
(* ticker comes round and time passes; nobody has to change anything.         *)
Fairness ==
    /\ \A g \in Goroutines : WF_vars(Refresh(g))
    /\ \A a \in Hosted : WF_vars(Throttled(a))
    /\ WF_vars(TimerFires) /\ WF_vars(Loop) /\ WF_vars(Tick)

Spec == Init /\ [][Next]_vars /\ Fairness

-------------------------------------------------------------------------------
(* No snapshot lists more than the entries after which a client would reject  *)
(* the whole catalog (entries), and the state is well formed.                 *)
TypeOK ==
    /\ now \in 0..MaxTime
    /\ active \subseteq Attestations
    /\ owed \subseteq Hosted /\ queued \in BOOLEAN /\ missed \in BOOLEAN
    /\ \A c \in Catalogs : latest[c] # None =>
         /\ latest[c].seq \in Nat \ {0} /\ latest[c].gen \in 0..MaxTime
         /\ \A e \in latest[c].entries : e.at \in 0..MaxTime
         /\ c = Auds => Cardinality(latest[c].entries) <= MaxEntries

(* A reader who sees sequence N can walk back: the file of every sequence     *)
(* down from the latest is there with the bytes the one above it names, until *)
(* the first that has expired (writeCatalog and pruneExpired, with a crash    *)
(* between any two writes).                                                   *)
ChainWalkable ==
    \A c \in Catalogs : latest[c] # None =>
      /\ latest[c] \in kept[c]
      /\ \A f \in kept[c] : f.seq \in 2..latest[c].seq =>
           \/ now > Expiry(f.prev.gen)
           \/ \E g \in kept[c] : g.seq = f.seq - 1 /\ Body(g) = f.prev
      /\ \A n \in 1..latest[c].seq :
           \/ \E f \in kept[c] : f.seq = n
           \/ \E f \in kept[c] :
                f.seq \in (n + 1)..latest[c].seq /\ now > Expiry(f.prev.gen)

(* Each snapshot that replaces another is its only successor: one sequence    *)
(* further, naming its bytes, though several refreshes want to write.         *)
OneSuccessor ==
    [][\A c \in Catalogs : latest'[c] # latest[c] =>
         IF latest[c] = None THEN latest'[c].seq = 1 /\ latest'[c].prev = None
         ELSE latest'[c].seq = latest[c].seq + 1 /\ latest'[c].prev = Body(latest[c])]_vars

(* The last change always gets its run: when no handler, timer or refresh is  *)
(* under way and none has failed, every hosted auditor is listed with the     *)
(* manifest it has now, unless that has expired or the catalog is full        *)
(* (throttled in serve, changed in the hub).                                  *)
Quiet == /\ owed = {} /\ ~queued /\ ~missed
         /\ \A g \in Goroutines : run[g] = Idle
QuietMeansListed ==
    Quiet => \A a \in Hosted :
      LET es == latest[Auds].entries
          of == {e \in es : e.id = a}
      IN  /\ \A e \in of : e.doc = manifest[a]
          /\ Verifies(a, now) /\ of = {} => Cardinality(es) = MaxEntries

(* Changes cannot make the provider sign without limit: a process starts two  *)
(* refreshes on account of changes no closer than Gap.                        *)
ChangeRate ==
    [][(\E g \in Goroutines : run[g] = Idle /\ run'[g] = Waiting("change")) =>
         fired = None \/ now >= fired + Gap]_vars

(* Who is listed and still verifies loses the place to nobody who came later, *)
(* whatever the trees' order (the cap in entries).                            *)
NewcomersWait ==
    [][\A g \in Goroutines :
         (run[g].pc = "latest" /\ run[g].cat = Auds /\ latest' # latest /\ latest[Auds] # None) =>
           \A e \in latest[Auds].entries, f \in latest'[Auds].entries :
             /\ e.id \in {x.id : x \in run[g].found}
             /\ e.id \notin {x.id : x \in latest'[Auds].entries}
             /\ f.id \notin {x.id : x \in latest[Auds].entries}
             => f.id = Own \/ e.at >= run[g].at]_vars

(* Once Onym's catalog can be read, the services catalog and every status     *)
(* page come to say what the credited attestations say, after whatever crash, *)
(* failing write or change (RefreshServices with the loop behind it).         *)
ServicesShown ==
    /\ latest[Svcs] # None
    /\ {<<e.id, e.status>> : e \in latest[Svcs].entries} =
         {<<s, StatusOf(About(Credited(now), s))>> : s \in Listed(Credited(now), world)}
    /\ \A s \in Subjects :
         pages[s] = IF s \in Listed(Credited(now), world) THEN About(Credited(now), s) ELSE None
ServicesCatchUp == <>[](world = None \/ ServicesShown)

(* A catalog whose sources can be read is renewed before it expires, with     *)
(* nothing changing in it.                                                    *)
Lasting(c) == latest[c] # None /\ Expiry(latest[c].gen) - now > Renew
Renewed == <>[](Lasting(Auds) /\ (world # None => Lasting(Svcs)))

(* Snapshots have their type, the cap on their entries included, and each one *)
(* that has not expired can be reached by walking back from the latest.       *)
ChainSound ==
    /\ TypeOK
    /\ ChainWalkable

===============================================================================
