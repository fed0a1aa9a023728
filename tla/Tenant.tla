-------------------------------- MODULE Tenant --------------------------------
(* One hosted auditor of the hub (hub/hub.go, hub/orders.go): its published   *)
(* tree, its embargoed attestations, its order queue and its status list,     *)
(* under the handlers that change them.                                       *)
(*                                                                            *)
(* A handler takes the tenant's lock, checks, and then writes its files one   *)
(* at a time, in the random order Go ranges over a map; only afterwards does  *)
(* it drop the order from the queue and sign the status list.  The handlers   *)
(* of one tenant exclude each other, so a handler is a START action (lock and *)
(* all the checks) followed by write, fulfil and sign steps; readers of the   *)
(* tree take no lock and see every state in between.  The process may crash   *)
(* at any step (the lock and the handler vanish, the files stay), and a disk  *)
(* write may fail, which ends the handler where it stands.                    *)
EXTENDS StatusList

CONSTANTS
    Ids,          \* attestation ids
    Atts,         \* attestation documents signed by the auditor
    Revs,         \* revocation documents signed by the auditor
    Orders,       \* countersigned orders [id, ver, embargo]
    OrderIds,
    DocNames,     \* paths of scopes, reports, methodologies
    Versions,     \* what a document's bytes may be
    Manifests,    \* manifests signed by the operator key: [until, pins]
    RespIds,      \* ids of subjects' replies
    MaxResponses, \* replies an attestation takes
    MaxInbox,     \* orders the queue holds
    Quota,        \* files the tree may hold (MaxTenantBytes, files as units)
    Skew,         \* the slack ParseManifest allows on validUntil
    MaxTime,      \* bound: the clock stops here
    MaxCrashes, MaxFaults, MaxSteps \* bounds: crashes, disk errors, clock steps back

ASSUME TenantAssumption ==
    /\ Ids \subseteq Nat /\ \A S \in {Ids, OrderIds, DocNames, RespIds} : IsFiniteSet(S)
    /\ \A o \in Orders : o.id \in OrderIds /\ o.embargo \in Nat
    /\ Atts \subseteq [ id : Ids, fail : BOOLEAN, order : Orders \cup {None},
                        supersedes : Ids \cup {None}, expiresAt : Nat \cup {None},
                        pins : [DocNames -> Versions \cup {None}] ]
    /\ Revs \subseteq [att : Ids, from : Nat, epoch : Nat]
    /\ Manifests \subseteq [ until : Nat, pins : [DocNames -> Versions \cup {None}] ]
    /\ {MaxResponses, MaxInbox, Quota, Skew, MaxTime} \subseteq Nat
    /\ {MaxCrashes, MaxFaults, MaxSteps} \subseteq Nat
    /\ None \notin Ids /\ None \notin Atts /\ None \notin Revs
    /\ None \notin Orders /\ None \notin Versions /\ None \notin Manifests
    /\ None \notin [doc : Atts, rev : Revs \cup {None}, resps : SUBSET RespIds]
    /\ None \notin [ doc : Atts, state : States, by : Ids \cup {None},
                     rev : Revs \cup {None}, resps : SUBSET RespIds ]

VARIABLES
    now,      \* the host's clock
    tree,     \* path -> the document served there, or None
    status,   \* the last status list signed, or None
    held,     \* id -> None, or [releaseAt, files]: an embargoed attestation
    inbox,    \* ids of the orders queued for review
    disabled, \* the operator took the auditor off the hub
    op,       \* the handler that holds the tenant's lock, or "none"
    pc,       \* what that handler does next
    todo,     \* path -> what it has still to write there, or None
    pending,  \* held files ResignAll has still to look at
    cur,      \* the held file it is releasing
    taken,    \* the order the publish handler fulfils
    due,      \* ResignAll will run again: the ticker fired, or the hub restarted
    crashes, faults, steps \* how often each bounded event has happened

files == <<tree, held, status, inbox, disabled>>
handler == <<op, pc, todo, pending, cur, taken>>
env == <<now, crashes, faults, steps>>
vars == <<now, tree, status, held, inbox, disabled, op, pc, todo, pending,
          cur, taken, due, crashes, faults, steps>>

-------------------------------------------------------------------------------
(* Paths of the tree, and what is served at them.                             *)

AttPath(i)     == <<"attestations", i>>
RevPath(i)     == <<"revocations", i>>
OrderPath(o)   == <<"orders", o>>
DocPath(n)     == <<"docs", n>>
RespPath(i, r) == <<"responses", i, r>>
ManifestPath   == <<"manifest.json">>

Paths == {AttPath(i) : i \in Ids} \cup {RevPath(i) : i \in Ids}
         \cup {OrderPath(o) : o \in OrderIds} \cup {DocPath(n) : n \in DocNames}
         \cup {RespPath(i, r) : i \in Ids, r \in RespIds} \cup {ManifestPath}

(* A subject's reply names the exact attestation it answers.                  *)
Responses == [rid : RespIds, of : Atts]

Contents == Atts \cup Revs \cup Orders \cup Versions \cup Manifests \cup Responses

(* What is served at a path is a document of the path's kind.                 *)
Kinded(fs) ==
    /\ \A i \in Ids : /\ fs[AttPath(i)] \in {a \in Atts : a.id = i} \cup {None}
                      /\ fs[RevPath(i)] \in {r \in Revs : r.att = i} \cup {None}
    /\ fs[ManifestPath] \in Manifests \cup {None}

FileMaps == {fs \in [Paths -> Contents \cup {None}] : Kinded(fs)}

NoFiles == [p \in Paths |-> None]
Written(fs) == {p \in Paths : fs[p] # None}

Docs(pins, offered) == [p \in Paths |->
    IF \E n \in offered : p = DocPath(n)
    THEN pins[CHOOSE n \in offered : p = DocPath(n)] ELSE None]

Only(p, c) == [NoFiles EXCEPT ![p] = c]

-------------------------------------------------------------------------------
(* Reading the tree.                                                          *)

Published(i) == tree[AttPath(i)] # None

Responded(i) == {r \in RespIds : tree[RespPath(i, r)] # None}

(* Collect: every attestation file with its revocation and its replies.       *)
Collect == [i \in Ids |->
    IF Published(i)
    THEN [doc |-> tree[AttPath(i)], rev |-> tree[RevPath(i)], resps |-> Responded(i)]
    ELSE None]

(* ParseManifest at now, the only reading of the manifest that time changes.  *)
ManifestValid == /\ tree[ManifestPath] # None
                 /\ now <= tree[ManifestPath].until + Skew

TenantOpen == ~disabled /\ ManifestValid

(* pinned: what is not offered must already be served with the right bytes.   *)
Pinned(pins, offered) ==
    /\ offered \subseteq {n \in DocNames : pins[n] # None}
    /\ \A n \in DocNames \ offered :
          pins[n] # None => tree[DocPath(n)] = pins[n]

Held(i) == held[i] # None
HeldOrder_Unseen(o) == FALSE  \* mutant: postOrder looks at the tree only

HeldOrder(o) == \E i \in Ids : Held(i) /\ held[i].files[OrderPath(o)] # None

Usage == Cardinality(Written(tree))

(* Every held file counts, also when two of them hold the same path.          *)
HeldUsage == Cardinality({x \in Ids \X Paths : Held(x[1]) /\ held[x[1]].files[x[2]] # None})

FitsQuota(fs) ==
    Usage + HeldUsage + Cardinality(Written(fs) \ Written(tree)) <= Quota

(* An id is used by a published attestation or by a held one.                 *)
IdTaken_Published(i) == Published(i)  \* mutant: isHeld is not asked

IdTaken(i) == Published(i) \/ Held(i)

(* An attestation that reports a fail under an order that embargoes failures. *)
Embargoed(a) == /\ a.order # None
                /\ a.fail
                /\ a.order.embargo > 0

ReleaseTime(o) == now + o.embargo

EmbargoEnded_Early(i) == TRUE  \* mutant: release does not look at releaseAt

EmbargoEnded(i) == now >= held[i].releaseAt

(* What publishing a writes: the offered documents, its order, itself.        *)
PublishFiles(a, offered) ==
    LET withOrder == IF a.order = None THEN Docs(a.pins, offered)
                     ELSE [Docs(a.pins, offered) EXCEPT ![OrderPath(a.order.id)] = a.order]
    IN  [withOrder EXCEPT ![AttPath(a.id)] = a]

-------------------------------------------------------------------------------
Init == /\ now = 0
        /\ tree = NoFiles
        /\ status = None
        /\ held = [i \in Ids |-> None]
        /\ inbox = {}
        /\ disabled = FALSE
        /\ op = "none" /\ pc = "idle" /\ todo = NoFiles
        /\ pending = {} /\ cur = None /\ taken = None
        /\ due = TRUE
        /\ crashes = 0 /\ faults = 0 /\ steps = 0

Idle == pc = "idle"

(* The handler returns and releases the lock.                                 *)
Unlock == /\ op' = "none" /\ pc' = "idle" /\ todo' = NoFiles
          /\ pending' = {} /\ cur' = None /\ taken' = None

Lock(handlerOp, fs) == /\ op' = handlerOp /\ pc' = "write" /\ todo' = fs
                       /\ UNCHANGED <<pending, cur>>

(* register: the first manifest or a later one.  The operator's key is pinned *)
(* by Naming; here every manifest is that operator's.  A later manifest must  *)
(* be valid longer; the same bytes again are accepted.                        *)
Register(m, offered) ==
    /\ Idle /\ ~disabled
    /\ now <= m.until + Skew
    /\ tree[ManifestPath] # None =>
          \/ m.until > tree[ManifestPath].until
          \/ m = tree[ManifestPath]
    /\ Pinned(m.pins, offered)
    /\ LET fs == [Docs(m.pins, offered) EXCEPT ![ManifestPath] = m] IN
       /\ \E p \in Written(fs) : tree[p] # fs[p]  \* bound: it changes something
       /\ FitsQuota(fs)
       /\ Lock("register", fs)
    /\ UNCHANGED <<files, env, due, taken>>

(* publish: the checks, and either the writes that follow or the hold.        *)
PublishChecks(a, offered) ==
    /\ Idle /\ TenantOpen
    /\ ~IdTaken(a.id)
    /\ a.order # None => tree[OrderPath(a.order.id)] \in {None, a.order}
    /\ Pinned(a.pins, offered)

Publish(a, offered) ==
    /\ PublishChecks(a, offered)
    /\ ~Embargoed(a)
    /\ FitsQuota(PublishFiles(a, offered))
    /\ Lock("publish", PublishFiles(a, offered))
    /\ taken' = a.order
    /\ UNCHANGED <<files, env, due>>

(* The hold is one file, renamed into place; fulfilled() follows it.          *)
Hold(a, offered) ==
    /\ PublishChecks(a, offered)
    /\ Embargoed(a)
    /\ ReleaseTime(a.order) <= MaxTime  \* bound: the clock reaches the release
    /\ Usage + HeldUsage + Cardinality(Written(PublishFiles(a, offered))) <= Quota
    /\ held' = [held EXCEPT ![a.id] = [ releaseAt |-> ReleaseTime(a.order),
                                        files |-> PublishFiles(a, offered) ]]
    /\ op' = "hold" /\ pc' = "fulfil" /\ taken' = a.order
    /\ UNCHANGED <<tree, status, inbox, disabled, todo, pending, cur, env, due>>

(* revoke: of a published attestation, once, whatever the quota.              *)
Revoke(r) ==
    /\ Idle /\ TenantOpen
    /\ Published(r.att)
    /\ tree[RevPath(r.att)] = None
    /\ Lock("revoke", Only(RevPath(r.att), r))
    /\ UNCHANGED <<files, env, due, taken>>

(* response: a subject's reply to a published attestation.                    *)
Respond(i, r) ==
    /\ Idle /\ TenantOpen
    /\ Published(i)
    /\ tree[RespPath(i, r)] = None
    /\ Cardinality(Responded(i)) < MaxResponses
    /\ LET fs == Only(RespPath(i, r), [rid |-> r, of |-> tree[AttPath(i)]]) IN
       /\ FitsQuota(fs)
       /\ Lock("response", fs)
    /\ UNCHANGED <<files, env, due, taken>>

(* postOrder, whose three files and closed request Orders models.             *)
PostOrder(o) ==
    /\ Idle /\ TenantOpen
    /\ tree[OrderPath(o)] = None /\ ~HeldOrder(o)
    /\ o \notin inbox
    /\ Cardinality(inbox) < MaxInbox
    /\ inbox' = inbox \cup {o}
    /\ UNCHANGED <<tree, held, status, disabled, handler, env, due>>

(* inbox, action "decline".                                                   *)
Decline(o) ==
    /\ Idle /\ TenantOpen
    /\ o \in inbox
    /\ inbox' = inbox \ {o}
    /\ UNCHANGED <<tree, held, status, disabled, handler, env, due>>

-------------------------------------------------------------------------------
(* The steps of the handler that holds the lock.                              *)

(* writeFiles: the next file, any of those left, in one rename.               *)
WriteFile(p) ==
    /\ pc = "write" /\ todo[p] # None
    /\ tree' = [tree EXCEPT ![p] = todo[p]]
    /\ todo' = [todo EXCEPT ![p] = None]
    /\ UNCHANGED <<held, status, inbox, disabled, op, pc, pending, cur, taken, env, due>>

(* After the last file: publish drops its order, ResignAll removes the held   *)
(* file and goes on, the others sign.                                         *)
Wrote ==
    /\ pc = "write" /\ todo = NoFiles
    /\ pc' = CASE op = "publish" -> "fulfil"
               [] op = "resignall" -> "next"
               [] OTHER -> "sign"
    /\ held' = IF op = "resignall" THEN [held EXCEPT ![cur] = None] ELSE held
    /\ cur' = None
    /\ UNCHANGED <<tree, status, inbox, disabled, op, todo, pending, taken, env, due>>

(* fulfilled(): a held attestation's handler ends here with 202.              *)
Fulfil ==
    /\ pc = "fulfil"
    /\ inbox' = IF taken = None THEN inbox ELSE inbox \ {taken.id}
    /\ IF op = "hold" THEN Unlock
       ELSE /\ pc' = "sign" /\ taken' = None
            /\ UNCHANGED <<op, todo, pending, cur>>
    /\ UNCHANGED <<tree, held, status, disabled, env, due>>

PrevEpoch == IF status = None THEN 0 ELSE status.epoch
NewStatus == BuildStatus(Collect, now, MinEpoch(Collect, PrevEpoch))
CanSign   == ManifestValid /\ Encodable(NewStatus)

(* resign: site.ResignStatus, then the reply.                                 *)
Sign ==
    /\ pc = "sign" /\ CanSign
    /\ status' = NewStatus
    /\ Unlock
    /\ UNCHANGED <<tree, held, inbox, disabled, env, due>>

(* The manifest has run out meanwhile, or the epoch cannot be encoded.        *)
CannotSign ==
    /\ pc = "sign" /\ ~CanSign
    /\ Unlock
    /\ UNCHANGED <<files, env, due>>

-------------------------------------------------------------------------------
(* ResignAll, from the ticker and at start.                                   *)

ResignAll ==
    /\ Idle /\ due
    /\ ~disabled /\ tree[ManifestPath] # None
    /\ op' = "resignall" /\ pc' = "next"
    /\ pending' = {i \in Ids : Held(i)}
    /\ due' = FALSE
    /\ UNCHANGED <<files, todo, cur, taken, env>>

(* Mutant: the held file is removed before its files are written.             *)
Release_RemoveFirst(i) ==
    /\ pc = "next" /\ i \in pending
    /\ \A j \in pending : i <= j
    /\ pending' = pending \ {i}
    /\ IF EmbargoEnded(i)
       THEN /\ todo' = held[i].files /\ cur' = i /\ pc' = "write"
            /\ held' = [held EXCEPT ![i] = None]
       ELSE UNCHANGED <<todo, cur, pc, held>>
    /\ UNCHANGED <<tree, status, inbox, disabled, op, taken, env, due>>

(* Mutant: release writes within the quota.                                   *)
Release_InQuota(i) ==
    /\ pc = "next" /\ i \in pending
    /\ \A j \in pending : i <= j
    /\ pending' = pending \ {i}
    /\ IF EmbargoEnded(i) /\ FitsQuota(held[i].files)
       THEN /\ todo' = held[i].files /\ cur' = i /\ pc' = "write"
       ELSE UNCHANGED <<todo, cur, pc>>
    /\ UNCHANGED <<files, op, taken, env, due>>

(* release: the next held file in name order, if its embargo has ended.       *)
Release(i) ==
    /\ pc = "next" /\ i \in pending
    /\ \A j \in pending : i <= j
    /\ pending' = pending \ {i}
    /\ IF EmbargoEnded(i)
       THEN /\ todo' = held[i].files /\ cur' = i /\ pc' = "write"
       ELSE UNCHANGED <<todo, cur, pc>>
    /\ UNCHANGED <<files, op, taken, env, due>>

Released ==
    /\ pc = "next" /\ pending = {}
    /\ pc' = "sign"
    /\ UNCHANGED <<files, op, todo, pending, cur, taken, env, due>>

-------------------------------------------------------------------------------
(* The surroundings.                                                          *)

(* A disk write fails.  A handler returns an error and signs nothing; release *)
(* keeps the held file and goes on with the next one.                         *)
DiskError ==
    /\ faults < MaxFaults /\ faults' = faults + 1
    /\ pc \in {"write", "sign"} /\ (pc = "write" => todo # NoFiles)
    /\ IF pc = "write" /\ op = "resignall"
       THEN /\ pc' = "next" /\ todo' = NoFiles /\ cur' = None
            /\ UNCHANGED <<op, pending, taken>>
       ELSE Unlock
    /\ due' = TRUE  \* bound: the ticker is sure to fire after a failure
    /\ UNCHANGED <<files, now, crashes, steps>>

(* Mutant: serve starts without a ResignAll.                                  *)
Crash_NoResign ==
    /\ crashes < MaxCrashes /\ crashes' = crashes + 1
    /\ Unlock
    /\ UNCHANGED <<files, now, due, faults, steps>>

(* The process dies and is started again; serve begins with ResignAll.        *)
Crash ==
    /\ crashes < MaxCrashes /\ crashes' = crashes + 1
    /\ Unlock
    /\ due' = TRUE
    /\ UNCHANGED <<files, now, faults, steps>>

Tick ==
    /\ now < MaxTime /\ now' = now + 1
    /\ due' = TRUE
    /\ UNCHANGED <<files, handler, crashes, faults, steps>>

(* The host's clock is set back.                                              *)
StepBack ==
    /\ steps < MaxSteps /\ steps' = steps + 1
    /\ now > 0 /\ now' = now - 1
    /\ due' = TRUE
    /\ UNCHANGED <<files, handler, crashes, faults>>

(* Disable takes no lock: it may land in the middle of a handler.             *)
Disable ==
    /\ ~disabled /\ disabled' = TRUE
    /\ UNCHANGED <<tree, held, status, inbox, handler, env, due>>

-------------------------------------------------------------------------------
Handlers == \/ \E p \in Paths : WriteFile(p)
            \/ Wrote
            \/ Fulfil
            \/ Sign
            \/ CannotSign
            \/ \E i \in Ids : Release(i)
            \/ Released

Requests == \/ \E m \in Manifests, d \in SUBSET DocNames : Register(m, d)
            \/ \E a \in Atts, d \in SUBSET DocNames : Publish(a, d) \/ Hold(a, d)
            \/ \E r \in Revs : Revoke(r)
            \/ \E i \in Ids, r \in RespIds : Respond(i, r)
            \/ \E o \in OrderIds : PostOrder(o) \/ Decline(o)

Next == \/ Requests
        \/ Handlers
        \/ ResignAll
        \/ DiskError
        \/ Crash
        \/ Tick
        \/ StepBack
        \/ Disable

Spec == Init /\ [][Next]_vars

(* A running handler finishes and the ticker goes on; nobody has to call.     *)
Fairness == WF_vars(Handlers) /\ WF_vars(ResignAll) /\ WF_vars(Tick)
FairSpec == Spec /\ Fairness

-------------------------------------------------------------------------------
(* Properties.                                                                *)

HeldEntries == [releaseAt : Nat, files : FileMaps]
Listings == [ doc : Atts, state : States, by : Ids \cup {None},
              rev : Revs \cup {None}, resps : SUBSET RespIds ]
Lists == [ epoch : Nat, issuedAt : Nat, nextUpdate : Nat,
           entries : [Ids -> Listings \cup {None}] ]

(* Every variable has its type, and every path holds a document of its kind.  *)
TypeOK ==
    /\ now \in Nat
    /\ tree \in FileMaps
    /\ status \in Lists \cup {None}
    /\ held \in [Ids -> HeldEntries \cup {None}]
    /\ inbox \subseteq OrderIds
    /\ disabled \in BOOLEAN
    /\ op \in {"none", "register", "publish", "hold", "revoke", "response", "resignall"}
    /\ pc \in {"idle", "write", "fulfil", "next", "sign"}
    /\ todo \in FileMaps
    /\ pending \subseteq Ids
    /\ cur \in Ids \cup {None}
    /\ taken \in Orders \cup {None}
    /\ due \in BOOLEAN
    /\ crashes \in Nat /\ faults \in Nat /\ steps \in Nat

Listed(i) == status # None /\ status.entries[i] # None

(* The status list never names a document the tree does not serve with those  *)
(* bytes, nor a revocation or a reply that is not in the tree: a reader who   *)
(* follows the list at any moment, between two writes of a handler or after a *)
(* crash, finds what the list pins (hub.resign after writeFiles).             *)
ListMatchesTree ==
    \A i \in Ids : Listed(i) =>
        /\ tree[AttPath(i)] = status.entries[i].doc
        /\ status.entries[i].rev # None => tree[RevPath(i)] = status.entries[i].rev
        /\ status.entries[i].resps \subseteq Responded(i)

(* An attestation is immutable and permanent once its file is there, and so   *)
(* are its revocation and the replies to it, whatever is published, released  *)
(* or replayed later (publish's and revoke's 409, release's overwrite).       *)
NeverModified ==
    [][\A i \in Ids :
          /\ Published(i) => tree'[AttPath(i)] = tree[AttPath(i)]
          /\ tree[RevPath(i)] # None => tree'[RevPath(i)] = tree[RevPath(i)]
          /\ \A r \in RespIds : tree[RespPath(i, r)] # None =>
                tree'[RespPath(i, r)] = tree[RespPath(i, r)]]_vars

(* A fail under an embargo reaches the tree only out of its held file and,    *)
(* unless the clock is set back, only once that file's release time has come  *)
(* (publish's hold, release).                                                 *)
EmbargoKept ==
    [][\A i \in Ids :
          ~Published(i) /\ tree'[AttPath(i)] # None /\ Embargoed(tree'[AttPath(i)])
          => /\ Held(i) /\ held[i].files[AttPath(i)] = tree'[AttPath(i)]
             /\ steps = 0 => now >= held[i].releaseAt]_vars

(* A held file is given up only when the whole of it is in the tree: a crash  *)
(* or a disk error in the middle of a release loses no part of it (release).  *)
ReleasedWhole ==
    [][\A i \in Ids : Held(i) /\ held'[i] = None =>
          \A p \in Written(held[i].files) : tree'[p] = held[i].files[p]]_vars

(* The epoch of a list is above the one before it and above every revocation  *)
(* in the tree when it was signed, so above the one a revoked entry carries,  *)
(* also when the clock is set back or is behind (ResignStatus, BuildStatus).  *)
EpochAdvances ==
    [][status' # status =>
          /\ status # None => status'.epoch > status.epoch
          /\ \A i \in Ids : Published(i) /\ tree[RevPath(i)] # None
                => status'.epoch > tree[RevPath(i)].epoch]_vars

(* While the clock is not set back, a list never takes back what an earlier   *)
(* one said: an attestation stays listed, a revoked one stays revoked, one    *)
(* superseded or expired never becomes active again, and a reply is not lost. *)
ListOnlyGrows ==
    [][steps' = 0 => \A i \in Ids : Listed(i) =>
          LET old == status.entries[i]  new == status'.entries[i] IN
          /\ new # None
          /\ old.state = "revoked" => new.state = "revoked"
          /\ old.state # "active" => new.state # "active"
          /\ old.resps \subseteq new.resps]_vars

(* What the operator stores for an auditor, published or held, stays within   *)
(* the quota except for revocations, which are always taken (writeFiles,      *)
(* heldUsage).                                                                *)
QuotaKept ==
    LET stored == Written(tree) \cup
                  UNION {Written(held[i].files) : i \in {j \in Ids : Held(j)}}
    IN  Cardinality(stored \ {RevPath(i) : i \in Ids}) <= Quota

(* Without a crash or a disk error, an order is out of the queue once the     *)
(* handler that published or held its attestation is done, and does not come  *)
(* back (publish's fulfilled, postOrder's 409).                               *)
FulfilledLeavesQueue ==
    crashes = 0 /\ faults = 0 /\ Idle =>
        \A o \in inbox : tree[OrderPath(o)] = None /\ ~HeldOrder(o)

(* Whatever crashes and disk errors happen, and however full the tree is, an  *)
(* embargoed fail is published in the end, unless the operator disables the   *)
(* auditor (release outside the quota, retried by ResignAll).                 *)
HeldIsReleased ==
    \A i \in Ids : Held(i) ~> (~Held(i) /\ Published(i)) \/ disabled

(* Every published attestation gets into the status list, unless the auditor  *)
(* is disabled or lets the manifest run out (the re-sign of each handler, and *)
(* ResignAll's for the handlers that ended early).                            *)
PublishedIsListed ==
    \A i \in Ids : Published(i) ~> Listed(i) \/ disabled \/ ~ManifestValid

(* A revocation in the tree shows in the list once it is in force, with the   *)
(* same exceptions.                                                           *)
RevocationShows ==
    \A i \in Ids : Published(i) /\ tree[RevPath(i)] # None ~>
        \/ Listed(i) /\ status.entries[i].state = "revoked"
        \/ disabled \/ ~ManifestValid

(* The queue of orders is consistent: what is held for release leaves room    *)
(* for it within the quota, and an order an attestation answers is queued no  *)
(* more.                                                                      *)
QueueSound ==
    /\ QuotaKept
    /\ FulfilledLeavesQueue

(* What is published, an attestation or its revocation, shows in the status   *)
(* list in the end, without any further request.                              *)
PublishedShows ==
    /\ PublishedIsListed
    /\ RevocationShows

================================================================================
