-------------------------------- MODULE Names --------------------------------
(* How a name on the hub gets its holder (hub/hub.go, claim and register): a  *)
(* studio claims the name and is told the status key minted for it, signs a   *)
(* manifest that names this key, and registers it with the offers it lists.   *)
(* The claim holds for a while; the first manifest pins the operator's key to *)
(* the name for good, and later ones replace it.                              *)
(*                                                                            *)
(* Both handlers run under the name's lock and write several files; a crash   *)
(* or a failing write leaves some of them, and readers take no lock.  Every   *)
(* request passes the limiter.  Manifests and offers are public, so anyone,   *)
(* from any address, may send again what an operator ever signed.             *)
EXTENDS Limiter

CONSTANTS
    None,
    Studios,                 \* operators' keys, each with an address of its own
    ClaimCost, RegisterCost, \* what the two requests cost
    TTL,                     \* ticks a claim holds
    MaxUntil, MaxVersion,    \* bounds: validity of manifests and of offers
    MaxKeys,                 \* bound: status keys minted
    MaxCrashes, MaxFaults    \* bounds: crashes, and failing writes

Keys == 1 .. MaxKeys
Claims == [key : Keys, left : 0 .. TTL]
Manifests == [operator : Studios, statusKey : Keys, until : 1 .. MaxUntil, lists : BOOLEAN]
Offers == [auditor : Studios, version : 1 .. MaxVersion]
Answers == [key : Keys, left : 1 .. TTL, kept : BOOLEAN]

ASSUME NamesAssumption ==
    /\ Studios \subseteq Addresses /\ {ClaimCost, RegisterCost} \subseteq Costs
    /\ TTL \in Nat \ {0}
    /\ {MaxUntil, MaxVersion, MaxKeys, MaxCrashes, MaxFaults} \subseteq Nat
    /\ None \notin Claims \cup Manifests \cup Offers \cup Answers

VARIABLES
    keyfile,   \* the status key stored for the name, 0 when there is none
    claim,     \* the claim file, or None
    manifest,  \* the registered manifest, or None
    offer,     \* the stored offer, or None
    disabled,
    job,       \* what the handler that holds the name's lock still has to do
    minted,    \* status keys minted so far
    told,      \* studio -> the last answer to its claim, while it holds, or None
    known,     \* studio -> the status keys it was ever told
    cut,       \* a registration was cut short and none completed since
    crashes, faults

disk == <<keyfile, claim, manifest, offer, disabled>>
studio == <<minted, told, known>>
vars == <<buckets, disk, job, studio, cut, crashes, faults>>

-------------------------------------------------------------------------------
Free == [doing |-> "nothing"]
Minting(s) == [doing |-> "mint", by |-> s]
Claiming(s, k) == [doing |-> "claim", by |-> s, key |-> k]
Registering(m, o, files) == [doing |-> "register", manifest |-> m, offer |-> o, todo |-> files]

(* Manifests a request can carry: an operator signs one for a key it was told.*)
Signed == {m \in Manifests : m.statusKey \in known[m.operator]}

-------------------------------------------------------------------------------
(* POST claim.                                                                *)

Claimed_Never == FALSE
Claimed == claim # None /\ claim.left > 0

Tell(s, c, kept) ==
    /\ told' = [told EXCEPT ![s] = [key |-> c.key, left |-> c.left, kept |-> kept]]
    /\ known' = [known EXCEPT ![s] = @ \cup {c.key}]

NameTaken == manifest # None

(* An unexpired claim is returned as it is, to whoever asks.                  *)
ClaimAgain(s) ==
    /\ ~NameTaken /\ Claimed
    /\ Tell(s, claim, TRUE)
    /\ UNCHANGED <<disk, job, minted>>

(* Otherwise a key is minted; os.WriteFile first truncates the stored one.    *)
Mint(s) ==
    /\ ~NameTaken /\ ~Claimed /\ minted < MaxKeys
    /\ keyfile' = 0
    /\ job' = Minting(s)
    /\ UNCHANGED <<claim, manifest, offer, disabled, studio>>

ClaimRefused == NameTaken /\ UNCHANGED <<disk, job, studio>>

Claim(s) ==
    /\ job = Free
    /\ \/ Deny(s, ClaimCost) /\ UNCHANGED <<disk, job, studio>>
       \/ Allow(s, ClaimCost) /\ (ClaimAgain(s) \/ Mint(s) \/ ClaimRefused)
    /\ UNCHANGED <<cut, crashes, faults>>

StoreKey ==
    /\ job.doing = "mint"
    /\ minted' = minted + 1
    /\ keyfile' = minted + 1
    /\ job' = Claiming(job.by, minted + 1)
    /\ UNCHANGED <<buckets, claim, manifest, offer, disabled, told, known, cut, crashes, faults>>

(* The claim file that answers retries; an error of this write is ignored.    *)
StoreClaim(stored) ==
    /\ job.doing = "claim"
    /\ stored \/ faults < MaxFaults
    /\ LET c == [key |-> job.key, left |-> TTL] IN
         /\ claim' = IF stored THEN c ELSE claim
         /\ Tell(job.by, c, stored)
    /\ faults' = IF stored THEN faults ELSE faults + 1
    /\ job' = Free
    /\ UNCHANGED <<buckets, keyfile, manifest, offer, disabled, minted, cut, crashes>>

-------------------------------------------------------------------------------
(* POST register.                                                             *)

(* Only the operator pinned to the name replaces its manifest, and only by    *)
(* one that is valid longer, or by the same bytes.                            *)
SameOperator(m) == manifest # None => m.operator = manifest.operator
NotOlder_Equal(m) == manifest # None => m.until >= manifest.until
NotOlder(m) == manifest # None => (m.until > manifest.until \/ m = manifest)

(* offerUpdate: a published offer is replaced only by one valid longer.       *)
OfferUpdate(o) == offer \in {None, o} \/ o.version > offer.version

OwnOffer(m, o) == o # None /\ o.auditor = m.operator

(* A listed offer is in the request or stored, and signed by the operator; an *)
(* offer that is not listed may not come along.                               *)
OffersOK(m, o) ==
    IF m.lists
    THEN /\ OwnOffer(m, IF o = None THEN offer ELSE o)
         /\ o # None => OfferUpdate(o)
    ELSE o = None

Accepted(m, o) ==
    /\ ~disabled
    /\ keyfile # 0 /\ m.statusKey = keyfile
    /\ SameOperator(m) /\ NotOlder(m)
    /\ OffersOK(m, o)

(* A request that is not accepted changes nothing but the limiter.            *)
Register(a) ==
    /\ job = Free
    /\ \/ Deny(a, RegisterCost) /\ UNCHANGED job
       \/ /\ Allow(a, RegisterCost)
          /\ \E m \in Signed, o \in Offers \cup {None} :
                IF Accepted(m, o)
                THEN job' = Registering(m, o, {"manifest"} \cup (IF o = None THEN {} ELSE {"offer"}))
                ELSE UNCHANGED job
    /\ UNCHANGED <<disk, studio, cut, crashes, faults>>

(* The files are written in any order (a Go map).                             *)
WriteFile(f) ==
    /\ job.doing = "register" /\ f \in job.todo
    /\ IF f = "manifest"
       THEN manifest' = job.manifest /\ UNCHANGED offer
       ELSE offer' = job.offer /\ UNCHANGED manifest
    /\ job' = [job EXCEPT !.todo = @ \ {f}]
    /\ UNCHANGED <<buckets, keyfile, claim, disabled, studio, cut, crashes, faults>>

(* The claim has served its purpose; the list is signed (Tenant).             *)
Registered ==
    /\ job.doing = "register" /\ job.todo = {}
    /\ claim' = None
    /\ job' = Free
    /\ cut' = FALSE
    /\ UNCHANGED <<buckets, keyfile, manifest, offer, disabled, studio, crashes, faults>>

-------------------------------------------------------------------------------
CutShort == cut' = (cut \/ job.doing = "register")

(* A write of the key or of a tree's file fails: the handler answers so.      *)
DiskError ==
    /\ faults < MaxFaults
    /\ job.doing = "mint" \/ (job.doing = "register" /\ job.todo # {})
    /\ faults' = faults + 1
    /\ job' = Free
    /\ CutShort
    /\ UNCHANGED <<buckets, disk, studio, crashes>>

(* The process dies, its limiter with it, and starts again.                   *)
Crash ==
    /\ crashes < MaxCrashes
    /\ crashes' = crashes + 1
    /\ job' = Free
    /\ Forget
    /\ CutShort
    /\ UNCHANGED <<disk, studio, faults>>

(* Disable writes its mark into the name's directory, which has to exist.     *)
Disable ==
    /\ ~disabled /\ {manifest, offer} # {None}
    /\ disabled' = TRUE
    /\ UNCHANGED <<buckets, keyfile, claim, manifest, offer, job, studio, cut, crashes, faults>>

Passes(c) == IF c = None THEN None ELSE [c EXCEPT !.left = IF @ = 0 THEN 0 ELSE @ - 1]

Tick ==
    /\ Elapse
    /\ claim' = Passes(claim)
    /\ told' = [s \in Studios |-> IF told[s] = None \/ told[s].left = 1 THEN None ELSE Passes(told[s])]
    /\ UNCHANGED <<keyfile, manifest, offer, disabled, job, minted, known, cut, crashes, faults>>

-------------------------------------------------------------------------------
Init ==
    /\ LimiterInit
    /\ keyfile = 0 /\ claim = None /\ manifest = None /\ offer = None /\ disabled = FALSE
    /\ job = Free /\ minted = 0 /\ cut = FALSE
    /\ told = [s \in Studios |-> None] /\ known = [s \in Studios |-> {}]
    /\ crashes = 0 /\ faults = 0

Next ==
    \/ \E s \in Studios : Claim(s)
    \/ \E a \in Addresses : Register(a)
    \/ StoreKey
    \/ \E stored \in BOOLEAN : StoreClaim(stored)
    \/ \E f \in {"manifest", "offer"} : WriteFile(f)
    \/ Registered
    \/ DiskError
    \/ Crash
    \/ Disable
    \/ Tick

Spec == Init /\ [][Next]_vars

-------------------------------------------------------------------------------
(* Every variable keeps its type.                                             *)
TypeOK ==
    /\ LimiterTypeOK
    /\ keyfile \in 0 .. minted /\ minted \in 0 .. MaxKeys
    /\ claim \in Claims \cup {None}
    /\ manifest \in Manifests \cup {None}
    /\ offer \in Offers \cup {None}
    /\ disabled \in BOOLEAN /\ cut \in BOOLEAN
    /\ told \in [Studios -> Answers \cup {None}]
    /\ known \in [Studios -> SUBSET (1 .. minted)]
    /\ \/ job = Free
       \/ job \in [doing : {"mint"}, by : Studios]
       \/ job \in [doing : {"claim"}, by : Studios, key : Keys]
       \/ job \in [doing : {"register"}, manifest : Manifests, offer : Offers \cup {None},
                   todo : SUBSET {"manifest", "offer"}]
    /\ crashes \in 0 .. MaxCrashes /\ faults \in 0 .. MaxFaults

(* "The first manifest pins the operator key to the name": no claim, replay,  *)
(* crash or expiry gives a registered name to another key, or to none.        *)
OneOperator ==
    [][manifest # None => manifest' # None /\ manifest'.operator = manifest.operator]_vars

(* The key the hub signs a registered auditor's list with is the one its      *)
(* manifest names, so no reader finds a list it cannot verify.                *)
KeyMatches == manifest # None => keyfile = manifest.statusKey

(* A studio that was told a key can use it for as long as it was told, unless *)
(* the name is registered meanwhile: no later claim, expiry or crash replaces *)
(* the key.  (An answer whose claim file could not be stored is not kept.)    *)
ClaimHonoured ==
    \A s \in Studios : told[s] # None /\ told[s].kept /\ manifest = None
                         => keyfile = told[s].key

(* "A replayed older one must not roll the auditor back": whatever is sent    *)
(* again, in whatever order, a manifest gives way to one valid longer only,   *)
(* and so does an offer of the registered operator.                           *)
NoRollback ==
    [][/\ manifest \notin {None, manifest'} => manifest'.until > manifest.until
       /\ manifest # None /\ offer \notin {None, offer'} => offer'.version > offer.version]_vars

(* A registered manifest lists an offer that is served and signed by the same *)
(* key, though files of another studio's registration, cut short before its   *)
(* claim expired, may lie under the name.                                     *)
OffersOwn ==
    job.doing # "register" /\ ~cut /\ manifest # None /\ manifest.lists
        => offer # None /\ offer.auditor = manifest.operator

(* The name's files fit together: the key and the manifest, a claim and the   *)
(* key that answered it, a manifest and the offers it lists.                  *)
NameSound ==
    /\ TypeOK
    /\ KeyMatches
    /\ ClaimHonoured
    /\ OffersOwn

(* A registered name stays with its operator, and its manifest and offers     *)
(* only give way to newer ones.                                               *)
Succession ==
    /\ OneOperator
    /\ NoRollback

================================================================================
