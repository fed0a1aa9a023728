--------------------------------- MODULE Seat ---------------------------------
(* The repository's own audit seat.  The auditor's documents are signed on a  *)
(* machine of its own, the desk (cmd/onym-audit, review/), and pushed to the  *)
(* server file by file (deploy/deploy.sh), where the running process serves   *)
(* them, takes orders and replies and signs the status list (server/).  The   *)
(* orders come back to the desk by another copy (console/, pullOrders).       *)
(*                                                                            *)
(* Nothing but the process's own mutex keeps any two of these apart: pushes   *)
(* and pulls go on under its feet, and a command run on the server signs the  *)
(* same list beside it.  Epochs and dates are StatusList's and Tenant's.      *)
EXTENDS Integers, FiniteSets, Sequences

CONSTANTS
    None,
    Ids,          \* attestations
    Drafts,       \* [id, ver, order]: what may be signed; order is None or one of Orders
    Orders,       \* [id, ver]: what may be posted, bytes ver under an order id
    Bodies,       \* bytes of a reply
    StatusKeys,
    Plans,        \* what a behaviour may bring up: drafts, orders, the attestations
                  \* revoked and those replied to, the keys its manifests name
    MaxInbox,
    MaxRevisions, \* bound: revocations of one attestation
    MaxTroubles   \* bound: of a crash, a failing write and a command, how many occur

(* What an order's directory holds, and what a status list says.              *)
Parts == {"order", "scope"}
Versions == {o.ver : o \in Orders}
Directories == [Parts -> Versions \cup {None}]
Entries == [att : Drafts, rev : 0 .. MaxRevisions, reply : Bodies \cup {None}]
Lists == UNION {[S -> Entries] : S \in SUBSET Ids}

ASSUME SeatAssumption ==
    /\ Ids \subseteq Nat
    /\ \A d \in Drafts : d.id \in Ids /\ d.order \in Orders \cup {None}
    /\ \A o \in Orders : o = [id |-> o.id, ver |-> o.ver]
    /\ \A p \in Plans : /\ p.drafts \subseteq Drafts /\ p.orders \subseteq Orders
                        /\ p.revoked \cup p.replied \subseteq Ids
                        /\ p.keys \in Seq(StatusKeys)
    /\ MaxInbox \in Nat /\ MaxRevisions \in Nat /\ MaxTroubles \in Nat
    /\ None \notin Bodies \cup StatusKeys \cup Orders \cup Versions \cup Drafts
    /\ None \notin Directories /\ None \notin Lists

VARIABLES
    plan,
    desk, site, \* the two copies of the tree: att, rev (how often revoked), manifest
    replies,    \* attestation -> its reply's bytes, or None; on the server only
    list,       \* the served status list: attestation -> what its entry names, or None
    hostkey,    \* the status key installed on the server, or None
    process,    \* "absent", "down", "starting" or "up"
    work,       \* what the process and the command have in hand
    inbox,      \* order id -> [order, scope], the bytes in its directory, or None
    pulled,     \* order id -> [order, scope], the desk's copy
    accepted,   \* orders answered 202
    cut,        \* order ids some request for which was cut short
    deploy,     \* files a running deploy has still to push, or None
    published, lapsed, \* manifests signed so far, and how many of them have lapsed
    troubles   \* "crash", "fault", "command": which have occurred

desks == <<desk, pulled, published>>
trees == <<site, replies, list>>
orders == <<inbox, accepted, cut>>
vars == <<plan, desk, site, replies, list, hostkey, process, work, inbox, pulled,
          accepted, cut, deploy, published, lapsed, troubles>>

-------------------------------------------------------------------------------
OrderIds == {o.id : o \in Orders}
NoParts == [p \in Parts |-> None]
Signers == {"process", "command"}

Free == [doing |-> "nothing"]
Signing(todo, found) == [doing |-> "sign", todo |-> todo, found |-> found]
Ordering(o, todo) == [doing |-> "order", order |-> o, todo |-> todo]

Trouble(t) ==
    /\ t \notin troubles /\ Cardinality(troubles) < MaxTroubles
    /\ troubles' = troubles \cup {t}

EntryOf(i) == [att |-> site.att[i], rev |-> site.rev[i], reply |-> replies[i]]
Served == {i \in Ids : site.att[i] # None}

(* ResignStatus signs under a manifest that is valid and names the key.       *)
CanSign == site.manifest # None /\ site.manifest.serial > lapsed /\ site.manifest.key = hostkey

-------------------------------------------------------------------------------
(* The desk.                                                                  *)

(* Sign refuses a commissioned attestation unless the order's scope text is   *)
(* here and hashes to the order's pin.                                        *)
OrderWhole(o) == \A p \in Parts : pulled[o.id][p] = o.ver

IdExists(i) == desk.att[i] # None

Issue(d) ==
    /\ d \in plan.drafts
    /\ ~IdExists(d.id)
    /\ d.order # None => OrderWhole(d.order)
    /\ desk' = [desk EXCEPT !.att[d.id] = d]
    /\ UNCHANGED <<plan, trees, hostkey, process, work, orders, pulled, deploy, published, lapsed, troubles>>

(* A second revocation replaces the first.                                    *)
Revoke(i) ==
    /\ i \in plan.revoked
    /\ desk.att[i] # None /\ desk.rev[i] < MaxRevisions
    /\ desk' = [desk EXCEPT !.rev[i] = @ + 1]
    /\ UNCHANGED <<plan, trees, hostkey, process, work, orders, pulled, deploy, published, lapsed, troubles>>

(* publish: the manifest names the status key that lies at hand.              *)
Publish ==
    /\ published < Len(plan.keys)
    /\ published' = published + 1
    /\ desk' = [desk EXCEPT !.manifest = [serial |-> published + 1, key |-> plan.keys[published + 1]]]
    /\ UNCHANGED <<plan, trees, hostkey, process, work, orders, pulled, deploy, lapsed, troubles>>

(* A manifest passes its validUntil, earlier ones before later ones.  (Where  *)
(* a plan renews none, none lapses.)                                          *)
Lapse ==
    /\ lapsed < published /\ Len(plan.keys) > 1
    /\ lapsed' = lapsed + 1
    /\ UNCHANGED <<plan, desks, trees, hostkey, process, work, orders, deploy, troubles>>

(* pullOrders, one file of its rsync; the server may be writing beside it.    *)
(* (Orders nobody is going to take are left where they are.)                  *)
Pull(i, p) ==
    /\ \E d \in plan.drafts : d.order # None /\ d.order.id = i
    /\ inbox[i] # None /\ inbox[i][p] # None
    /\ pulled' = [pulled EXCEPT ![i][p] = inbox[i][p]]
    /\ UNCHANGED <<plan, desk, trees, hostkey, process, work, orders, deploy, published, lapsed, troubles>>

-------------------------------------------------------------------------------
(* deploy.sh.                                                                 *)

Manifest == [kind |-> "manifest", id |-> None]
StatusFile == [kind |-> "status", id |-> None]
DeskFiles == {Manifest, StatusFile} \cup [kind : {"att"}, id : {i \in Ids : desk.att[i] # None}]
                                    \cup [kind : {"rev"}, id : {i \in Ids : desk.rev[i] > 0}]

(* The files rsync leaves to the server.                                      *)
Excluded_None == {}
Excluded == {StatusFile}

(* The key is installed unless there is one; the tree follows.                *)
Deploy ==
    /\ deploy = None /\ desk.manifest # None
    /\ hostkey' = IF hostkey = None THEN desk.manifest.key ELSE hostkey
    /\ deploy' = DeskFiles \ Excluded
    /\ UNCHANGED <<plan, desks, trees, process, work, orders, lapsed, troubles>>

(* The list the desk's own tools sign over its tree: no reply is there.       *)
DeskList == [i \in {j \in Ids : desk.att[j] # None} |->
                [att |-> desk.att[i], rev |-> desk.rev[i], reply |-> None]]

(* One file, as the desk has it now.                                          *)
Push(f) ==
    /\ deploy # None /\ f \in deploy
    /\ deploy' = deploy \ {f}
    /\ site' = CASE f.kind = "manifest" -> [site EXCEPT !.manifest = desk.manifest]
                 [] f.kind = "att" -> [site EXCEPT !.att[f.id] = desk.att[f.id]]
                 [] f.kind = "rev" -> [site EXCEPT !.rev[f.id] = desk.rev[f.id]]
                 [] f.kind = "status" -> site
    /\ list' = IF f.kind = "status" THEN DeskList ELSE list
    /\ UNCHANGED <<plan, desks, replies, hostkey, process, work, orders, lapsed, troubles>>

(* The process stops wherever it is: serve returns as soon as Shutdown has    *)
(* closed the listener, and waits for no handler.                             *)
Stop ==
    /\ process' = "down"
    /\ work' = [work EXCEPT !["process"] = Free]
    /\ cut' = cut \cup (IF work["process"].doing = "order" THEN {work["process"].order.id} ELSE {})

Restart ==
    /\ deploy = {}
    /\ deploy' = None
    /\ Stop
    /\ UNCHANGED <<plan, desks, trees, hostkey, inbox, accepted, lapsed, troubles>>

(* The connection breaks, or nginx -t fails: the restart does not follow.     *)
DeployFails ==
    /\ deploy # None
    /\ deploy' = None
    /\ UNCHANGED <<plan, desks, trees, hostkey, process, work, orders, lapsed, troubles>>

-------------------------------------------------------------------------------
(* The status list: Collect goes over the attestations in order; what it      *)
(* found is written at the end.  (Of one attestation, its revocation and its  *)
(* replies are read one after the other; here at once.)                       *)
Collecting == Signing(Served, <<>>)

Found_Remembered(i) == IF list # None /\ i \in DOMAIN list THEN list[i] ELSE EntryOf(i)
Found(i) == EntryOf(i)

NextOf(s) == CHOOSE j \in work[s].todo : \A k \in work[s].todo : j <= k

FoundWith(l, i) == [j \in DOMAIN l \cup {i} |-> IF j = i THEN Found(i) ELSE l[j]]

Collect(s) ==
    /\ work[s].doing = "sign" /\ work[s].todo # {}
    /\ LET i == NextOf(s) IN
         work' = [work EXCEPT ![s] = Signing(@.todo \ {i}, FoundWith(@.found, i))]
    /\ UNCHANGED <<plan, desks, trees, hostkey, process, orders, deploy, lapsed, troubles>>

Ended(s) ==
    /\ work' = [work EXCEPT ![s] = Free]
    /\ UNCHANGED <<plan, desks, site, replies, hostkey, orders, deploy, lapsed>>

WriteList(s) ==
    /\ work[s].doing = "sign" /\ work[s].todo = {}
    /\ list' = work[s].found
    /\ process' = IF s = "process" THEN "up" ELSE process
    /\ Ended(s) /\ UNCHANGED troubles

(* The list cannot be written: logged, but New refuses to start.              *)
WriteListFails(s) ==
    /\ work[s].doing = "sign" /\ work[s].todo = {}
    /\ Trouble("fault")
    /\ process' = IF s = "process" /\ process = "starting" THEN "down" ELSE process
    /\ Ended(s) /\ UNCHANGED list

-------------------------------------------------------------------------------
(* The process.  systemd starts it again whenever it is down; New signs the   *)
(* list once before anything is served; a process that cannot does not start. *)
Start ==
    /\ process = "down"
    /\ CanSign
    /\ process' = "starting"
    /\ work' = [work EXCEPT !["process"] = Collecting]
    /\ UNCHANGED <<plan, desks, trees, hostkey, orders, deploy, lapsed, troubles>>

Idle == process = "up" /\ work["process"] = Free

(* Loop, and the signal that reloads.                                         *)
Resign ==
    /\ Idle /\ CanSign
    /\ work' = [work EXCEPT !["process"] = Collecting]
    /\ UNCHANGED <<plan, desks, trees, hostkey, process, orders, deploy, lapsed, troubles>>

SameBytes_Any(i, b) == TRUE
SameBytes(i, b) == replies[i] \in {None, b}

(* POST responses: stored for good, then the list is signed, if it can be.    *)
PostResponse(i, b) ==
    /\ Idle
    /\ i \in plan.replied /\ site.att[i] # None /\ SameBytes(i, b)
    /\ replies' = [replies EXCEPT ![i] = b]
    /\ work' = IF CanSign THEN [work EXCEPT !["process"] = Collecting] ELSE work
    /\ UNCHANGED <<plan, desks, site, list, hostkey, process, orders, deploy, lapsed, troubles>>

(* POST orders: first come, first served under an id.                         *)
Queued_Same(o) == inbox[o.id] # None /\ inbox[o.id]["order"] = o.ver
Queued(o) == inbox[o.id] # None /\ inbox[o.id]["order"] # None

InboxFull == Cardinality({i \in OrderIds : inbox[i] # None}) >= MaxInbox

PostOrder(o) ==
    /\ Idle /\ o \in plan.orders
    /\ ~InboxFull
    /\ \/ /\ Queued(o) /\ inbox[o.id]["order"] = o.ver
          /\ accepted' = accepted \cup {o}
          /\ UNCHANGED work
       \/ /\ ~Queued(o)
          /\ work' = [work EXCEPT !["process"] = Ordering(o, Parts)]
          /\ UNCHANGED accepted
    /\ UNCHANGED <<plan, desks, trees, hostkey, process, inbox, cut, deploy, lapsed, troubles>>

InDirectory(i) == IF inbox[i] = None THEN NoParts ELSE inbox[i]

(* The files of an order are written in any order (a Go map).                 *)
WriteOrder(p) ==
    /\ work["process"].doing = "order" /\ p \in work["process"].todo
    /\ LET o == work["process"].order IN
         inbox' = [inbox EXCEPT ![o.id] = [InDirectory(o.id) EXCEPT ![p] = o.ver]]
    /\ work' = [work EXCEPT !["process"].todo = @ \ {p}]
    /\ UNCHANGED <<plan, desks, trees, hostkey, process, accepted, cut, deploy, lapsed, troubles>>

(* A write fails; the order's directory may be there already.                 *)
WriteOrderFails ==
    /\ work["process"].doing = "order" /\ work["process"].todo # {}
    /\ Trouble("fault")
    /\ LET i == work["process"].order.id IN
         /\ inbox' \in {inbox, [inbox EXCEPT ![i] = InDirectory(i)]}
         /\ cut' = cut \cup {i}
    /\ work' = [work EXCEPT !["process"] = Free]
    /\ UNCHANGED <<plan, desks, trees, hostkey, process, accepted, deploy, lapsed>>

Accept ==
    /\ work["process"].doing = "order" /\ work["process"].todo = {}
    /\ accepted' = accepted \cup {work["process"].order}
    /\ work' = [work EXCEPT !["process"] = Free]
    /\ UNCHANGED <<plan, desks, trees, hostkey, process, inbox, cut, deploy, lapsed, troubles>>

Crash ==
    /\ Trouble("crash") /\ process \in {"starting", "up"}
    /\ Stop
    /\ UNCHANGED <<plan, desks, trees, hostkey, inbox, accepted, deploy, lapsed>>

(* The status command, run on the server: the same list, without the mutex.   *)
StatusCommand ==
    /\ Trouble("command") /\ work["command"] = Free /\ CanSign
    /\ work' = [work EXCEPT !["command"] = Collecting]
    /\ UNCHANGED <<plan, desks, trees, hostkey, process, orders, deploy, lapsed>>

-------------------------------------------------------------------------------
EmptyTree == [att |-> [i \in Ids |-> None], rev |-> [i \in Ids |-> 0], manifest |-> None]

(* A desk with nothing on it yet, and a host with nothing installed.          *)
Init ==
    /\ plan \in Plans
    /\ desk = EmptyTree /\ site = EmptyTree
    /\ replies = [i \in Ids |-> None] /\ list = None
    /\ hostkey = None /\ process = "absent"
    /\ work = [s \in Signers |-> Free]
    /\ inbox = [i \in OrderIds |-> None] /\ pulled = [i \in OrderIds |-> NoParts]
    /\ accepted = {} /\ cut = {} /\ deploy = None
    /\ published = 0 /\ lapsed = 0
    /\ troubles = {}

ServerStep ==
    \/ Start \/ Resign
    \/ Collect("process") \/ WriteList("process")
    \/ \E p \in Parts : WriteOrder(p)
    \/ Accept

Next ==
    \/ \E d \in Drafts : Issue(d)
    \/ \E i \in Ids : Revoke(i)
    \/ Publish \/ Lapse
    \/ \E i \in OrderIds, p \in Parts : Pull(i, p)
    \/ Deploy \/ Restart \/ DeployFails
    \/ \E f \in DeskFiles : Push(f)
    \/ ServerStep
    \/ \E i \in Ids, b \in Bodies : PostResponse(i, b)
    \/ \E o \in Orders : PostOrder(o)
    \/ WriteOrderFails
    \/ \E s \in Signers : WriteListFails(s)
    \/ StatusCommand \/ Collect("command") \/ WriteList("command")
    \/ Crash

Spec == Init /\ [][Next]_vars

(* systemd starts what is down, what runs goes on, and the ticker of Loop     *)
(* gets the mutex in the end; nothing makes the operator deploy.              *)
FairSpec == Spec /\ WF_vars(ServerStep) /\ WF_vars(Resign)

-------------------------------------------------------------------------------
Manifests == [serial : 1 .. published, key : StatusKeys] \cup {None}
Trees == [att : [Ids -> Drafts \cup {None}], rev : [Ids -> 0 .. MaxRevisions], manifest : Manifests]
Signings == [doing : {"sign"}, todo : SUBSET Ids, found : Lists]
Orderings == [doing : {"order"}, order : Orders, todo : SUBSET Parts]

(* Every variable keeps its type.                                             *)
TypeOK ==
    /\ desk \in Trees /\ site \in Trees /\ lapsed \in 0 .. published
    /\ replies \in [Ids -> Bodies \cup {None}]
    /\ list \in Lists \cup {None}
    /\ hostkey \in StatusKeys \cup {None}
    /\ process \in {"absent", "down", "starting", "up"}
    /\ work \in [Signers -> {Free} \cup Signings \cup Orderings]
    /\ inbox \in [OrderIds -> Directories \cup {None}]
    /\ Cardinality({i \in OrderIds : inbox[i] # None}) <= MaxInbox
    /\ pulled \in [OrderIds -> Directories]
    /\ accepted \subseteq Orders /\ cut \subseteq OrderIds

(* The list names only what the server serves: no attestation, revocation or  *)
(* reply is vouched for before its file is there, whatever is pushed meanwhile*)
(* and whoever signs.                                                         *)
ListBacked ==
    list # None =>
        \A i \in DOMAIN list :
            /\ list[i].att = site.att[i]
            /\ list[i].rev <= site.rev[i]
            /\ list[i].reply \in {None, replies[i]}

(* What one list names, the next one names too: no push, retry, crash or      *)
(* restart takes an attestation, a revocation or a reply off the list.  (Not  *)
(* so when a command signs beside the process: see Recovers.)            *)
ListOnlyGrows ==
    []["command" \notin troubles' /\ list # None =>
        /\ list' # None /\ DOMAIN list \subseteq DOMAIN list'
        /\ \A i \in DOMAIN list : /\ list'[i].att = list[i].att
                                  /\ list'[i].rev >= list[i].rev
                                  /\ list[i].reply \in {None, list'[i].reply}]_vars

(* "Attestations are immutable", "responses are immutable": once served,      *)
(* neither changes, through two copies of the tree and whoever writes.        *)
NothingLost ==
    [][\A i \in Ids : /\ site.att[i] \in {None, site'.att[i]}
                      /\ site'.rev[i] >= site.rev[i]
                      /\ replies[i] \in {None, replies'[i]}]_vars

(* An order answered 202 stays as it was answered, with its scope text unless *)
(* a request for its id was cut short.                                        *)
AcceptedKept ==
    \A o \in accepted :
        /\ inbox[o.id] # None /\ inbox[o.id]["order"] = o.ver
        /\ o.id \notin cut => inbox[o.id]["scope"] = o.ver

(* The auditor never countersigns two orders of one id, though pulls may be   *)
(* torn and the server may have lost half of a request.                       *)
OneOrderPerId ==
    LET taken == {desk.att[i].order : i \in {j \in Ids : desk.att[j] # None}} \ {None}
    IN  \A o, p \in taken : o.id = p.id => o = p

(* The operator does not deploy for ever: each deploy restarts the process,   *)
(* perhaps while it still starts.                                             *)
Settles == <>[](deploy = None)

(* Whatever is deployed gets on the list, though the deploy failed before its *)
(* restart, a crash cut the signing, or a command overwrote the list with an  *)
(* older one; except while the manifest has lapsed or names another key.      *)
DeployedShows ==
    Settles => \A i \in Ids :
        site.att[i] # None ~> \/ list # None /\ i \in DOMAIN list /\ list[i] = EntryOf(i)
                             \/ process = "absent" \/ ~CanSign

(* A process that stopped, at a deploy or by itself, is soon up again, though *)
(* a write of its first list may fail; unless it cannot sign.                 *)
ServerReturns == Settles => (process = "down" ~> process = "up" \/ ~CanSign)

(* What the list names is served or was, answered orders are kept, and one    *)
(* order of an id is ever answered or commissioned.                           *)
SeatSound ==
    /\ TypeOK
    /\ ListBacked
    /\ AcceptedKept
    /\ OneOrderPerId

(* After the last deploy the process is up and what was deployed is on its    *)
(* list, whatever failed before.                                              *)
Recovers ==
    /\ DeployedShows
    /\ ServerReturns

================================================================================
