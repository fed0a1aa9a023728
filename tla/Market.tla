-------------------------------- MODULE Market --------------------------------
(* Requests for proposals and orders across the auditors of the hub           *)
(* (hub/requests.go, hub/orders.go): an orderer posts a request, auditors     *)
(* answer it with offers, the orderer orders under one of them, which closes  *)
(* the request, and the auditor takes or declines the order.                  *)
(*                                                                            *)
(* Handlers of one auditor exclude each other by the tenant's lock; those of  *)
(* two auditors share the request's files without one, and an answer looks at *)
(* the request before it takes its lock.  An order is three files and its     *)
(* removal three deletions; a crash or a failing write leaves some of them.   *)
EXTENDS Integers, FiniteSets

CONSTANTS
    None,
    Slugs,      \* auditors
    Requests,   \* signed requests: [id, to, key, want, until]
    Offers,     \* offers made for requests: [terms, until]
    Orders,     \* signed orders: [id, slug, req, key, want, terms]
    MaxOpen,    \* requests open at once (MaxOpenRequests)
    MaxInbox,   \* orders queued per auditor
    MaxTime,    \* bound: the clock stops here
    MaxAsking,  \* bound: answers that wait for a lock at once
    MaxCrashes, MaxFaults \* bounds: crashes, and failing writes

ReqIds == {q.id : q \in Requests}
OrderIds == {o.id : o \in Orders}

(* The files of an order's directory; each is there with an order's bytes or  *)
(* not there.                                                                 *)
Parts == {"order.json", "scope.md", "meta.json"}
Directories == [Parts -> Orders \cup {None}]

ASSUME MarketAssumption ==
    /\ \A q \in Requests : q.to \in Slugs \cup {None} /\ q.until \in Nat
    /\ \A f \in Offers : f.until \in Nat
    /\ \A o \in Orders : o.slug \in Slugs /\ o.req \in ReqIds \cup {None}
    /\ {MaxOpen, MaxInbox, MaxTime, MaxAsking, MaxCrashes, MaxFaults} \subseteq Nat
    /\ None \notin Requests \cup Offers \cup Orders \cup Slugs \cup ReqIds \cup Directories

VARIABLES
    now,
    request,   \* id -> the stored request, or None
    closed,    \* ids with a .closed file
    responses, \* id -> the auditors listed in its .responses
    offer,     \* auditor -> request id -> its offers/rsp- file, or None
    inbox,     \* auditor -> order id -> its directory, or None
    done,      \* auditor -> ids of the orders published or held
    asking,    \* answers that found the request open and wait for the lock
    job,       \* auditor -> the handler that holds its lock
    accepted,  \* orders answered 202 and neither taken nor declined since
    crashes, faults

vars == <<now, request, closed, responses, offer, inbox, done, asking, job,
          accepted, crashes, faults>>

-------------------------------------------------------------------------------
EmptyDir == [p \in Parts |-> None]

(* Queued: what the auditor is shown, a directory with all three files.       *)
Queued(s) == {i \in OrderIds : /\ inbox[s][i] # None
                               /\ \A p \in Parts : inbox[s][i][p] # None}
QueuedOrder(s, i) == IF inbox[s][i] = None THEN None ELSE inbox[s][i]["order.json"]

Open(i) == request[i] # None /\ now < request[i].until /\ i \notin closed
OpenRequests == {i \in ReqIds : Open(i)}

NoJob == [op |-> "none", order |-> None, req |-> None, todo |-> {}]
Job(op, o, todo) == [op |-> op, order |-> o, req |-> o.req, todo |-> todo]
Unlocked(s) == job[s] = NoJob

Init == /\ now = 0
        /\ request = [i \in ReqIds |-> None]
        /\ closed = {}
        /\ responses = [i \in ReqIds |-> {}]
        /\ offer = [s \in Slugs |-> [i \in ReqIds |-> None]]
        /\ inbox = [s \in Slugs |-> [i \in OrderIds |-> None]]
        /\ done = [s \in Slugs |-> {}]
        /\ asking = {}
        /\ job = [s \in Slugs |-> NoJob]
        /\ accepted = {}
        /\ crashes = 0 /\ faults = 0

-------------------------------------------------------------------------------
(* Requests and answers.                                                      *)

(* Under the hub's own lock.                                                  *)
PostRequest(q) ==
    /\ request[q.id] = None
    /\ now < q.until
    /\ Cardinality(OpenRequests) < MaxOpen
    /\ request' = [request EXCEPT ![q.id] = q]
    /\ UNCHANGED <<now, closed, responses, offer, inbox, done, asking, job,
                   accepted, crashes, faults>>

(* An answer finds the request open, before it waits for the tenant's lock.   *)
Ask(s, i, f) ==
    /\ Open(i) /\ Cardinality(asking) < MaxAsking
    /\ asking' = asking \cup {[slug |-> s, req |-> i, offer |-> f]}
    /\ UNCHANGED <<now, request, closed, responses, offer, inbox, done, job,
                   accepted, crashes, faults>>

(* offerUpdate: not expired, and valid longer than another one it replaces.   *)
OfferUpdate(s, i, f) ==
    /\ now < f.until
    /\ offer[s][i] \notin {None, f} => f.until > offer[s][i].until

AnswerAllowed(s, i, f) ==
    /\ request[i].to \in {None, s}
    /\ OfferUpdate(s, i, f)

Forget(a) == asking' = asking \ {a}

(* Mutant: listed first, then written.                                        *)
Respond_ListFirst(a) ==
    /\ Unlocked(a.slug)
    /\ AnswerAllowed(a.slug, a.req, a.offer)
    /\ responses' = [responses EXCEPT ![a.req] = @ \cup {a.slug}]
    /\ offer' \in {offer, [offer EXCEPT ![a.slug][a.req] = a.offer]}
    /\ Forget(a)
    /\ UNCHANGED <<now, request, closed, inbox, done, job, accepted, crashes, faults>>

(* The offer is written into the auditor's tree, then listed.                 *)
Respond(a) ==
    /\ Unlocked(a.slug)
    /\ AnswerAllowed(a.slug, a.req, a.offer)
    /\ offer' = [offer EXCEPT ![a.slug][a.req] = a.offer]
    /\ job' = [job EXCEPT ![a.slug] = [NoJob EXCEPT !.op = "respond", !.req = a.req]]
    /\ Forget(a)
    /\ UNCHANGED <<now, request, closed, responses, inbox, done, accepted, crashes, faults>>

(* Refused, or the offer could not be written.                                *)
RespondFails(a) ==
    /\ Unlocked(a.slug)
    /\ \/ ~AnswerAllowed(a.slug, a.req, a.offer) /\ UNCHANGED faults
       \/ faults < MaxFaults /\ faults' = faults + 1
    /\ Forget(a)
    /\ UNCHANGED <<now, request, closed, responses, offer, inbox, done, job,
                   accepted, crashes>>

(* The error of this write is not looked at.                                  *)
ListResponse(s) ==
    /\ job[s].op = "respond"
    /\ job' = [job EXCEPT ![s] = NoJob]
    /\ \/ /\ responses' = [responses EXCEPT ![job[s].req] = @ \cup {s}]
          /\ UNCHANGED faults
       \/ /\ faults < MaxFaults /\ faults' = faults + 1
          /\ UNCHANGED responses
    /\ UNCHANGED <<now, request, closed, offer, inbox, done, asking, accepted, crashes>>

-------------------------------------------------------------------------------
(* Orders.                                                                    *)

TakesOffer_AnyKey(o) == \* mutant: anyone may order under an answer
    o.req # None =>
        /\ Open(o.req)
        /\ offer[o.slug][o.req] # None
        /\ now < offer[o.slug][o.req].until
        /\ o.terms = offer[o.slug][o.req].terms
        /\ o.want = request[o.req].want

(* An offer listed in the manifest (req = None) is the tenant's affair; one   *)
(* made for a request stands while the request is open, for its author and    *)
(* for what it asked.                                                         *)
TakesOffer(o) ==
    o.req # None =>
        /\ Open(o.req)
        /\ offer[o.slug][o.req] # None
        /\ now < offer[o.slug][o.req].until
        /\ o.terms = offer[o.slug][o.req].terms
        /\ o.key = request[o.req].key
        /\ o.want = request[o.req].want

Dirs(s) == {i \in OrderIds : inbox[s][i] # None}

(* The same order again is accepted again, without a look at its other files. *)
PostOrder(o) ==
    LET s == o.slug IN
    /\ Unlocked(s) /\ TakesOffer(o) /\ o.id \notin done[s]
    /\ QueuedOrder(s, o.id) \in {None, o}
    /\ IF QueuedOrder(s, o.id) = o
       THEN /\ job' = [job EXCEPT ![s] = Job("order", o, {})]
            /\ UNCHANGED inbox
       ELSE /\ Cardinality(Dirs(s)) < MaxInbox
            /\ job' = [job EXCEPT ![s] = Job("order", o, Parts)]
            /\ inbox' = [inbox EXCEPT ![s][o.id] = IF @ = None THEN EmptyDir ELSE @]
    /\ UNCHANGED <<now, request, closed, responses, offer, done, asking, accepted,
                   crashes, faults>>

WritePart(s, p) ==
    /\ job[s].op = "order" /\ p \in job[s].todo
    /\ inbox' = [inbox EXCEPT ![s][job[s].order.id][p] = job[s].order]
    /\ job' = [job EXCEPT ![s].todo = @ \ {p}]
    /\ UNCHANGED <<now, request, closed, responses, offer, done, asking, accepted,
                   crashes, faults>>

CloseRequest_First(s) == \* mutant: closed and answered before it is written
    /\ job[s].op = "order"
    /\ closed' = closed \cup ({job[s].req} \ {None})
    /\ accepted' = accepted \cup {job[s].order}
    /\ job' = [job EXCEPT ![s] = NoJob]
    /\ UNCHANGED <<now, request, responses, offer, inbox, done, asking, crashes, faults>>

(* The request is closed and the order answered; the error of writing .closed *)
(* is not looked at.                                                          *)
CloseRequest(s) ==
    /\ job[s].op = "order" /\ job[s].todo = {}
    /\ \/ closed' = closed \cup ({job[s].req} \ {None}) /\ UNCHANGED faults
       \/ job[s].req # None /\ faults < MaxFaults /\ faults' = faults + 1 /\ UNCHANGED closed
    /\ accepted' = accepted \cup {job[s].order}
    /\ job' = [job EXCEPT ![s] = NoJob]
    /\ UNCHANGED <<now, request, responses, offer, inbox, done, asking, crashes>>

(* The auditor publishes (or holds) the attestation of an order it was shown: *)
(* Tenant's Publish and Hold, seen from here.  Then the directory goes.       *)
Take(s, i) ==
    /\ Unlocked(s) /\ i \in Queued(s)
    /\ done' = [done EXCEPT ![s] = @ \cup {i}]
    /\ job' = [job EXCEPT ![s] = Job("remove", QueuedOrder(s, i), Parts)]
    /\ accepted' = {o \in accepted : <<o.slug, o.id>> # <<s, i>>}
    /\ UNCHANGED <<now, request, closed, responses, offer, inbox, asking, crashes, faults>>

Decline(s, i) ==
    /\ Unlocked(s) /\ i \in Queued(s)
    /\ job' = [job EXCEPT ![s] = Job("remove", QueuedOrder(s, i), Parts)]
    /\ accepted' = {o \in accepted : <<o.slug, o.id>> # <<s, i>>}
    /\ UNCHANGED <<now, request, closed, responses, offer, inbox, done, asking,
                   crashes, faults>>

(* RemoveAll: the files one by one, then the directory.                       *)
RemovePart(s, p) ==
    /\ job[s].op = "remove" /\ p \in job[s].todo
    /\ inbox' = [inbox EXCEPT ![s][job[s].order.id][p] = None]
    /\ job' = [job EXCEPT ![s].todo = @ \ {p}]
    /\ UNCHANGED <<now, request, closed, responses, offer, done, asking, accepted,
                   crashes, faults>>

Removed(s) ==
    /\ job[s].op = "remove" /\ job[s].todo = {}
    /\ inbox' = [inbox EXCEPT ![s][job[s].order.id] = None]
    /\ job' = [job EXCEPT ![s] = NoJob]
    /\ UNCHANGED <<now, request, closed, responses, offer, done, asking, accepted,
                   crashes, faults>>

-------------------------------------------------------------------------------
(* A write of an order fails: 500, with what is there; a deletion fails: the  *)
(* error is not looked at.                                                    *)
DiskError(s) ==
    /\ faults < MaxFaults /\ faults' = faults + 1
    /\ job[s].op \in {"order", "remove"} /\ job[s].todo # {}
    /\ job' = [job EXCEPT ![s] = NoJob]
    /\ UNCHANGED <<now, request, closed, responses, offer, inbox, done, asking,
                   accepted, crashes>>

Crash ==
    /\ crashes < MaxCrashes /\ crashes' = crashes + 1
    /\ job' = [s \in Slugs |-> NoJob]
    /\ asking' = {}
    /\ UNCHANGED <<now, request, closed, responses, offer, inbox, done, accepted, faults>>

Tick ==
    /\ now < MaxTime /\ now' = now + 1
    /\ UNCHANGED <<request, closed, responses, offer, inbox, done, asking, job,
                   accepted, crashes, faults>>

Next ==
    \/ \E q \in Requests : PostRequest(q)
    \/ \E s \in Slugs, i \in ReqIds, f \in Offers : Ask(s, i, f)
    \/ \E a \in asking : Respond(a) \/ RespondFails(a)
    \/ \E s \in Slugs : ListResponse(s)
    \/ \E o \in Orders : PostOrder(o)
    \/ \E s \in Slugs, p \in Parts : WritePart(s, p) \/ RemovePart(s, p)
    \/ \E s \in Slugs : CloseRequest(s) \/ Removed(s)
    \/ \E s \in Slugs, i \in OrderIds : Take(s, i) \/ Decline(s, i)
    \/ \E s \in Slugs : DiskError(s)
    \/ Crash
    \/ Tick

Spec == Init /\ [][Next]_vars

-------------------------------------------------------------------------------
(* Properties.                                                                *)

(* Every variable has its type; nothing stored or queued is filed under       *)
(* another id, and a handler that queues or removes an order of its auditor   *)
(* has its directory.                                                         *)
TypeOK ==
    /\ now \in Nat /\ crashes \in Nat /\ faults \in Nat
    /\ \A i \in ReqIds : request[i] \in {q \in Requests : q.id = i} \cup {None}
    /\ closed \subseteq ReqIds
    /\ responses \in [ReqIds -> SUBSET Slugs]
    /\ offer \in [Slugs -> [ReqIds -> Offers \cup {None}]]
    /\ \A s \in Slugs, i \in OrderIds :
          inbox[s][i] \in {None} \cup
              [Parts -> {o \in Orders : o.slug = s /\ o.id = i} \cup {None}]
    /\ done \in [Slugs -> SUBSET OrderIds]
    /\ asking \subseteq [slug : Slugs, req : ReqIds, offer : Offers]
    /\ \A s \in Slugs :
          /\ job[s].op \in {"none", "respond", "order", "remove"}
          /\ job[s].todo \subseteq Parts
          /\ job[s].req \in ReqIds \cup {None}
          /\ job[s].op \in {"order", "remove"} =>
                /\ job[s].order \in Orders /\ job[s].order.slug = s
                /\ inbox[s][job[s].order.id] # None
    /\ accepted \subseteq Orders

(* The hub never holds more open requests than its cap, although closing a    *)
(* request takes another lock than posting one (postRequest, closeRequest).   *)
RequestCap == Cardinality(OpenRequests) <= MaxOpen

(* An auditor listed among a request's responses has an offer for it, and may *)
(* answer it: a crash between the two writes never leaves a listed response   *)
(* with nothing behind it (respond).                                          *)
ResponsesBacked ==
    \A i \in ReqIds : \A s \in responses[i] :
        offer[s][i] # None /\ request[i] # None /\ request[i].to \in {None, s}

(* "nobody else can order under the answers": a request is closed only when   *)
(* an order for what it asks, by its own author, lies in a queue (postOrder,  *)
(* closeRequest).                                                             *)
ClosedByOrder ==
    [][\A i \in closed' \ closed : \E o \in Orders :
          /\ o.req = i /\ o.key = request[i].key /\ o.want = request[i].want
          /\ QueuedOrder(o.slug, o.id) = o]_vars

(* What the hub accepted stays in the queue until the auditor takes or        *)
(* declines it, whatever is posted under its id and whatever fails.           *)
AcceptedKept == \A o \in accepted : QueuedOrder(o.slug, o.id) = o

(* As long as nothing fails, an auditor is shown every order the hub          *)
(* accepted, each with its own scope and contact.                             *)
QueuedWhole ==
    crashes = 0 /\ faults = 0 =>
        /\ \A o \in accepted : o.id \in Queued(o.slug)
        /\ \A s \in Slugs : Unlocked(s) => \A i \in Queued(s), p \in Parts :
              inbox[s][i][p] = QueuedOrder(s, i)

(* The market's records have their types, requests are within the cap and     *)
(* every answer listed is backed by a document.                               *)
RequestsSound ==
    /\ TypeOK
    /\ RequestCap
    /\ ResponsesBacked

(* An order answered 202 stays as it was posted until it is taken or          *)
(* declined, and without failures the auditor is shown the whole of it.       *)
OrdersKept ==
    /\ AcceptedKept
    /\ QueuedWhole

================================================================================
