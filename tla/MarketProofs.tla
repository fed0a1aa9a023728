----------------------------- MODULE MarketProofs -----------------------------
(* What Market promises for any number of auditors, requests and orders, and  *)
(* any number of crashes and failing writes.  The strengthening says what a   *)
(* handler that holds an auditor's lock has done so far, and what is in an    *)
(* order's directory while nothing has failed.                                *)
EXTENDS Market, FiniteSetTheorems, TLAPS

Filed(s, i) == {o \in Orders : o.slug = s /\ o.id = i}
Slots(s, i) == {None} \cup [Parts -> Filed(s, i) \cup {None}]
Jobs == [op : {"none", "respond", "order", "remove"}, order : Orders \cup {None},
         req : ReqIds \cup {None}, todo : SUBSET Parts]

(* The types of a request's files, and of an order's with its handler.        *)
RequestTypes ==
    /\ now \in Nat /\ crashes \in Nat /\ faults \in Nat
    /\ request \in [ReqIds -> Requests \cup {None}]
    /\ \A i \in ReqIds : request[i] # None => request[i].id = i
    /\ closed \subseteq ReqIds
    /\ responses \in [ReqIds -> SUBSET Slugs]
    /\ offer \in [Slugs -> [ReqIds -> Offers \cup {None}]]
    /\ done \in [Slugs -> SUBSET OrderIds]
    /\ asking \subseteq [slug : Slugs, req : ReqIds, offer : Offers]
    /\ accepted \subseteq Orders

QueueTypes ==
    /\ inbox \in [Slugs -> [OrderIds -> Directories \cup {None}]]
    /\ \A s \in Slugs, i \in OrderIds : inbox[s][i] \in Slots(s, i)
    /\ job \in [Slugs -> Jobs]
    /\ \A s \in Slugs : job[s].op \in {"order", "remove"} =>
          /\ job[s].order \in Orders /\ job[s].order.slug = s
          /\ inbox[s][job[s].order.id] # None

(* An answer that waits, or has its offer written, is to a request there is.  *)
AnswersSafe ==
    /\ \A a \in asking : request[a.req] # None
    /\ \A s \in Slugs : job[s].op = "respond" =>
          LET i == job[s].req IN
          /\ i \in ReqIds /\ offer[s][i] # None
          /\ request[i] # None /\ request[i].to \in {None, s}

(* An order being stored is its request's author's, and has no order of its   *)
(* id before it; one being removed is owed to nobody.                         *)
JobSafe(s) ==
    LET j == job[s] IN
    /\ j.op = "order" =>
          /\ j.req = j.order.req
          /\ j.req # None => /\ request[j.req] # None
                             /\ j.order.key = request[j.req].key
                             /\ j.order.want = request[j.req].want
          /\ inbox[s][j.order.id]["order.json"] =
                IF "order.json" \in j.todo THEN None ELSE j.order
          /\ j.todo # {} => \A a \in accepted : a.slug = s => a.id # j.order.id
    /\ j.op = "remove" => \A a \in accepted : a.slug = s => a.id # j.order.id

JobsSafe == \A s \in Slugs : JobSafe(s)

(* While nothing failed, a directory is that of an order in flight, that of   *)
(* one being removed, or whole.                                               *)
WholeDir(d) == \E o \in Orders : \A p \in Parts : d[p] = o

DirSafe(s, i) ==
    inbox[s][i] # None =>
        \/ job[s].op = "remove" /\ job[s].order.id = i
        \/ /\ job[s].op = "order" /\ job[s].order.id = i
           /\ \A p \in Parts :
                 inbox[s][i][p] = IF p \in job[s].todo THEN None ELSE job[s].order
        \/ WholeDir(inbox[s][i])

Quiet == crashes = 0 /\ faults = 0

DirsSafe == Quiet => \A s \in Slugs, i \in OrderIds : DirSafe(s, i)

CapSafe == IsFiniteSet(OpenRequests) /\ RequestCap

Types == RequestTypes /\ QueueTypes
AnswerInv == ResponsesBacked /\ AnswersSafe
OrderInv == AcceptedKept /\ JobsSafe /\ DirsSafe
IInv == Types /\ CapSafe /\ AnswerInv /\ OrderInv

-------------------------------------------------------------------------------
LEMMA ConstantFacts ==
    /\ None \notin Requests /\ None \notin Offers /\ None \notin Orders
    /\ None \notin Slugs /\ None \notin ReqIds /\ None \notin Directories
    /\ \A q \in Requests : q.id \in ReqIds
    /\ \A o \in Orders : o.slug \in Slugs /\ o.id \in OrderIds /\ o.req \in ReqIds \cup {None}
    /\ MaxOpen \in Nat
BY MarketAssumption DEF ReqIds, OrderIds

LEMMA SlotFacts ==
    ASSUME NEW s \in Slugs, NEW i \in OrderIds, NEW d \in Slots(s, i), d # None
    PROVE  /\ d \in Directories /\ d \in [Parts -> Filed(s, i) \cup {None}]
           /\ \A p \in Parts : d[p] # None => d[p] \in Orders /\ d[p].slug = s /\ d[p].id = i
BY DEF Slots, Directories, Filed

LEMMA TypesAreTypeOK == Types => TypeOK
<1> SUFFICES ASSUME Types PROVE TypeOK OBVIOUS
<1>1. \A i \in ReqIds : request[i] \in {q \in Requests : q.id = i} \cup {None}
  BY DEF Types, RequestTypes
<1>2. \A s \in Slugs, i \in OrderIds :
         inbox[s][i] \in {None} \cup [Parts -> {o \in Orders : o.slug = s /\ o.id = i} \cup {None}]
  BY DEF Types, QueueTypes, Slots, Filed
<1>3. \A s \in Slugs :
          /\ job[s].op \in {"none", "respond", "order", "remove"}
          /\ job[s].todo \subseteq Parts
          /\ job[s].req \in ReqIds \cup {None}
          /\ job[s].op \in {"order", "remove"} =>
                /\ job[s].order \in Orders /\ job[s].order.slug = s
                /\ inbox[s][job[s].order.id] # None
  BY DEF Types, QueueTypes, Jobs
<1> QED BY <1>1, <1>2, <1>3 DEF Types, RequestTypes, TypeOK

LEMMA EmptyDirIs == EmptyDir \in Directories /\ \A p \in Parts : EmptyDir[p] = None
BY DEF EmptyDir, Directories

LEMMA NoJobIs == NoJob \in Jobs /\ NoJob.op = "none" /\ NoJob.todo = {}
BY DEF NoJob, Jobs

LEMMA JobIs ==
    ASSUME NEW op \in {"order", "remove"}, NEW o \in Orders, NEW todo \in SUBSET Parts
    PROVE  /\ Job(op, o, todo) \in Jobs
           /\ Job(op, o, todo).op = op /\ Job(op, o, todo).order = o
           /\ Job(op, o, todo).req = o.req /\ Job(op, o, todo).todo = todo
BY ConstantFacts DEF Job, Jobs

(* A directory replaced, and a file in one.                                   *)
Puts(s, i, p, v) == inbox' = [inbox EXCEPT ![s][i][p] = v]

LEMMA SlotSet ==
    ASSUME QueueTypes, NEW s \in Slugs, NEW i \in OrderIds,
           NEW d \in Slots(s, i), d \in Directories \cup {None},
           inbox' = [inbox EXCEPT ![s][i] = d]
    PROVE  /\ inbox' \in [Slugs -> [OrderIds -> Directories \cup {None}]]
           /\ inbox'[s][i] = d
           /\ \A t \in Slugs, j \in OrderIds : t # s \/ j # i => inbox'[t][j] = inbox[t][j]
           /\ \A t \in Slugs, j \in OrderIds : inbox'[t][j] \in Slots(t, j)
<1> USE DEF QueueTypes
<1>1. inbox[s] \in [OrderIds -> Directories \cup {None}] OBVIOUS
<1>2. [inbox[s] EXCEPT ![i] = d] \in [OrderIds -> Directories \cup {None}] BY <1>1
<1>3. inbox' = [inbox EXCEPT ![s] = [inbox[s] EXCEPT ![i] = d]] OBVIOUS
<1>4. inbox' \in [Slugs -> [OrderIds -> Directories \cup {None}]] BY <1>2, <1>3
<1>5. inbox'[s][i] = d BY <1>1, <1>3
<1>6. \A t \in Slugs, j \in OrderIds : t # s \/ j # i => inbox'[t][j] = inbox[t][j]
  BY <1>1, <1>3
<1> QED BY <1>4, <1>5, <1>6

LEMMA PartSet ==
    ASSUME QueueTypes, NEW s \in Slugs, NEW i \in OrderIds, NEW p \in Parts,
           NEW v \in Filed(s, i) \cup {None}, inbox[s][i] # None, Puts(s, i, p, v)
    PROVE  /\ inbox' \in [Slugs -> [OrderIds -> Directories \cup {None}]]
           /\ inbox'[s][i] # None /\ inbox'[s][i][p] = v
           /\ \A q \in Parts \ {p} : inbox'[s][i][q] = inbox[s][i][q]
           /\ \A t \in Slugs, j \in OrderIds : t # s \/ j # i => inbox'[t][j] = inbox[t][j]
           /\ \A t \in Slugs, j \in OrderIds : inbox'[t][j] \in Slots(t, j)
<1> DEFINE d == [inbox[s][i] EXCEPT ![p] = v]
<1>1. inbox[s][i] \in Directories /\ inbox[s][i] \in [Parts -> Filed(s, i) \cup {None}]
  BY SlotFacts DEF QueueTypes
<1>2. d \in [Parts -> Filed(s, i) \cup {None}] BY <1>1
<1>3. d \in Slots(s, i) BY <1>2 DEF Slots
<1>4. d \in Directories BY <1>2 DEF Directories, Filed
<1>5. d # None BY <1>4, ConstantFacts
<1>6. d[p] = v /\ \A q \in Parts \ {p} : d[q] = inbox[s][i][q] BY <1>1
<1>7. inbox' = [inbox EXCEPT ![s][i] = d] BY DEF Puts
<1>8. d \in Directories \cup {None} BY <1>4
<1> HIDE DEF d
<1>9. /\ inbox' \in [Slugs -> [OrderIds -> Directories \cup {None}]]
      /\ inbox'[s][i] = d
      /\ \A t \in Slugs, j \in OrderIds : t # s \/ j # i => inbox'[t][j] = inbox[t][j]
      /\ \A t \in Slugs, j \in OrderIds : inbox'[t][j] \in Slots(t, j)
  BY <1>3, <1>7, <1>8, SlotSet
<1> QED BY <1>5, <1>6, <1>9

LEMMA RequestTypesKept ==
    ASSUME Types, [Next]_vars
    PROVE  RequestTypes'
<1> USE DEF Types, RequestTypes
<1>1. ASSUME NEW q \in Requests, PostRequest(q) PROVE RequestTypes'
  <2>1. q.id \in ReqIds BY ConstantFacts
  <2> QED BY <1>1, <2>1 DEF PostRequest
<1>2. ASSUME NEW s \in Slugs, NEW i \in ReqIds, NEW f \in Offers, Ask(s, i, f) PROVE RequestTypes'
  BY <1>2 DEF Ask
<1>3. ASSUME NEW a \in asking, Respond(a) PROVE RequestTypes'
  <2>1. a.slug \in Slugs /\ a.req \in ReqIds /\ a.offer \in Offers OBVIOUS
  <2>2. offer' \in [Slugs -> [ReqIds -> Offers \cup {None}]] BY <1>3, <2>1 DEF Respond
  <2> QED BY <1>3, <2>2 DEF Respond, Forget
<1>4. ASSUME NEW a \in asking, RespondFails(a) PROVE RequestTypes'
  BY <1>4 DEF RespondFails, Forget
<1>5. ASSUME NEW s \in Slugs, ListResponse(s) PROVE RequestTypes'
  <2>1. responses' \in [ReqIds -> SUBSET Slugs] BY <1>5 DEF ListResponse
  <2>2. faults' \in Nat BY <1>5 DEF ListResponse
  <2> QED BY <1>5, <2>1, <2>2 DEF ListResponse
<1>6. ASSUME NEW o \in Orders, PostOrder(o) PROVE RequestTypes'
  BY <1>6 DEF PostOrder
<1>7. ASSUME NEW s \in Slugs, NEW p \in Parts, WritePart(s, p) \/ RemovePart(s, p)
      PROVE RequestTypes'
  BY <1>7 DEF WritePart, RemovePart
<1>8. ASSUME NEW s \in Slugs, CloseRequest(s) PROVE RequestTypes'
  <2>1. job[s].order \in Orders /\ job[s].req \in ReqIds \cup {None}
    BY <1>8 DEF CloseRequest, QueueTypes, Jobs
  <2>2. closed' \subseteq ReqIds /\ faults' \in Nat BY <1>8, <2>1 DEF CloseRequest
  <2>3. accepted' \subseteq Orders BY <1>8, <2>1 DEF CloseRequest
  <2> QED BY <1>8, <2>2, <2>3 DEF CloseRequest
<1>9. ASSUME NEW s \in Slugs, Removed(s) PROVE RequestTypes'
  BY <1>9 DEF Removed
<1>10. ASSUME NEW s \in Slugs, NEW i \in OrderIds, Take(s, i) PROVE RequestTypes'
  <2>1. done' \in [Slugs -> SUBSET OrderIds] BY <1>10 DEF Take
  <2>2. accepted' \subseteq Orders BY <1>10 DEF Take
  <2> QED BY <1>10, <2>1, <2>2 DEF Take
<1>11. ASSUME NEW s \in Slugs, NEW i \in OrderIds, Decline(s, i) PROVE RequestTypes'
  BY <1>11 DEF Decline
<1>12. ASSUME NEW s \in Slugs, DiskError(s) PROVE RequestTypes'
  BY <1>12 DEF DiskError
<1>13. CASE Crash BY <1>13 DEF Crash
<1>14. CASE Tick BY <1>14 DEF Tick
<1>15. CASE UNCHANGED vars BY <1>15 DEF vars
<1> QED
  BY <1>1, <1>2, <1>3, <1>4, <1>5, <1>6, <1>7, <1>8, <1>9, <1>10, <1>11, <1>12, <1>13, <1>14,
     <1>15 DEF Next

(* A step that leaves the directories alone and lets some handlers go.        *)
LEMMA JobsEnd ==
    ASSUME QueueTypes, UNCHANGED inbox, job' \in [Slugs -> Jobs],
           \A s \in Slugs : job'[s] = job[s] \/ job'[s].op \in {"none", "respond"}
    PROVE  QueueTypes'
BY DEF QueueTypes

(* A step that replaces what one auditor's handler works on.                  *)
LEMMA JobMoves ==
    ASSUME QueueTypes, NEW s \in Slugs, NEW j \in Jobs, job' = [job EXCEPT ![s] = j],
           inbox' \in [Slugs -> [OrderIds -> Directories \cup {None}]],
           \A t \in Slugs, i \in OrderIds : inbox'[t][i] \in Slots(t, i),
           \A t \in Slugs, i \in OrderIds :
              t # s \/ i # j.order.id => inbox'[t][i] = inbox[t][i],
           j.op \in {"order", "remove"} =>
              j.order \in Orders /\ j.order.slug = s /\ inbox'[s][j.order.id] # None
    PROVE  QueueTypes'
<1>1. job' \in [Slugs -> Jobs] /\ job'[s] = j /\ \A t \in Slugs : t # s => job'[t] = job[t]
  BY DEF QueueTypes
<1>2. \A t \in Slugs : t # s /\ job[t].op \in {"order", "remove"} =>
         /\ job[t].order.id \in OrderIds
         /\ inbox'[t][job[t].order.id] = inbox[t][job[t].order.id]
  BY ConstantFacts DEF QueueTypes
<1> QED BY <1>1, <1>2 DEF QueueTypes

LEMMA QueueTypesKept ==
    ASSUME Types, [Next]_vars
    PROVE  QueueTypes'
<1> QueueTypes BY DEF Types
<1>1. ASSUME NEW q \in Requests, PostRequest(q) PROVE QueueTypes'
  BY <1>1 DEF PostRequest, QueueTypes
<1>2. ASSUME NEW s \in Slugs, NEW i \in ReqIds, NEW f \in Offers, Ask(s, i, f) PROVE QueueTypes'
  BY <1>2 DEF Ask, QueueTypes
<1>3. ASSUME NEW a \in asking, Respond(a) PROVE QueueTypes'
  <2> DEFINE j == [NoJob EXCEPT !.op = "respond", !.req = a.req]
  <2>1. a.slug \in Slugs /\ a.req \in ReqIds BY DEF Types, RequestTypes
  <2>2. j \in Jobs /\ j.op = "respond" BY <2>1 DEF NoJob, Jobs
  <2>3. job' = [job EXCEPT ![a.slug] = j] BY <1>3 DEF Respond
  <2> HIDE DEF j
  <2>4. job' \in [Slugs -> Jobs] BY <2>1, <2>2, <2>3 DEF QueueTypes
  <2>5. \A s \in Slugs : job'[s] = job[s] \/ job'[s].op \in {"none", "respond"}
    BY <2>1, <2>2, <2>3 DEF QueueTypes
  <2> QED BY <1>3, <2>4, <2>5, JobsEnd DEF Respond
<1>4. ASSUME NEW a \in asking, RespondFails(a) PROVE QueueTypes'
  BY <1>4 DEF RespondFails, QueueTypes
<1>5. ASSUME NEW s \in Slugs, \/ ListResponse(s) \/ CloseRequest(s) \/ DiskError(s) PROVE QueueTypes'
  <2>1. job' = [job EXCEPT ![s] = NoJob] /\ UNCHANGED inbox
    BY <1>5 DEF ListResponse, CloseRequest, DiskError
  <2>2. job' \in [Slugs -> Jobs] BY <2>1, NoJobIs DEF QueueTypes
  <2>3. \A t \in Slugs : job'[t] = job[t] \/ job'[t].op \in {"none", "respond"}
    BY <2>1, NoJobIs DEF QueueTypes
  <2> QED BY <2>1, <2>2, <2>3, JobsEnd
<1>6. ASSUME NEW o \in Orders, PostOrder(o) PROVE QueueTypes'
  <2>1. o.slug \in Slugs /\ o.id \in OrderIds BY ConstantFacts
  <2>2. CASE QueuedOrder(o.slug, o.id) = o
    <3>1. inbox[o.slug][o.id] # None BY <2>2, ConstantFacts DEF QueuedOrder
    <3>2. job' = [job EXCEPT ![o.slug] = Job("order", o, {})] /\ UNCHANGED inbox
      BY <1>6, <2>2 DEF PostOrder
    <3>3. Job("order", o, {}) \in Jobs /\ Job("order", o, {}).order = o BY JobIs
    <3> QED BY <2>1, <3>1, <3>2, <3>3, JobMoves DEF QueueTypes
  <2>3. CASE QueuedOrder(o.slug, o.id) # o
    <3> DEFINE d == IF inbox[o.slug][o.id] = None THEN EmptyDir ELSE inbox[o.slug][o.id]
    <3>1. /\ job' = [job EXCEPT ![o.slug] = Job("order", o, Parts)]
          /\ inbox' = [inbox EXCEPT ![o.slug][o.id] = d]
      BY <1>6, <2>1, <2>3 DEF PostOrder, QueueTypes
    <3>2. d \in Directories /\ d \in Slots(o.slug, o.id)
      <4>1. EmptyDir \in Slots(o.slug, o.id) BY DEF EmptyDir, Slots
      <4> QED BY <2>1, <4>1, EmptyDirIs DEF QueueTypes
    <3>3. d # None /\ d \in Directories \cup {None} BY <3>2, ConstantFacts
    <3>4. Job("order", o, Parts) \in Jobs /\ Job("order", o, Parts).order = o BY JobIs
    <3> HIDE DEF d
    <3> DEFINE j == Job("order", o, Parts)
    <3>5. /\ inbox' \in [Slugs -> [OrderIds -> Directories \cup {None}]]
          /\ inbox'[o.slug][o.id] = d
          /\ \A t \in Slugs, i \in OrderIds : t # o.slug \/ i # o.id => inbox'[t][i] = inbox[t][i]
          /\ \A t \in Slugs, i \in OrderIds : inbox'[t][i] \in Slots(t, i)
      BY <2>1, <3>1, <3>2, <3>3, SlotSet
    <3>6. /\ j \in Jobs /\ job' = [job EXCEPT ![o.slug] = j] /\ j.order = o
          /\ \A t \in Slugs, i \in OrderIds :
                t # o.slug \/ i # j.order.id => inbox'[t][i] = inbox[t][i]
          /\ j.order \in Orders /\ j.order.slug = o.slug /\ inbox'[o.slug][j.order.id] # None
      BY <3>1, <3>3, <3>4, <3>5
    <3> HIDE DEF j
    <3> QED BY <2>1, <3>5, <3>6, JobMoves, Zenon
  <2> QED BY <2>2, <2>3
<1>7. ASSUME NEW s \in Slugs, NEW p \in Parts, WritePart(s, p) \/ RemovePart(s, p)
      PROVE QueueTypes'
  <2>1. job[s].op \in {"order", "remove"} BY <1>7 DEF WritePart, RemovePart
  <2>2. PICK o \in Orders : /\ o = job[s].order /\ o.slug = s /\ o.id \in OrderIds
                            /\ inbox[s][o.id] # None
    BY <2>1, ConstantFacts DEF QueueTypes
  <2>3. PICK i \in OrderIds, v \in Filed(s, o.id) \cup {None} :
           i = o.id /\ v \in Filed(s, i) \cup {None} /\ Puts(s, i, p, v)
    BY <1>7, <2>2 DEF WritePart, RemovePart, Filed, Puts
  <2>4. PICK j \in Jobs : j.op = job[s].op /\ j.order = o /\ job' = [job EXCEPT ![s] = j]
    <3>1. job[s] \in Jobs BY DEF QueueTypes
    <3>2. [job[s] EXCEPT !.todo = @ \ {p}] \in Jobs BY <3>1 DEF Jobs
    <3> QED BY <1>7, <2>2, <3>1, <3>2 DEF WritePart, RemovePart, Jobs
  <2>5. /\ inbox' \in [Slugs -> [OrderIds -> Directories \cup {None}]]
        /\ inbox'[s][i] # None
        /\ \A t \in Slugs, k \in OrderIds : t # s \/ k # i => inbox'[t][k] = inbox[t][k]
        /\ \A t \in Slugs, k \in OrderIds : inbox'[t][k] \in Slots(t, k)
    <3>1. inbox[s][i] # None BY <2>2, <2>3
    <3> QED BY <2>3, <3>1, PartSet
  <2>6. \A t \in Slugs, k \in OrderIds : t # s \/ k # j.order.id => inbox'[t][k] = inbox[t][k]
    BY <2>3, <2>4, <2>5
  <2>7. j.op \in {"order", "remove"} =>
           j.order \in Orders /\ j.order.slug = s /\ inbox'[s][j.order.id] # None
    BY <2>2, <2>3, <2>4, <2>5
  <2> QED BY <2>4, <2>5, <2>6, <2>7, JobMoves
<1>8. ASSUME NEW s \in Slugs, Removed(s) PROVE QueueTypes'
  <2> DEFINE i == job[s].order.id
  <2>1. i \in OrderIds BY <1>8, ConstantFacts DEF Removed, QueueTypes
  <2>2. inbox' = [inbox EXCEPT ![s][i] = None] /\ job' = [job EXCEPT ![s] = NoJob]
    BY <1>8 DEF Removed
  <2> HIDE DEF i
  <2>3. /\ inbox' \in [Slugs -> [OrderIds -> Directories \cup {None}]]
        /\ \A t \in Slugs, k \in OrderIds : t # s \/ k # i => inbox'[t][k] = inbox[t][k]
        /\ \A t \in Slugs, k \in OrderIds : inbox'[t][k] \in Slots(t, k)
    <3>1. None \in Slots(s, i) BY DEF Slots
    <3>2. None \in Directories \cup {None} OBVIOUS
    <3>3. inbox' = [inbox EXCEPT ![s][i] = None] BY <2>2
    <3> QED BY <2>1, <3>1, <3>2, <3>3, SlotSet, ZenonT(30)
  <2>4. job' \in [Slugs -> Jobs] BY <2>2, NoJobIs DEF QueueTypes
  <2>5. \A t \in Slugs : job'[t].op \in {"order", "remove"} => t # s /\ job'[t] = job[t]
    BY <2>2, NoJobIs DEF QueueTypes
  <2>6. \A t \in Slugs : job'[t].op \in {"order", "remove"} =>
           job'[t].order.id \in OrderIds
    BY <2>5, ConstantFacts DEF QueueTypes
  <2> QED BY <2>3, <2>4, <2>5, <2>6 DEF QueueTypes
<1>9. ASSUME NEW s \in Slugs, NEW i \in OrderIds, Take(s, i) \/ Decline(s, i) PROVE QueueTypes'
  <2> DEFINE o == QueuedOrder(s, i)
             j == Job("remove", o, Parts)
  <2>1. i \in Queued(s) /\ job' = [job EXCEPT ![s] = j] /\ UNCHANGED inbox
    BY <1>9 DEF Take, Decline
  <2>2. inbox[s][i] # None /\ o \in Orders /\ o.slug = s /\ o.id = i
    BY <2>1, SlotFacts DEF Queued, QueuedOrder, QueueTypes, Parts
  <2> HIDE DEF o
  <2>3. j \in Jobs /\ j.order = o BY <2>2, JobIs
  <2> HIDE DEF j
  <2> QED BY <2>1, <2>2, <2>3, JobMoves DEF QueueTypes
<1>10. CASE Crash
  <2>1. job' \in [Slugs -> Jobs] BY <1>10, NoJobIs DEF Crash
  <2> QED BY <1>10, <2>1, NoJobIs, JobsEnd DEF Crash
<1>11. CASE Tick BY <1>11 DEF Tick, QueueTypes
<1>12. CASE UNCHANGED vars BY <1>12 DEF vars, QueueTypes
<1> QED
  BY <1>1, <1>2, <1>3, <1>4, <1>5, <1>6, <1>7, <1>8, <1>9, <1>10, <1>11, <1>12 DEF Next

-------------------------------------------------------------------------------
(* Requests and their answers.                                                *)

LEMMA OneMore ==
    ASSUME NEW S, NEW x, IsFiniteSet(S)
    PROVE  /\ IsFiniteSet(S \cup {x}) /\ Cardinality(S) \in Nat
           /\ Cardinality(S \cup {x}) <= Cardinality(S) + 1
<1>1. Cardinality(S) \in Nat BY FS_CardinalityType
<1>2. /\ IsFiniteSet(S \cup {x})
      /\ Cardinality(S \cup {x}) = IF x \in S THEN Cardinality(S) ELSE Cardinality(S) + 1
  BY FS_AddElement
<1> QED BY <1>1, <1>2

LEMMA Fewer ==
    ASSUME CapSafe, OpenRequests' \subseteq OpenRequests
    PROVE  CapSafe'
<1>1. /\ IsFiniteSet(OpenRequests') /\ Cardinality(OpenRequests') <= Cardinality(OpenRequests)
      /\ Cardinality(OpenRequests) \in Nat /\ Cardinality(OpenRequests') \in Nat
  BY FS_Subset, FS_CardinalityType DEF CapSafe
<1> QED BY <1>1, ConstantFacts DEF CapSafe, RequestCap

LEMMA CapKept ==
    ASSUME Types, CapSafe, [Next]_vars
    PROVE  CapSafe'
<1> USE DEF Types, RequestTypes
<1>1. ASSUME NEW q \in Requests, PostRequest(q) PROVE CapSafe'
  <2>1. q.id \in ReqIds BY ConstantFacts
  <2>2. \A i \in ReqIds : i # q.id => request'[i] = request[i] BY <1>1, <2>1 DEF PostRequest
  <2>3. UNCHANGED <<closed, now>> BY <1>1 DEF PostRequest
  <2>4. OpenRequests' \subseteq OpenRequests \cup {q.id} BY <2>2, <2>3 DEF OpenRequests, Open
  <2>5. /\ IsFiniteSet(OpenRequests \cup {q.id})
        /\ Cardinality(OpenRequests \cup {q.id}) <= Cardinality(OpenRequests) + 1
        /\ Cardinality(OpenRequests) \in Nat
    BY OneMore DEF CapSafe
  <2>6. /\ IsFiniteSet(OpenRequests')
        /\ Cardinality(OpenRequests') <= Cardinality(OpenRequests \cup {q.id})
        /\ Cardinality(OpenRequests') \in Nat /\ Cardinality(OpenRequests \cup {q.id}) \in Nat
    BY <2>4, <2>5, FS_Subset, FS_CardinalityType
  <2>7. Cardinality(OpenRequests) < MaxOpen BY <1>1 DEF PostRequest
  <2> QED BY <2>5, <2>6, <2>7, ConstantFacts DEF CapSafe, RequestCap
<1>2. ASSUME NEW s \in Slugs, CloseRequest(s) PROVE CapSafe'
  <2>1. closed \subseteq closed' /\ UNCHANGED <<request, now>> BY <1>2 DEF CloseRequest
  <2>2. OpenRequests' \subseteq OpenRequests BY <2>1 DEF OpenRequests, Open
  <2> QED BY <2>2, Fewer
<1>3. CASE Tick
  <2>1. \A i \in ReqIds : request[i] # None => request[i].until \in Nat
    BY MarketAssumption
  <2>2. now' = now + 1 /\ UNCHANGED <<request, closed>> BY <1>3 DEF Tick
  <2>3. OpenRequests' \subseteq OpenRequests BY <2>1, <2>2 DEF OpenRequests, Open
  <2> QED BY <2>3, Fewer
<1>4. CASE UNCHANGED <<request, closed, now>>
  <2>1. OpenRequests' \subseteq OpenRequests BY <1>4 DEF OpenRequests, Open
  <2> QED BY <2>1, Fewer
<1>5. ASSUME NEW s \in Slugs, NEW i \in ReqIds, NEW f \in Offers, Ask(s, i, f)
      PROVE UNCHANGED <<request, closed, now>>
  BY <1>5 DEF Ask
<1>6. ASSUME NEW a \in asking, Respond(a) \/ RespondFails(a)
      PROVE UNCHANGED <<request, closed, now>>
  BY <1>6 DEF Respond, RespondFails
<1>7. ASSUME NEW s \in Slugs, ListResponse(s) \/ Removed(s) \/ DiskError(s)
      PROVE UNCHANGED <<request, closed, now>>
  BY <1>7 DEF ListResponse, Removed, DiskError
<1>8. ASSUME NEW o \in Orders, PostOrder(o) PROVE UNCHANGED <<request, closed, now>>
  BY <1>8 DEF PostOrder
<1>9. ASSUME NEW s \in Slugs, NEW p \in Parts, WritePart(s, p) \/ RemovePart(s, p)
      PROVE UNCHANGED <<request, closed, now>>
  BY <1>9 DEF WritePart, RemovePart
<1>10. ASSUME NEW s \in Slugs, NEW i \in OrderIds, Take(s, i) \/ Decline(s, i)
       PROVE UNCHANGED <<request, closed, now>>
  BY <1>10 DEF Take, Decline
<1>11. Crash \/ UNCHANGED vars => UNCHANGED <<request, closed, now>> BY DEF Crash, vars
<1> QED
  BY <1>1, <1>2, <1>3, <1>4, <1>5, <1>6, <1>7, <1>8, <1>9, <1>10, <1>11 DEF Next

(* A request and an offer that are there stay, the request as it is.          *)
RequestsStay == \A i \in ReqIds : request[i] # None => request'[i] = request[i]
OffersStay == \A s \in Slugs, i \in ReqIds : offer[s][i] # None => offer'[s][i] # None

LEMMA WhatStays ==
    ASSUME Types, [Next]_vars
    PROVE  RequestsStay /\ OffersStay
<1> USE DEF Types, RequestTypes, RequestsStay, OffersStay
<1>1. ASSUME NEW q \in Requests, PostRequest(q) PROVE RequestsStay /\ OffersStay
  <2>1. q.id \in ReqIds BY ConstantFacts
  <2> QED BY <1>1, <2>1 DEF PostRequest
<1>2. ASSUME NEW s \in Slugs, NEW i \in ReqIds, NEW f \in Offers, Ask(s, i, f)
      PROVE RequestsStay /\ OffersStay
  BY <1>2 DEF Ask
<1>3. ASSUME NEW a \in asking, Respond(a) PROVE RequestsStay /\ OffersStay
  <2>1. a.slug \in Slugs /\ a.req \in ReqIds /\ a.offer \in Offers OBVIOUS
  <2>2. \A s \in Slugs, i \in ReqIds : offer'[s][i] \in {offer[s][i], a.offer}
    BY <1>3, <2>1 DEF Respond
  <2> QED BY <1>3, <2>1, <2>2, ConstantFacts DEF Respond
<1>4. ASSUME NEW a \in asking, RespondFails(a) PROVE RequestsStay /\ OffersStay
  BY <1>4 DEF RespondFails
<1>5. ASSUME NEW s \in Slugs, \/ ListResponse(s) \/ CloseRequest(s) \/ Removed(s) \/ DiskError(s)
      PROVE RequestsStay /\ OffersStay
  BY <1>5 DEF ListResponse, CloseRequest, Removed, DiskError
<1>6. ASSUME NEW o \in Orders, PostOrder(o) PROVE RequestsStay /\ OffersStay
  BY <1>6 DEF PostOrder
<1>7. ASSUME NEW s \in Slugs, NEW p \in Parts, WritePart(s, p) \/ RemovePart(s, p)
      PROVE RequestsStay /\ OffersStay
  BY <1>7 DEF WritePart, RemovePart
<1>8. ASSUME NEW s \in Slugs, NEW i \in OrderIds, Take(s, i) \/ Decline(s, i)
      PROVE RequestsStay /\ OffersStay
  BY <1>8 DEF Take, Decline
<1>9. Crash \/ Tick \/ UNCHANGED vars => RequestsStay /\ OffersStay BY DEF Crash, Tick, vars
<1> QED BY <1>1, <1>2, <1>3, <1>4, <1>5, <1>6, <1>7, <1>8, <1>9 DEF Next

LEMMA AnswersKept ==
    ASSUME Types, AnswerInv, [Next]_vars
    PROVE  AnswerInv'
<1>0. RequestsStay /\ OffersStay BY WhatStays
<1> USE <1>0 DEF Types, RequestTypes
<1>1. ASSUME NEW s \in Slugs, ListResponse(s) PROVE AnswerInv'
  <2> DEFINE i == job[s].req
  <2>1. /\ i \in ReqIds /\ offer[s][i] # None /\ request[i] # None /\ request[i].to \in {None, s}
    BY <1>1 DEF ListResponse, AnswerInv, AnswersSafe
  <2>2. /\ UNCHANGED <<request, offer, asking>> /\ job' = [job EXCEPT ![s] = NoJob]
        /\ responses' \in {responses, [responses EXCEPT ![i] = @ \cup {s}]}
    BY <1>1 DEF ListResponse
  <2> HIDE DEF i
  <2>3. \A k \in ReqIds : responses'[k] \subseteq responses[k] \cup (IF k = i THEN {s} ELSE {})
    BY <2>1, <2>2
  <2>4. ResponsesBacked' BY <2>1, <2>2, <2>3 DEF AnswerInv, ResponsesBacked
  <2>5. AnswersSafe' BY <2>2, NoJobIs DEF AnswerInv, AnswersSafe, QueueTypes
  <2> QED BY <2>4, <2>5 DEF AnswerInv
<1>2. ASSUME UNCHANGED responses PROVE ResponsesBacked'
  BY <1>2 DEF AnswerInv, ResponsesBacked, RequestsStay, OffersStay
<1>3. ASSUME UNCHANGED responses, asking' \subseteq asking,
             \A s \in Slugs : job'[s] = job[s] \/ job'[s].op # "respond"
      PROVE  AnswerInv'
  <2>1. ResponsesBacked' BY <1>2, <1>3
  <2>2. \A a \in asking' : request'[a.req] # None
    BY <1>3, ConstantFacts DEF AnswerInv, AnswersSafe, RequestsStay
  <2>3. ASSUME NEW s \in Slugs, job'[s].op = "respond"
        PROVE  LET i == job'[s].req IN
               /\ i \in ReqIds /\ offer'[s][i] # None
               /\ request'[i] # None /\ request'[i].to \in {None, s}
    BY <1>3, <2>3 DEF AnswerInv, AnswersSafe, RequestsStay, OffersStay
  <2> QED BY <2>1, <2>2, <2>3 DEF AnswerInv, AnswersSafe
<1>4. ASSUME NEW q \in Requests, PostRequest(q) PROVE AnswerInv'
  BY <1>3, <1>4 DEF PostRequest
<1>5. ASSUME NEW s \in Slugs, NEW i \in ReqIds, NEW f \in Offers, Ask(s, i, f) PROVE AnswerInv'
  <2>1. /\ request[i] # None /\ UNCHANGED <<responses, offer, request, job>>
        /\ asking' = asking \cup {[slug |-> s, req |-> i, offer |-> f]}
    BY <1>5 DEF Ask, Open
  <2> QED BY <1>2, <2>1 DEF AnswerInv, AnswersSafe
<1>6. ASSUME NEW a \in asking, Respond(a) PROVE AnswerInv'
  <2>1. a.slug \in Slugs /\ a.req \in ReqIds /\ a.offer \in Offers OBVIOUS
  <2>2. request[a.req] # None /\ request[a.req].to \in {None, a.slug}
    BY <1>6 DEF Respond, AnswerAllowed, AnswerInv, AnswersSafe
  <2>3. /\ UNCHANGED <<request, responses>> /\ asking' \subseteq asking
        /\ offer'[a.slug][a.req] = a.offer
        /\ job'[a.slug].op = "respond" /\ job'[a.slug].req = a.req
        /\ \A s \in Slugs : s # a.slug => job'[s] = job[s]
    BY <1>6, <2>1 DEF Respond, Forget, NoJob, QueueTypes
  <2>4. ResponsesBacked' BY <1>2, <2>3
  <2>5. ASSUME NEW s \in Slugs, job'[s].op = "respond"
        PROVE  LET i == job'[s].req IN
               /\ i \in ReqIds /\ offer'[s][i] # None
               /\ request'[i] # None /\ request'[i].to \in {None, s}
    BY <2>1, <2>2, <2>3, <2>5, ConstantFacts DEF AnswerInv, AnswersSafe, OffersStay
  <2> QED BY <2>3, <2>4, <2>5 DEF AnswerInv, AnswersSafe
<1>7. ASSUME NEW a \in asking, RespondFails(a) PROVE AnswerInv'
  BY <1>3, <1>7 DEF RespondFails, Forget
<1>8. ASSUME NEW s \in Slugs, \/ CloseRequest(s) \/ Removed(s) \/ DiskError(s) PROVE AnswerInv'
  <2>1. /\ job' = [job EXCEPT ![s] = NoJob] /\ UNCHANGED <<responses, asking>>
    BY <1>8 DEF CloseRequest, Removed, DiskError
  <2> QED BY <1>3, <2>1, NoJobIs DEF QueueTypes
<1>9. ASSUME NEW o \in Orders, PostOrder(o) PROVE AnswerInv'
  <2>1. /\ UNCHANGED <<responses, asking>>
        /\ job' \in {[job EXCEPT ![o.slug] = Job("order", o, {})],
                     [job EXCEPT ![o.slug] = Job("order", o, Parts)]}
    BY <1>9 DEF PostOrder
  <2>2. \A s \in Slugs : job'[s] = job[s] \/ job'[s].op # "respond"
    BY <2>1, JobIs DEF QueueTypes
  <2> QED BY <1>3, <2>1, <2>2
<1>10. ASSUME NEW s \in Slugs, NEW p \in Parts, WritePart(s, p) \/ RemovePart(s, p)
       PROVE AnswerInv'
  <2>1. /\ UNCHANGED <<responses, asking>> /\ job[s].op \in {"order", "remove"}
        /\ job' = [job EXCEPT ![s].todo = @ \ {p}]
    BY <1>10 DEF WritePart, RemovePart
  <2>2. \A t \in Slugs : job'[t] = job[t] \/ job'[t].op # "respond"
    BY <2>1 DEF QueueTypes, Jobs
  <2> QED BY <1>3, <2>1, <2>2
<1>11. ASSUME NEW s \in Slugs, NEW i \in OrderIds, Take(s, i) \/ Decline(s, i) PROVE AnswerInv'
  <2>1. /\ UNCHANGED <<responses, asking>>
        /\ job' = [job EXCEPT ![s] = Job("remove", QueuedOrder(s, i), Parts)]
    BY <1>11 DEF Take, Decline
  <2>2. Job("remove", QueuedOrder(s, i), Parts).op = "remove" BY DEF Job
  <2>3. \A t \in Slugs : job'[t] = job[t] \/ job'[t].op # "respond"
    BY <2>1, <2>2 DEF QueueTypes
  <2> QED BY <1>3, <2>1, <2>3
<1>12. CASE Crash
  <2>1. \A s \in Slugs : job'[s].op # "respond" BY <1>12, NoJobIs DEF Crash
  <2> QED BY <1>3, <1>12, <2>1 DEF Crash
<1>13. CASE Tick BY <1>3, <1>13 DEF Tick
<1>14. CASE UNCHANGED vars BY <1>3, <1>14 DEF vars
<1> QED
  BY <1>1, <1>4, <1>5, <1>6, <1>7, <1>8, <1>9, <1>10, <1>11, <1>12, <1>13, <1>14 DEF Next

-------------------------------------------------------------------------------
(* Orders.                                                                    *)

LEMMA QueuedIs ==
    ASSUME QueueTypes, NEW s \in Slugs, NEW i \in OrderIds, NEW o \in Orders,
           QueuedOrder(s, i) = o
    PROVE  inbox[s][i] # None /\ inbox[s][i]["order.json"] = o /\ o.slug = s /\ o.id = i
<1>1. inbox[s][i] # None /\ inbox[s][i]["order.json"] = o BY ConstantFacts DEF QueuedOrder
<1>2. inbox[s][i] \in Slots(s, i) BY DEF QueueTypes
<1> QED BY <1>1, <1>2, SlotFacts, ConstantFacts DEF Parts

LEMMA OrderTyped ==
    ASSUME QueueTypes, NEW s \in Slugs, job[s].op \in {"order", "remove"}
    PROVE  /\ job[s].order \in Orders /\ job[s].order.slug = s /\ job[s].order.id \in OrderIds
           /\ inbox[s][job[s].order.id] # None
BY ConstantFacts DEF QueueTypes

(* An auditor whose handler and directories a step leaves alone.              *)
Untouched(t) == job'[t] = job[t] /\ \A i \in OrderIds : inbox'[t][i] = inbox[t][i]

LEMMA OthersJobs ==
    ASSUME Types, RequestsStay, NEW t \in Slugs, JobSafe(t), Untouched(t),
           \A a \in accepted' : a.slug = t => a \in accepted
    PROVE  JobSafe(t)'
<1> DEFINE j == job[t]
<1>1. j.op \in {"order", "remove"} => j.order.id \in OrderIds BY OrderTyped DEF Types
<1>2. job'[t] = j /\ \A i \in OrderIds : inbox'[t][i] = inbox[t][i] BY DEF Untouched
<1>3. j.req # None => j.req \in ReqIds BY DEF Types, QueueTypes, Jobs
<1> HIDE DEF j
<1> QED BY <1>1, <1>2, <1>3 DEF JobSafe, RequestsStay, j

LEMMA OthersDirs ==
    ASSUME NEW t \in Slugs, NEW i \in OrderIds, DirSafe(t, i), Untouched(t)
    PROVE  DirSafe(t, i)'
BY DEF DirSafe, Untouched, WholeDir

(* A step at one auditor: what is left to show is about it.                   *)
LEMMA OneAuditor ==
    ASSUME Types, OrderInv, RequestsStay, NEW s \in Slugs,
           \A t \in Slugs : t # s => Untouched(t),
           \A a \in accepted' : a.slug # s => a \in accepted,
           \A a \in accepted' : a \in Orders /\ (a.slug = s => QueuedOrder(s, a.id)' = a),
           JobSafe(s)',
           Quiet' => Quiet,
           Quiet' => \A i \in OrderIds : DirSafe(s, i)'
    PROVE  OrderInv'
<1>1. AcceptedKept'
  <2> SUFFICES ASSUME NEW a \in accepted' PROVE QueuedOrder(a.slug, a.id)' = a
    BY DEF AcceptedKept
  <2>1. a \in Orders /\ a.slug \in Slugs /\ a.id \in OrderIds BY ConstantFacts
  <2>2. CASE a.slug = s BY <2>2
  <2>3. CASE a.slug # s
    <3>1. QueuedOrder(a.slug, a.id) = a BY <2>3 DEF OrderInv, AcceptedKept
    <3>2. inbox'[a.slug][a.id] = inbox[a.slug][a.id] BY <2>1, <2>3 DEF Untouched
    <3> QED BY <3>1, <3>2 DEF QueuedOrder
  <2> QED BY <2>2, <2>3
<1>2. JobsSafe'
  <2> SUFFICES ASSUME NEW t \in Slugs, t # s PROVE JobSafe(t)' BY DEF JobsSafe
  <2>1. JobSafe(t) BY DEF OrderInv, JobsSafe
  <2> QED BY <2>1, OthersJobs
<1>3. DirsSafe'
  <2> SUFFICES ASSUME Quiet', NEW t \in Slugs, NEW i \in OrderIds PROVE DirSafe(t, i)'
    BY DEF DirsSafe
  <2>1. CASE t = s BY <2>1
  <2>2. CASE t # s BY <2>2, OthersDirs DEF OrderInv, DirsSafe
  <2> QED BY <2>1, <2>2
<1> QED BY <1>1, <1>2, <1>3 DEF OrderInv

(* A step that stores and removes nothing, and may let handlers go.           *)
LEMMA NothingQueued ==
    ASSUME Types, OrderInv, RequestsStay, UNCHANGED <<inbox, accepted>>,
           \A s \in Slugs : job'[s] = job[s] \/ job'[s].op \in {"none", "respond"},
           Quiet' => /\ Quiet
                     /\ \A s \in Slugs : job'[s] = job[s] \/ job[s].op \in {"none", "respond"}
    PROVE  OrderInv'
<1>1. AcceptedKept' BY DEF OrderInv, AcceptedKept, QueuedOrder
<1>2. JobsSafe'
  <2> SUFFICES ASSUME NEW t \in Slugs PROVE JobSafe(t)' BY DEF JobsSafe
  <2>1. JobSafe(t) BY DEF OrderInv, JobsSafe
  <2>2. CASE job'[t] = job[t] BY <2>1, <2>2, OthersJobs DEF Untouched
  <2>3. CASE job'[t].op \in {"none", "respond"} BY <2>3 DEF JobSafe
  <2> QED BY <2>2, <2>3
<1>3. DirsSafe'
  <2> SUFFICES ASSUME Quiet', NEW t \in Slugs, NEW i \in OrderIds PROVE DirSafe(t, i)'
    BY DEF DirsSafe
  <2>1. DirSafe(t, i) BY DEF OrderInv, DirsSafe
  <2>2. CASE job'[t] = job[t] BY <2>1, <2>2, OthersDirs DEF Untouched
  <2>3. CASE job[t].op \in {"none", "respond"} BY <2>1, <2>3 DEF DirSafe, WholeDir
  <2> QED BY <2>2, <2>3
<1> QED BY <1>1, <1>2, <1>3 DEF OrderInv

LEMMA OrderPosted ==
    ASSUME Types, OrderInv, RequestsStay, NEW o \in Orders, PostOrder(o)
    PROVE  OrderInv'
<1> DEFINE s == o.slug
<1> QueueTypes BY DEF Types
<1>1. s \in Slugs /\ o.id \in OrderIds BY ConstantFacts
<1>2. job[s] = NoJob /\ TakesOffer(o) /\ QueuedOrder(s, o.id) \in {None, o}
      /\ UNCHANGED <<accepted, crashes, faults, request>>
  BY DEF PostOrder, Unlocked
<1>3. PICK todo \in SUBSET Parts :
         /\ job' = [job EXCEPT ![s] = Job("order", o, todo)]
         /\ todo = IF QueuedOrder(s, o.id) = o THEN {} ELSE Parts
  BY DEF PostOrder
<1>4. /\ job'[s].op = "order" /\ job'[s].order = o /\ job'[s].req = o.req /\ job'[s].todo = todo
      /\ \A t \in Slugs : t # s => job'[t] = job[t]
  BY <1>1, <1>3, JobIs DEF QueueTypes
<1>5. /\ QueuedOrder(s, o.id) = o => UNCHANGED inbox
      /\ QueuedOrder(s, o.id) # o =>
            inbox' = [inbox EXCEPT ![s][o.id] = IF @ = None THEN EmptyDir ELSE @]
  BY DEF PostOrder
<1>6. /\ \A t \in Slugs, i \in OrderIds : t # s \/ i # o.id => inbox'[t][i] = inbox[t][i]
      /\ inbox'[s][o.id] = IF inbox[s][o.id] = None THEN EmptyDir ELSE inbox[s][o.id]
  <2>1. CASE QueuedOrder(s, o.id) = o BY <1>1, <1>5, <2>1, QueuedIs
  <2>2. CASE QueuedOrder(s, o.id) # o BY <1>1, <1>5, <2>2 DEF QueueTypes
  <2> QED BY <2>1, <2>2
<1>7. /\ inbox'[s][o.id] # None
      /\ inbox'[s][o.id]["order.json"] = IF QueuedOrder(s, o.id) = o THEN o ELSE None
  BY <1>1, <1>2, <1>6, EmptyDirIs, QueuedIs, ConstantFacts DEF QueuedOrder, Parts
<1> HIDE DEF s
<1>8. \A a \in accepted : a.slug = s => QueuedOrder(s, a.id) = a
  BY DEF OrderInv, AcceptedKept
<1>9. \A a \in accepted' : a \in Orders /\ (a.slug = s => QueuedOrder(s, a.id)' = a)
  <2> SUFFICES ASSUME NEW a \in accepted, a.slug = s PROVE QueuedOrder(s, a.id)' = a
    BY <1>2 DEF Types, RequestTypes
  <2>1. a \in Orders /\ a.id \in OrderIds BY ConstantFacts DEF Types, RequestTypes
  <2>2. QueuedOrder(s, a.id) = a BY <1>8
  <2>3. inbox[s][a.id] # None BY <1>1, <2>1, <2>2, QueuedIs
  <2>4. inbox'[s][a.id] = inbox[s][a.id] BY <1>1, <1>6, <2>1, <2>3
  <2> QED BY <2>2, <2>4 DEF QueuedOrder
<1>10. JobSafe(s)'
  <2>1. o.req # None =>
           /\ request'[o.req] # None
           /\ o.key = request'[o.req].key /\ o.want = request'[o.req].want
    BY <1>2 DEF TakesOffer, Open
  <2>2. inbox'[s][o.id]["order.json"] = IF "order.json" \in todo THEN None ELSE o
    BY <1>3, <1>7 DEF Parts
  <2>3. todo # {} => \A a \in accepted : a.slug = s => a.id # o.id
    <3> SUFFICES ASSUME QueuedOrder(s, o.id) = None, NEW a \in accepted, a.slug = s, a.id = o.id
                 PROVE FALSE
      BY <1>2, <1>3
    <3> QED BY <1>8, ConstantFacts DEF Types, RequestTypes
  <2> QED BY <1>2, <1>4, <2>1, <2>2, <2>3 DEF JobSafe
<1>11. ASSUME Quiet', NEW i \in OrderIds PROVE DirSafe(s, i)'
  <2>1. DirSafe(s, i) BY <1>1, <1>2, <1>11 DEF Quiet, OrderInv, DirsSafe
  <2>2. inbox[s][i] # None => WholeDir(inbox[s][i])
    BY <1>2, <2>1, NoJobIs DEF DirSafe
  <2>3. CASE i # o.id BY <1>1, <1>6, <2>2, <2>3 DEF DirSafe, WholeDir
  <2>4. CASE i = o.id
    <3>1. CASE QueuedOrder(s, o.id) = o
      <4>1. inbox[s][i] # None /\ inbox[s][i]["order.json"] = o BY <1>1, <2>4, <3>1, QueuedIs
      <4>2. WholeDir(inbox'[s][i]) BY <1>6, <2>2, <2>4, <4>1
      <4> QED BY <4>2 DEF DirSafe, WholeDir
    <3>2. CASE QueuedOrder(s, o.id) # o
      <4>1. inbox[s][i] = None
        <5> SUFFICES ASSUME inbox[s][i] # None PROVE FALSE OBVIOUS
        <5>1. inbox[s][i]["order.json"] = None BY <1>2, <2>4, <3>2 DEF QueuedOrder
        <5> QED BY <2>2, <5>1, ConstantFacts DEF WholeDir, Parts
      <4>2. \A p \in Parts : inbox'[s][i][p] = None BY <1>6, <2>4, <4>1, EmptyDirIs
      <4> QED BY <1>3, <1>4, <2>4, <3>2, <4>2 DEF DirSafe
    <3> QED BY <3>1, <3>2
  <2> QED BY <2>3, <2>4
<1>12. Quiet' => Quiet BY <1>2 DEF Quiet
<1>13. \A t \in Slugs : t # s => Untouched(t) BY <1>4, <1>6 DEF Untouched
<1>14. \A a \in accepted' : a.slug # s => a \in accepted BY <1>2
<1> QED BY <1>1, <1>9, <1>10, <1>11, <1>12, <1>13, <1>14, OneAuditor

LEMMA PartWritten ==
    ASSUME Types, OrderInv, RequestsStay, NEW s \in Slugs, NEW p \in Parts, WritePart(s, p)
    PROVE  OrderInv'
<1> QueueTypes BY DEF Types
<1>1. /\ job[s].op = "order" /\ p \in job[s].todo
      /\ UNCHANGED <<accepted, crashes, faults, request>>
  BY DEF WritePart
<1>2. PICK o \in Orders, i \in OrderIds :
         /\ o = job[s].order /\ o.slug = s /\ i = o.id /\ inbox[s][i] # None
  BY <1>1, OrderTyped
<1>3. /\ job'[s] = [job[s] EXCEPT !.todo = @ \ {p}]
      /\ \A t \in Slugs : t # s => job'[t] = job[t]
  BY DEF WritePart, QueueTypes
<1>4. /\ job'[s].op = "order" /\ job'[s].order = o /\ job'[s].req = job[s].req
      /\ job'[s].todo = job[s].todo \ {p}
  <2>1. job[s] \in Jobs BY DEF QueueTypes
  <2> QED BY <1>1, <1>2, <1>3, <2>1 DEF Jobs
<1>5. /\ inbox'[s][i] # None /\ inbox'[s][i][p] = o
      /\ \A q \in Parts \ {p} : inbox'[s][i][q] = inbox[s][i][q]
      /\ \A t \in Slugs, j \in OrderIds : t # s \/ j # i => inbox'[t][j] = inbox[t][j]
  <2>1. o \in Filed(s, i) \cup {None} BY <1>2 DEF Filed
  <2>2. Puts(s, i, p, o) BY <1>2 DEF WritePart, Puts
  <2> QED BY <1>2, <2>1, <2>2, PartSet
<1>6. JobSafe(s) BY DEF OrderInv, JobsSafe
<1>7. \A a \in accepted : a.slug = s => a.id # i BY <1>1, <1>2, <1>6 DEF JobSafe
<1>8. \A a \in accepted' : a \in Orders /\ (a.slug = s => QueuedOrder(s, a.id)' = a)
  <2> SUFFICES ASSUME NEW a \in accepted, a.slug = s PROVE QueuedOrder(s, a.id)' = a
    BY <1>1 DEF Types, RequestTypes
  <2>1. a.id \in OrderIds BY ConstantFacts DEF Types, RequestTypes
  <2>2. QueuedOrder(s, a.id) = a BY DEF OrderInv, AcceptedKept
  <2>3. inbox'[s][a.id] = inbox[s][a.id] BY <1>5, <1>7, <2>1
  <2> QED BY <2>2, <2>3 DEF QueuedOrder
<1>9. JobSafe(s)'
  <2>1. inbox'[s][i]["order.json"] = IF "order.json" \in job'[s].todo THEN None ELSE o
    BY <1>1, <1>2, <1>4, <1>5, <1>6 DEF JobSafe, Parts
  <2> QED BY <1>1, <1>2, <1>4, <1>6, <1>7, <2>1 DEF JobSafe
<1>10. ASSUME Quiet', NEW j \in OrderIds PROVE DirSafe(s, j)'
  <2>1. DirSafe(s, j) BY <1>1, <1>10 DEF Quiet, OrderInv, DirsSafe
  <2>2. CASE j # i BY <1>1, <1>2, <1>5, <2>1, <2>2 DEF DirSafe, WholeDir
  <2>3. CASE j = i
    <3>1. CASE WholeDir(inbox[s][i])
      <4>1. PICK w \in Orders : \A q \in Parts : inbox[s][i][q] = w BY <3>1 DEF WholeDir
      <4>2. w = o BY <1>1, <1>2, <1>6, <4>1, ConstantFacts DEF JobSafe, Parts
      <4>3. WholeDir(inbox'[s][i]) BY <1>5, <4>1, <4>2 DEF WholeDir
      <4> QED BY <2>3, <4>3 DEF DirSafe, WholeDir
    <3>2. CASE ~WholeDir(inbox[s][i])
      <4>1. \A q \in Parts : inbox[s][i][q] = IF q \in job[s].todo THEN None ELSE o
        BY <1>1, <1>2, <2>1, <2>3, <3>2 DEF DirSafe
      <4> QED BY <1>2, <1>4, <1>5, <2>3, <4>1 DEF DirSafe
    <3> QED BY <3>1, <3>2
  <2> QED BY <2>2, <2>3
<1>11. Quiet' => Quiet BY <1>1 DEF Quiet
<1>12. \A t \in Slugs : t # s => Untouched(t) BY <1>3, <1>5 DEF Untouched
<1>13. \A a \in accepted' : a.slug # s => a \in accepted BY <1>1
<1> QED BY <1>8, <1>9, <1>10, <1>11, <1>12, <1>13, OneAuditor

(* The job ends: what was written is whole, what was removed is gone.         *)
LEMMA OrderAnswered ==
    ASSUME Types, OrderInv, RequestsStay, NEW s \in Slugs, CloseRequest(s)
    PROVE  OrderInv'
<1> QueueTypes BY DEF Types
<1>1. /\ job[s].op = "order" /\ job[s].todo = {} /\ UNCHANGED inbox
      /\ accepted' = accepted \cup {job[s].order} /\ crashes' = crashes
      /\ faults' \in {faults, faults + 1}
  BY DEF CloseRequest
<1>2. PICK o \in Orders, i \in OrderIds :
         /\ o = job[s].order /\ o.slug = s /\ i = o.id /\ inbox[s][i] # None
  BY <1>1, OrderTyped
<1>3. job'[s] = NoJob /\ \A t \in Slugs : t # s => job'[t] = job[t]
  BY DEF CloseRequest, QueueTypes
<1>4. inbox[s][i]["order.json"] = o BY <1>1, <1>2 DEF OrderInv, JobsSafe, JobSafe
<1>5. \A a \in accepted' : a \in Orders /\ (a.slug = s => QueuedOrder(s, a.id)' = a)
  BY <1>1, <1>2, <1>4 DEF OrderInv, AcceptedKept, QueuedOrder, Types, RequestTypes
<1>6. JobSafe(s)' BY <1>3, NoJobIs DEF JobSafe
<1>7. ASSUME Quiet', NEW j \in OrderIds PROVE DirSafe(s, j)'
  <2>1. DirSafe(s, j)
    <3>1. Quiet BY <1>1, <1>7 DEF Quiet, Types, RequestTypes
    <3> QED BY <3>1 DEF OrderInv, DirsSafe
  <2>2. inbox[s][j] # None => WholeDir(inbox[s][j])
    BY <1>1, <1>2, <2>1 DEF DirSafe, WholeDir
  <2> QED BY <1>1, <2>2 DEF DirSafe, WholeDir
<1>8. Quiet' => Quiet BY <1>1 DEF Quiet, Types, RequestTypes
<1>9. \A t \in Slugs : t # s => Untouched(t) BY <1>1, <1>3 DEF Untouched
<1>10. \A a \in accepted' : a.slug # s => a \in accepted BY <1>1, <1>2
<1> QED BY <1>5, <1>6, <1>7, <1>8, <1>9, <1>10, OneAuditor

LEMMA OrderTaken ==
    ASSUME Types, OrderInv, RequestsStay, NEW s \in Slugs, NEW i \in OrderIds,
           Take(s, i) \/ Decline(s, i)
    PROVE  OrderInv'
<1> QueueTypes BY DEF Types
<1>1. /\ job[s] = NoJob /\ i \in Queued(s) /\ UNCHANGED <<inbox, crashes, faults>>
      /\ job' = [job EXCEPT ![s] = Job("remove", QueuedOrder(s, i), Parts)]
      /\ accepted' = {o \in accepted : <<o.slug, o.id>> # <<s, i>>}
  BY DEF Take, Decline, Unlocked
<1>2. PICK o \in Orders : o = QueuedOrder(s, i) /\ o.slug = s /\ o.id = i
  BY <1>1, SlotFacts DEF Queued, QueuedOrder, QueueTypes, Parts
<1>3. /\ job'[s].op = "remove" /\ job'[s].order = o
      /\ \A t \in Slugs : t # s => job'[t] = job[t]
  BY <1>1, <1>2, JobIs DEF QueueTypes
<1>4. \A a \in accepted' : a \in accepted /\ (a.slug = s => a.id # i) BY <1>1
<1>5. \A a \in accepted' : a \in Orders /\ (a.slug = s => QueuedOrder(s, a.id)' = a)
  BY <1>1, <1>4 DEF OrderInv, AcceptedKept, QueuedOrder, Types, RequestTypes
<1>6. JobSafe(s)' BY <1>2, <1>3, <1>4 DEF JobSafe
<1>7. ASSUME Quiet', NEW j \in OrderIds PROVE DirSafe(s, j)'
  <2>1. DirSafe(s, j) BY <1>1, <1>7 DEF Quiet, OrderInv, DirsSafe
  <2>2. inbox[s][j] # None => WholeDir(inbox[s][j]) BY <1>1, <2>1, NoJobIs DEF DirSafe
  <2> QED BY <1>1, <2>2 DEF DirSafe, WholeDir
<1>8. Quiet' => Quiet BY <1>1 DEF Quiet
<1>9. \A t \in Slugs : t # s => Untouched(t) BY <1>1, <1>3 DEF Untouched
<1> QED BY <1>4, <1>5, <1>6, <1>7, <1>8, <1>9, OneAuditor

LEMMA PartRemoved ==
    ASSUME Types, OrderInv, RequestsStay, NEW s \in Slugs,
           \/ \E p \in Parts : RemovePart(s, p)
           \/ Removed(s)
    PROVE  OrderInv'
<1> QueueTypes BY DEF Types
<1>1. job[s].op = "remove" /\ UNCHANGED <<accepted, crashes, faults>>
  BY DEF RemovePart, Removed
<1>2. PICK o \in Orders, i \in OrderIds :
         /\ o = job[s].order /\ o.slug = s /\ i = o.id /\ inbox[s][i] # None
  BY <1>1, OrderTyped
<1>3. /\ \A t \in Slugs, j \in OrderIds : t # s \/ j # i => inbox'[t][j] = inbox[t][j]
      /\ \A t \in Slugs : t # s => job'[t] = job[t]
      /\ \/ job'[s].op = "remove" /\ job'[s].order = o
         \/ job'[s].op = "none" /\ inbox'[s][i] = None
  <2>1. CASE \E p \in Parts : RemovePart(s, p)
    <3>1. PICK p \in Parts : RemovePart(s, p) BY <2>1
    <3>2. Puts(s, i, p, None) BY <1>2, <3>1 DEF RemovePart, Puts
    <3>3. \A t \in Slugs, j \in OrderIds : t # s \/ j # i => inbox'[t][j] = inbox[t][j]
      BY <1>2, <3>2, PartSet
    <3>4. job[s] \in Jobs /\ job' = [job EXCEPT ![s].todo = @ \ {p}]
      BY <3>1 DEF RemovePart, QueueTypes
    <3> QED BY <1>1, <1>2, <3>3, <3>4 DEF Jobs, QueueTypes
  <2>2. CASE Removed(s)
    <3>1. inbox' = [inbox EXCEPT ![s][i] = None] /\ job' = [job EXCEPT ![s] = NoJob]
      BY <1>2, <2>2 DEF Removed
    <3>2. \A t \in Slugs, j \in OrderIds : t # s \/ j # i => inbox'[t][j] = inbox[t][j]
      BY <3>1 DEF QueueTypes
    <3>3. inbox'[s][i] = None BY <3>1 DEF QueueTypes
    <3> QED BY <3>1, <3>2, <3>3, NoJobIs DEF QueueTypes
  <2> QED BY <2>1, <2>2
<1>4. \A a \in accepted : a.slug = s => a.id # i
  BY <1>1, <1>2 DEF OrderInv, JobsSafe, JobSafe
<1>5. \A a \in accepted' : a \in Orders /\ (a.slug = s => QueuedOrder(s, a.id)' = a)
  <2> SUFFICES ASSUME NEW a \in accepted, a.slug = s PROVE QueuedOrder(s, a.id)' = a
    BY <1>1 DEF Types, RequestTypes
  <2>1. a.id \in OrderIds BY ConstantFacts DEF Types, RequestTypes
  <2>2. QueuedOrder(s, a.id) = a BY DEF OrderInv, AcceptedKept
  <2>3. inbox'[s][a.id] = inbox[s][a.id] BY <1>3, <1>4, <2>1
  <2> QED BY <2>2, <2>3 DEF QueuedOrder
<1>6. JobSafe(s)' BY <1>1, <1>2, <1>3, <1>4 DEF JobSafe
<1>7. ASSUME Quiet', NEW j \in OrderIds PROVE DirSafe(s, j)'
  <2>1. DirSafe(s, j) BY <1>1, <1>7 DEF Quiet, OrderInv, DirsSafe
  <2>2. CASE j # i BY <1>1, <1>2, <1>3, <2>1, <2>2 DEF DirSafe, WholeDir
  <2>3. CASE j = i BY <1>2, <1>3, <2>3 DEF DirSafe
  <2> QED BY <2>2, <2>3
<1>8. Quiet' => Quiet BY <1>1 DEF Quiet
<1>9. \A t \in Slugs : t # s => Untouched(t) BY <1>3 DEF Untouched
<1> QED BY <1>1, <1>5, <1>6, <1>7, <1>8, <1>9, OneAuditor

LEMMA OrdersInvKept ==
    ASSUME Types, OrderInv, [Next]_vars
    PROVE  OrderInv'
<1> RequestsStay BY WhatStays
<1> QueueTypes BY DEF Types
<1>0. crashes \in Nat /\ faults \in Nat BY DEF Types, RequestTypes
<1>1. ASSUME NEW q \in Requests, PostRequest(q) PROVE OrderInv'
  BY <1>1, NothingQueued DEF PostRequest, Quiet
<1>2. ASSUME NEW s \in Slugs, NEW i \in ReqIds, NEW f \in Offers, Ask(s, i, f) PROVE OrderInv'
  BY <1>2, NothingQueued DEF Ask, Quiet
<1>3. ASSUME NEW a \in asking, Respond(a) PROVE OrderInv'
  <2>1. a.slug \in Slugs BY DEF Types, RequestTypes
  <2>2. /\ job[a.slug].op = "none" /\ job'[a.slug].op = "respond"
        /\ \A s \in Slugs : s # a.slug => job'[s] = job[s]
        /\ UNCHANGED <<inbox, accepted, crashes, faults>>
    BY <1>3, <2>1 DEF Respond, Unlocked, NoJob, QueueTypes
  <2> QED BY <2>2, NothingQueued DEF Quiet
<1>4. ASSUME NEW a \in asking, RespondFails(a) PROVE OrderInv'
  <2>1. UNCHANGED <<inbox, accepted, job, crashes>> /\ faults' \in {faults, faults + 1}
    BY <1>4 DEF RespondFails
  <2>2. Quiet' => Quiet BY <1>0, <2>1 DEF Quiet
  <2> QED BY <2>1, <2>2, NothingQueued
<1>5. ASSUME NEW s \in Slugs, ListResponse(s) PROVE OrderInv'
  <2>1. /\ UNCHANGED <<inbox, accepted, crashes>> /\ faults' \in {faults, faults + 1}
        /\ job[s].op = "respond" /\ job' = [job EXCEPT ![s] = NoJob]
    BY <1>5 DEF ListResponse
  <2>2. Quiet' => Quiet BY <1>0, <2>1 DEF Quiet
  <2>3. job'[s].op = "none" /\ \A t \in Slugs : t # s => job'[t] = job[t]
    BY <2>1, NoJobIs DEF QueueTypes
  <2> QED BY <2>1, <2>2, <2>3, NothingQueued
<1>6. ASSUME NEW s \in Slugs, DiskError(s) PROVE OrderInv'
  <2>1. /\ UNCHANGED <<inbox, accepted, crashes>> /\ faults' = faults + 1
        /\ job' = [job EXCEPT ![s] = NoJob]
    BY <1>6 DEF DiskError
  <2>2. ~Quiet' BY <1>0, <2>1 DEF Quiet
  <2>3. job'[s].op = "none" /\ \A t \in Slugs : t # s => job'[t] = job[t]
    BY <2>1, NoJobIs DEF QueueTypes
  <2> QED BY <2>1, <2>2, <2>3, NothingQueued
<1>7. CASE Crash
  <2>1. /\ UNCHANGED <<inbox, accepted>> /\ crashes' = crashes + 1
        /\ \A s \in Slugs : job'[s].op = "none"
    BY <1>7, NoJobIs DEF Crash
  <2>2. ~Quiet' BY <1>0, <2>1 DEF Quiet
  <2> QED BY <2>1, <2>2, NothingQueued
<1>8. CASE Tick BY <1>8, NothingQueued DEF Tick, Quiet
<1>9. CASE UNCHANGED vars BY <1>9, NothingQueued DEF vars, Quiet
<1> QED
  BY <1>1, <1>2, <1>3, <1>4, <1>5, <1>6, <1>7, <1>8, <1>9, OrderPosted, PartWritten,
     PartRemoved, OrderAnswered, OrderTaken DEF Next

-------------------------------------------------------------------------------
LEMMA AlwaysSafe == Spec => []IInv
<1>1. Init => IInv
  <2> SUFFICES ASSUME Init PROVE IInv OBVIOUS
  <2>1. RequestTypes BY DEF Init, RequestTypes
  <2>2. QueueTypes BY NoJobIs DEF Init, QueueTypes, Slots
  <2>3. CapSafe
    <3>1. OpenRequests = {} BY DEF Init, OpenRequests, Open
    <3> QED BY <3>1, FS_EmptySet, ConstantFacts DEF CapSafe, RequestCap
  <2>4. AnswerInv BY NoJobIs DEF Init, AnswerInv, ResponsesBacked, AnswersSafe
  <2>5. OrderInv
    BY NoJobIs DEF Init, OrderInv, AcceptedKept, JobsSafe, JobSafe, DirsSafe, DirSafe
  <2> QED BY <2>1, <2>2, <2>3, <2>4, <2>5 DEF IInv, Types
<1>2. IInv /\ [Next]_vars => IInv'
  BY RequestTypesKept, QueueTypesKept, CapKept, AnswersKept, OrdersInvKept DEF IInv, Types
<1> QED BY <1>1, <1>2, PTL DEF Spec

(* The hub never holds more open requests than its cap, and every auditor     *)
(* listed among a request's responses has an offer for it and was asked.      *)
THEOREM MarketSound == Spec => []RequestsSound
<1>1. IInv => RequestsSound
  BY TypesAreTypeOK DEF IInv, CapSafe, AnswerInv, RequestsSound
<1> QED BY <1>1, AlwaysSafe, PTL

(* What the hub accepted stays queued until it is taken or declined, and is   *)
(* shown whole while nothing failed, however orders of one id meet.           *)
THEOREM AcceptedOrdersKept == Spec => []OrdersKept
<1>1. IInv => OrdersKept
  <2> SUFFICES ASSUME IInv PROVE OrdersKept OBVIOUS
  <2> QueueTypes /\ OrderInv BY DEF IInv, Types
  <2>1. AcceptedKept BY DEF OrderInv
  <2>2. ASSUME Quiet, NEW o \in accepted PROVE o.id \in Queued(o.slug)
    <3>1. o \in Orders /\ o.slug \in Slugs /\ o.id \in OrderIds
      BY ConstantFacts DEF IInv, Types, RequestTypes
    <3>2. QueuedOrder(o.slug, o.id) = o BY <2>1 DEF AcceptedKept
    <3>3. /\ inbox[o.slug][o.id] # None /\ inbox[o.slug][o.id]["order.json"] = o
      BY <3>1, <3>2, QueuedIs
    <3>4. DirSafe(o.slug, o.id) /\ JobSafe(o.slug)
      BY <2>2, <3>1 DEF OrderInv, DirsSafe, JobsSafe
    <3>5. \A p \in Parts : inbox[o.slug][o.id][p] # None
      BY <3>1, <3>3, <3>4, ConstantFacts DEF DirSafe, JobSafe, WholeDir, Parts
    <3> QED BY <3>1, <3>3, <3>5 DEF Queued
  <2>3. ASSUME Quiet, NEW s \in Slugs, Unlocked(s), NEW i \in Queued(s), NEW p \in Parts
        PROVE  inbox[s][i][p] = QueuedOrder(s, i)
    <3>1. i \in OrderIds /\ inbox[s][i] # None BY <2>3 DEF Queued
    <3>2. WholeDir(inbox[s][i])
      BY <2>3, <3>1, NoJobIs DEF OrderInv, DirsSafe, DirSafe, Unlocked
    <3> QED BY <3>1, <3>2 DEF WholeDir, QueuedOrder, Parts
  <2> QED BY <2>1, <2>2, <2>3 DEF OrdersKept, QueuedWhole, Quiet
<1> QED BY <1>1, AlwaysSafe, PTL

(* Nobody but a request's author closes it, and only with an order for what   *)
(* it asks, which lies in a queue.                                            *)
THEOREM ClosedByItsAuthor == Spec => ClosedByOrder
<1> DEFINE Closes == \A i \in closed' \ closed : \E o \in Orders :
                        /\ o.req = i /\ o.key = request[i].key /\ o.want = request[i].want
                        /\ QueuedOrder(o.slug, o.id) = o
<1>1. IInv /\ [Next]_vars => [Closes]_vars
  <2> SUFFICES ASSUME IInv, [Next]_vars, NEW i \in closed' \ closed
               PROVE  \E o \in Orders :
                        /\ o.req = i /\ o.key = request[i].key /\ o.want = request[i].want
                        /\ QueuedOrder(o.slug, o.id) = o
    OBVIOUS
  <2> QueueTypes BY DEF IInv, Types
  <2>1. PICK s \in Slugs : CloseRequest(s)
    BY DEF Next, vars, PostRequest, Ask, Respond, RespondFails, ListResponse, PostOrder, WritePart,
       RemovePart, Removed, Take, Decline, DiskError, Crash, Tick
  <2>2. job[s].op = "order" /\ job[s].todo = {} /\ i = job[s].req /\ i # None
    BY <2>1 DEF CloseRequest
  <2>3. PICK o \in Orders : o = job[s].order /\ o.slug = s /\ inbox[s][o.id] # None
    BY <2>2, OrderTyped
  <2>4. /\ o.req = i /\ o.key = request[i].key /\ o.want = request[i].want
        /\ inbox[s][o.id]["order.json"] = o
    BY <2>2, <2>3 DEF IInv, OrderInv, JobsSafe, JobSafe
  <2> QED BY <2>3, <2>4 DEF QueuedOrder
<1>2. Spec => [][IInv /\ [Next]_vars]_vars BY AlwaysSafe, PTL DEF Spec
<1> QED BY <1>1, <1>2, PTL DEF ClosedByOrder

===============================================================================
