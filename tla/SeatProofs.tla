------------------------------ MODULE SeatProofs ------------------------------
(* What Seat promises for every number of attestations, orders and pushes.    *)
(* The strengthening says that the server's copy of the tree is behind the    *)
(* desk's and never beside it, what a signing has found and an order in       *)
(* flight has written so far, and that no push carries a status list.         *)
EXTENDS Seat, FiniteSetTheorems, WellFoundedInduction, TLAPS

(* The server's copy is what the desk has or had.                             *)
DeskFirst ==
    /\ plan \in Plans /\ published \in Nat
    /\ \A i \in Ids : site.att[i] \in {None, desk.att[i]} /\ site.rev[i] <= desk.rev[i]
    /\ deploy # None => StatusFile \notin deploy

Backed(l) ==
    \A i \in DOMAIN l : /\ l[i].att = site.att[i]
                        /\ l[i].rev <= site.rev[i]
                        /\ l[i].reply \in {None, replies[i]}

(* Whoever signs has found what is served, and looks for what is served.      *)
FoundBacked ==
    \A s \in Signers :
        work[s].doing = "sign" => Backed(work[s].found) /\ work[s].todo \subseteq Served

(* While nobody signs beside the process, its next list names what the last   *)
(* one named: what it has not found yet, it has still to look at.             *)
Covers ==
    /\ work["command"].doing # "order"
    /\ "command" \notin troubles =>
        /\ work["command"] = Free
        /\ list # None /\ work["process"].doing = "sign" =>
              LET w == work["process"] IN
              /\ DOMAIN list \subseteq DOMAIN w.found \cup w.todo
              /\ \A i \in DOMAIN list \cap DOMAIN w.found :
                    /\ w.found[i].att = list[i].att
                    /\ w.found[i].rev >= list[i].rev
                    /\ list[i].reply \in {None, w.found[i].reply}

Held == {i \in OrderIds : inbox[i] # None}

InFlight(i) == work["process"].doing = "order" /\ work["process"].order.id = i

(* An order being stored had no order of its id before it, and has a place.   *)
StoringSafe ==
    LET w == work["process"] IN
    w.doing = "order" =>
        /\ process = "up"
        /\ IF "order" \in w.todo
           THEN inbox[w.order.id] # None => inbox[w.order.id]["order"] = None
           ELSE inbox[w.order.id] # None /\ inbox[w.order.id]["order"] = w.order.ver
        /\ "scope" \notin w.todo => /\ inbox[w.order.id] # None
                                    /\ inbox[w.order.id]["scope"] = w.order.ver
        /\ \A o \in accepted : o.id # w.order.id
        /\ Cardinality(Held \cup {w.order.id}) <= MaxInbox

(* An order that is there whole or was cut short; what was pulled is there,   *)
(* and so is what was commissioned.                                           *)
InboxSafe ==
    /\ IsFiniteSet(Held)
    /\ \A i \in OrderIds :
          /\ inbox[i] # None /\ inbox[i]["order"] # None /\ i \notin cut /\ ~InFlight(i) =>
                inbox[i]["scope"] = inbox[i]["order"]
          /\ pulled[i]["order"] # None =>
                inbox[i] # None /\ inbox[i]["order"] = pulled[i]["order"]
    /\ \A i \in Ids :
          desk.att[i] # None /\ desk.att[i].order # None =>
             LET o == desk.att[i].order IN inbox[o.id] # None /\ inbox[o.id]["order"] = o.ver

TreeSafe == DeskFirst /\ ListBacked /\ FoundBacked /\ Covers
OrdersSafe == AcceptedKept /\ StoringSafe /\ InboxSafe
IInv == TypeOK /\ TreeSafe /\ OrdersSafe

-------------------------------------------------------------------------------
(* Types.                                                                     *)

LEMMA ConstantFacts ==
    /\ Ids \subseteq Nat /\ MaxInbox \in Nat /\ MaxRevisions \in Nat
    /\ None \notin Drafts /\ None \notin Orders /\ None \notin Versions
    /\ None \notin Bodies /\ None \notin StatusKeys
    /\ None \notin Directories /\ None \notin Lists
    /\ \A d \in Drafts : d.id \in Ids /\ d.order \in Orders \cup {None}
    /\ \A o \in Orders : /\ o = [id |-> o.id, ver |-> o.ver]
                         /\ o.id \in OrderIds /\ o.ver \in Versions
    /\ \A p \in Plans : /\ p.drafts \subseteq Drafts /\ p.orders \subseteq Orders
                        /\ p.revoked \subseteq Ids /\ p.replied \subseteq Ids
                        /\ p.keys \in Seq(StatusKeys)
BY SeatAssumption DEF OrderIds, Versions

(* What a signer or the process has in hand has the shape its name says.      *)
LEMMA InHand ==
    ASSUME TypeOK, NEW s \in Signers
    PROVE  /\ work[s].doing = "sign" => work[s] \in Signings
           /\ work[s].doing = "order" => work[s] \in Orderings
           /\ work[s] \in {Free} \cup Signings \cup Orderings
<1>1. work[s] \in {Free} \cup Signings \cup Orderings BY DEF TypeOK
<1> QED BY <1>1 DEF Free, Signings, Orderings

LEMMA ListFacts ==
    ASSUME NEW l \in Lists
    PROVE  DOMAIN l \subseteq Ids /\ \A i \in DOMAIN l : l[i] \in Entries
BY DEF Lists

LEMMA InitTyped == Init => TypeOK
<1> SUFFICES ASSUME Init PROVE TypeOK OBVIOUS
<1>1. EmptyTree \in Trees BY ConstantFacts DEF EmptyTree, Trees, Manifests
<1>2. inbox \in [OrderIds -> Directories \cup {None}] /\ pulled \in [OrderIds -> Directories]
  BY DEF Init, NoParts, Directories
<1>3. {i \in OrderIds : inbox[i] # None} = {} BY DEF Init
<1>4. Cardinality({i \in OrderIds : inbox[i] # None}) <= MaxInbox
  <2>1. Cardinality({}) = 0 BY FS_EmptySet, Zenon
  <2>2. 0 <= MaxInbox BY ConstantFacts
  <2> QED BY <1>3, <2>1, <2>2, Zenon
<1>5. /\ replies \in [Ids -> Bodies \cup {None}]
      /\ work \in [Signers -> {Free} \cup Signings \cup Orderings]
  BY DEF Init
<1> QED BY <1>1, <1>2, <1>4, <1>5 DEF Init, TypeOK

(* What stands in one signer's hand may change to anything of its types.      *)
LEMMA TakenUp ==
    ASSUME TypeOK, NEW s \in Signers, NEW w \in {Free} \cup Signings \cup Orderings
    PROVE  [work EXCEPT ![s] = w] \in [Signers -> {Free} \cup Signings \cup Orderings]
BY DEF TypeOK

LEMMA CollectingTyped == Collecting \in Signings
<1>1. <<>> \in [{} -> Entries] /\ {} \in SUBSET Ids OBVIOUS
<1>2. <<>> \in Lists BY <1>1 DEF Lists
<1> QED BY <1>2 DEF Collecting, Signing, Signings, Served

(* A whole entry of what is served.                                           *)
LEMMA EntryTyped ==
    ASSUME TypeOK, NEW i \in Ids, site.att[i] # None
    PROVE  EntryOf(i) \in Entries
BY DEF TypeOK, Trees, EntryOf, Entries

(* One more attestation is found.                                             *)
LEMMA FoundMore ==
    ASSUME NEW l \in Lists, NEW i \in Ids, Found(i) \in Entries
    PROVE  FoundWith(l, i) \in Lists
<1> DEFINE S == DOMAIN l \cup {i}
<1>1. S \in SUBSET Ids BY ListFacts
<1>2. FoundWith(l, i) \in [S -> Entries] BY ListFacts DEF FoundWith
<1> QED BY <1>1, <1>2 DEF Lists

(* The next attestation Collect looks at is one it has still to look at.      *)
LEMMA NextTyped ==
    ASSUME TypeOK, NEW s \in Signers, work[s].doing = "sign", work[s].todo # {}
    PROVE  NextOf(s) \in work[s].todo /\ NextOf(s) \in Ids
<1>1. work[s].todo \in SUBSET Nat BY InHand, ConstantFacts DEF Signings
<1>2. \E j \in work[s].todo : \A k \in work[s].todo : j <= k
  <2>1. PICK j \in work[s].todo : \A k \in work[s].todo : ~ (<<k, j>> \in OpToRel(<, Nat))
    BY <1>1, WFMin, NatLessThanWellFounded
  <2>2. ASSUME NEW k \in work[s].todo PROVE j <= k
    <3>1. j \in Nat /\ k \in Nat BY <1>1, <2>1
    <3>2. ~ (k < j)
      <4> SUFFICES ASSUME k < j PROVE FALSE OBVIOUS
      <4>1. <<k, j>> \in OpToRel(<, Nat) BY <3>1 DEF OpToRel
      <4> QED BY <2>1, <4>1
    <3> QED BY <3>1, <3>2
  <2> QED BY <2>2
<1> QED BY <1>2, InHand DEF NextOf, Signings

(* A part of an order is written, or only its directory is there.             *)
LEMMA DirectoryTyped ==
    ASSUME TypeOK, NEW i \in OrderIds
    PROVE  /\ InDirectory(i) \in Directories
           /\ InDirectory(i) # None
           /\ \A p \in Parts, v \in Versions :
                 /\ [InDirectory(i) EXCEPT ![p] = v] \in Directories
                 /\ [InDirectory(i) EXCEPT ![p] = v] # None
<1>1. InDirectory(i) \in Directories
  <2>1. NoParts \in Directories BY DEF NoParts, Directories
  <2> QED BY <2>1 DEF TypeOK, InDirectory
<1>2. ASSUME NEW p \in Parts, NEW v \in Versions
      PROVE  [InDirectory(i) EXCEPT ![p] = v] \in Directories
  BY <1>1 DEF Directories
<1> QED BY <1>1, <1>2, ConstantFacts

(* The order in flight keeps to its place in the inbox.                       *)
LEMMA PlaceKept ==
    ASSUME TypeOK, StoringSafe, work["process"].doing = "order",
           NEW d \in Directories, NEW i, i = work["process"].order.id,
           inbox' = [inbox EXCEPT ![i] = d]
    PROVE  /\ inbox' \in [OrderIds -> Directories \cup {None}]
           /\ Held' = Held \cup {i}
           /\ Cardinality(Held') <= MaxInbox
<1>1. i \in OrderIds
  <2>1. work["process"] \in Orderings BY InHand DEF Signers
  <2> QED BY <2>1, ConstantFacts DEF Orderings
<1>2. inbox' \in [OrderIds -> Directories \cup {None}] BY <1>1 DEF TypeOK
<1>3. Held' = Held \cup {i} BY <1>1, <1>2, ConstantFacts DEF Held, TypeOK
<1>4. Cardinality(Held \cup {i}) <= MaxInbox BY DEF StoringSafe
<1> QED BY <1>2, <1>3, <1>4

LEMMA TypeStep == IInv /\ [Next]_vars => TypeOK'
<1> SUFFICES ASSUME IInv, [Next]_vars PROVE TypeOK' OBVIOUS
<1>0. TypeOK /\ DeskFirst /\ ListBacked /\ FoundBacked /\ StoringSafe
  BY DEF IInv, TreeSafe, OrdersSafe
<1> USE <1>0, ConstantFacts DEF desks, trees, orders
<1>1. ASSUME NEW d \in Drafts, Issue(d) PROVE TypeOK'
  <2>1. desk' \in Trees BY <1>1 DEF Issue, TypeOK, Trees
  <2> QED BY <1>1, <2>1 DEF Issue, TypeOK, Trees, Manifests
<1>2. ASSUME NEW i \in Ids, Revoke(i) PROVE TypeOK'
  <2>1. desk.rev[i] \in 0 .. MaxRevisions /\ desk.rev[i] < MaxRevisions
    BY <1>2 DEF Revoke, TypeOK, Trees
  <2>2. desk.rev[i] + 1 \in 0 .. MaxRevisions BY <2>1
  <2>3. desk' \in Trees BY <1>2, <2>2 DEF Revoke, TypeOK, Trees
  <2> QED BY <1>2, <2>3 DEF Revoke, TypeOK, Trees, Manifests
<1>3. CASE Publish
  <2>1. plan.keys \in Seq(StatusKeys) BY DEF DeskFirst
  <2>2. published + 1 \in 1 .. Len(plan.keys) BY <1>3, <2>1 DEF Publish, DeskFirst
  <2>3. plan.keys[published + 1] \in StatusKeys BY <2>1, <2>2
  <2>4. Manifests \subseteq Manifests' BY <1>3 DEF Publish, Manifests, DeskFirst
  <2>5. desk'.manifest \in Manifests'
    BY <1>3, <2>3 DEF Publish, Manifests, DeskFirst, TypeOK, Trees
  <2>6. desk' \in Trees' BY <1>3, <2>5 DEF Publish, TypeOK, Trees
  <2>7. site' \in Trees' BY <1>3, <2>4 DEF Publish, TypeOK, Trees
  <2>8. lapsed' \in 0 .. published' BY <1>3 DEF Publish, TypeOK, DeskFirst
  <2> QED BY <1>3, <2>6, <2>7, <2>8 DEF Publish, TypeOK
<1>4. CASE Lapse
  <2>1. lapsed' \in 0 .. published' BY <1>4 DEF Lapse, TypeOK, DeskFirst
  <2> QED BY <1>4, <2>1 DEF Lapse, TypeOK, Trees, Manifests
<1>5. ASSUME NEW i \in OrderIds, NEW p \in Parts, Pull(i, p) PROVE TypeOK'
  <2>1. pulled' \in [OrderIds -> Directories] BY <1>5 DEF Pull, TypeOK, Directories
  <2> QED BY <1>5, <2>1 DEF Pull, TypeOK, Trees, Manifests
<1>6. CASE Deploy
  <2>1. hostkey' \in StatusKeys \cup {None} BY <1>6 DEF Deploy, TypeOK, Trees, Manifests
  <2> QED BY <1>6, <2>1 DEF Deploy, TypeOK, Trees, Manifests
<1>7. ASSUME Stop, UNCHANGED <<plan, desks, trees, hostkey, inbox, accepted, lapsed>> PROVE TypeOK'
  <2>1. work' \in [Signers -> {Free} \cup Signings \cup Orderings]
    BY <1>7, TakenUp DEF Stop, Signers
  <2>2. cut' \subseteq OrderIds
    <3>1. work["process"].doing = "order" => work["process"].order.id \in OrderIds
      BY InHand DEF Signers, Orderings
    <3> QED BY <1>7, <3>1 DEF Stop, TypeOK
  <2> QED BY <1>7, <2>1, <2>2 DEF Stop, TypeOK, Trees, Manifests
<1>8. CASE Restart \/ Crash BY <1>7, <1>8 DEF Restart, Crash
<1>9. CASE DeployFails BY <1>9 DEF DeployFails, TypeOK, Trees, Manifests
<1>10. ASSUME NEW f \in DeskFiles, Push(f) PROVE TypeOK'
  <2>1. f # StatusFile BY <1>10 DEF Push, DeskFirst
  <2>2. list' = list BY <1>10, <2>1 DEF Push, DeskFiles, Manifest, StatusFile
  <2>3. site' \in Trees
    <3>1. CASE f = Manifest
      <4>1. site' = [site EXCEPT !.manifest = desk.manifest] BY <1>10, <3>1 DEF Push, Manifest
      <4> QED BY <4>1 DEF TypeOK, Trees
    <3>2. CASE f.kind = "att" /\ f.id \in Ids
      <4>1. site' = [site EXCEPT !.att[f.id] = desk.att[f.id]] BY <1>10, <3>2 DEF Push
      <4> QED BY <3>2, <4>1 DEF TypeOK, Trees
    <3>3. CASE f.kind = "rev" /\ f.id \in Ids
      <4>1. site' = [site EXCEPT !.rev[f.id] = desk.rev[f.id]] BY <1>10, <3>3 DEF Push
      <4> QED BY <3>3, <4>1 DEF TypeOK, Trees
    <3> QED BY <2>1, <3>1, <3>2, <3>3 DEF DeskFiles
  <2> QED BY <1>10, <2>2, <2>3 DEF Push, TypeOK, Trees, Manifests
<1>11. ASSUME NEW s \in Signers, Collect(s) PROVE TypeOK'
  <2> DEFINE i == NextOf(s)
             w == Signing(work[s].todo \ {i}, FoundWith(work[s].found, i))
  <2>1. work[s] \in Signings /\ i \in work[s].todo /\ i \in Ids
    BY <1>11, InHand, NextTyped DEF Collect
  <2>2. Found(i) \in Entries
    <3>1. site.att[i] # None BY <1>11, <2>1 DEF Collect, FoundBacked, Served
    <3> QED BY <2>1, <3>1, EntryTyped DEF Found
  <2>3. w \in Signings
    <3>1. FoundWith(work[s].found, i) \in Lists BY <2>1, <2>2, FoundMore DEF Signings
    <3> QED BY <2>1, <3>1 DEF Signings, Signing
  <2>4. work' = [work EXCEPT ![s] = w] BY <1>11 DEF Collect
  <2>5. work' \in [Signers -> {Free} \cup Signings \cup Orderings]
    <3> HIDE DEF w
    <3> QED BY <2>3, <2>4, TakenUp
  <2> QED BY <1>11, <2>5 DEF Collect, TypeOK, Trees, Manifests
<1>12. ASSUME NEW s \in Signers, WriteList(s) PROVE TypeOK'
  <2>1. work[s] \in Signings BY <1>12, InHand DEF WriteList
  <2>2. list' \in Lists BY <1>12, <2>1 DEF WriteList, Signings
  <2>3. work' \in [Signers -> {Free} \cup Signings \cup Orderings]
    BY <1>12, TakenUp DEF WriteList, Ended
  <2>4. process' \in {"absent", "down", "starting", "up"} BY <1>12 DEF WriteList, TypeOK
  <2> QED BY <1>12, <2>2, <2>3, <2>4 DEF WriteList, Ended, TypeOK, Trees, Manifests
<1>13. ASSUME NEW s \in Signers, WriteListFails(s) PROVE TypeOK'
  <2>1. work' \in [Signers -> {Free} \cup Signings \cup Orderings]
    BY <1>13, TakenUp DEF WriteListFails, Ended
  <2>2. process' \in {"absent", "down", "starting", "up"} BY <1>13 DEF WriteListFails, TypeOK
  <2> QED BY <1>13, <2>1, <2>2 DEF WriteListFails, Ended, TypeOK, Trees, Manifests
<1>14. ASSUME NEW s \in Signers, work' = [work EXCEPT ![s] = Collecting],
              process' \in {process, "starting"},
              UNCHANGED <<desks, trees, hostkey, orders, lapsed>>
       PROVE TypeOK'
  <2>1. work' \in [Signers -> {Free} \cup Signings \cup Orderings]
    BY <1>14, TakenUp, CollectingTyped
  <2> QED BY <1>14, <2>1 DEF TypeOK, Trees, Manifests
<1>15. CASE Start \/ Resign \/ StatusCommand
  BY <1>14, <1>15 DEF Start, Resign, StatusCommand, Signers
<1>16. ASSUME NEW i \in Ids, NEW b \in Bodies, PostResponse(i, b) PROVE TypeOK'
  <2>1. replies' \in [Ids -> Bodies \cup {None}] BY <1>16 DEF PostResponse, TypeOK
  <2>2. work' \in [Signers -> {Free} \cup Signings \cup Orderings]
    <3>1. CASE work' = work BY <3>1 DEF TypeOK
    <3>2. CASE work' = [work EXCEPT !["process"] = Collecting]
      BY <3>2, TakenUp, CollectingTyped DEF Signers
    <3> QED BY <1>16, <3>1, <3>2 DEF PostResponse
  <2> QED BY <1>16, <2>1, <2>2 DEF PostResponse, TypeOK, Trees, Manifests
<1>17. ASSUME NEW o \in Orders, PostOrder(o) PROVE TypeOK'
  <2>1. Ordering(o, Parts) \in Orderings BY DEF Ordering, Orderings
  <2>2. work' \in [Signers -> {Free} \cup Signings \cup Orderings]
    <3>1. CASE work' = work BY <3>1 DEF TypeOK
    <3>2. CASE work' = [work EXCEPT !["process"] = Ordering(o, Parts)]
      BY <3>2, <2>1, TakenUp DEF Signers
    <3> QED BY <1>17, <3>1, <3>2 DEF PostOrder
  <2>3. accepted' \subseteq Orders BY <1>17 DEF PostOrder, TypeOK
  <2> QED BY <1>17, <2>2, <2>3 DEF PostOrder, TypeOK, Trees, Manifests
<1>18. ASSUME NEW p \in Parts, WriteOrder(p) PROVE TypeOK'
  <2> DEFINE w == work["process"]
             d == [InDirectory(w.order.id) EXCEPT ![p] = w.order.ver]
  <2>1. w \in Orderings /\ w.order \in Orders BY <1>18, InHand DEF WriteOrder, Signers, Orderings
  <2>2. d \in Directories BY <2>1, DirectoryTyped
  <2>3. inbox' = [inbox EXCEPT ![w.order.id] = d] BY <1>18 DEF WriteOrder
  <2>4. inbox' \in [OrderIds -> Directories \cup {None}] /\ Cardinality(Held') <= MaxInbox
    <3> HIDE DEF d
    <3> QED BY <1>18, <2>2, <2>3, PlaceKept DEF WriteOrder
  <2>5. [w EXCEPT !.todo = @ \ {p}] \in Orderings BY <2>1 DEF Orderings
  <2>6. work' = [work EXCEPT !["process"] = [w EXCEPT !.todo = @ \ {p}]]
    BY <1>18 DEF WriteOrder, TypeOK, Signers
  <2>7. work' \in [Signers -> {Free} \cup Signings \cup Orderings]
    BY <2>5, <2>6, TakenUp DEF Signers
  <2> QED BY <1>18, <2>4, <2>7 DEF WriteOrder, TypeOK, Trees, Manifests, Held
<1>19. CASE WriteOrderFails
  <2> DEFINE w == work["process"]
  <2>1. w \in Orderings /\ w.order \in Orders
    BY <1>19, InHand DEF WriteOrderFails, Signers, Orderings
  <2>2. inbox' \in [OrderIds -> Directories \cup {None}] /\ Cardinality(Held') <= MaxInbox
    <3>1. CASE inbox' = inbox BY <3>1 DEF TypeOK, Held
    <3>2. CASE inbox' = [inbox EXCEPT ![w.order.id] = InDirectory(w.order.id)]
      BY <1>19, <2>1, <3>2, DirectoryTyped, PlaceKept DEF WriteOrderFails
    <3> QED BY <1>19, <3>1, <3>2 DEF WriteOrderFails
  <2>3. work' \in [Signers -> {Free} \cup Signings \cup Orderings]
    BY <1>19, TakenUp DEF WriteOrderFails, Signers
  <2>4. cut' \subseteq OrderIds BY <1>19, <2>1 DEF WriteOrderFails, TypeOK
  <2> QED BY <1>19, <2>2, <2>3, <2>4 DEF WriteOrderFails, TypeOK, Trees, Manifests, Held
<1>20. CASE Accept
  <2>1. work["process"].order \in Orders BY <1>20, InHand DEF Accept, Signers, Orderings
  <2>2. work' \in [Signers -> {Free} \cup Signings \cup Orderings]
    BY <1>20, TakenUp DEF Accept, Signers
  <2> QED BY <1>20, <2>1, <2>2 DEF Accept, TypeOK, Trees, Manifests
<1>21. CASE UNCHANGED vars BY <1>21 DEF vars, TypeOK, Trees, Manifests
<1> QED
  BY <1>1, <1>2, <1>3, <1>4, <1>5, <1>6, <1>8, <1>9, <1>10, <1>11, <1>12, <1>13, <1>15,
     <1>16, <1>17, <1>18, <1>19, <1>20, <1>21, Zenon DEF Next, ServerStep, Signers

-------------------------------------------------------------------------------
(* The tree and its list.                                                     *)

(* Only a push changes the served tree, only a reply the replies, only a      *)
(* signer that has found everything the list.                                 *)
LEMMA WhoWrites ==
    ASSUME IInv, [Next]_vars
    PROVE  /\ site' = site \/ \E f \in DeskFiles : Push(f)
           /\ replies' = replies \/ \E i \in Ids, b \in Bodies : PostResponse(i, b)
           /\ list' = list \/ \E s \in Signers : WriteList(s)
<1> USE DEF desks, trees, orders
<1>1. ASSUME NEW f \in DeskFiles, Push(f) PROVE UNCHANGED <<replies, list>>
  <2>1. f # StatusFile BY <1>1 DEF Push, IInv, TreeSafe, DeskFirst
  <2> QED BY <1>1, <2>1 DEF Push, DeskFiles, Manifest, StatusFile
<1>2. ASSUME NEW i \in Ids, NEW b \in Bodies, PostResponse(i, b) PROVE UNCHANGED <<site, list>>
  BY <1>2 DEF PostResponse
<1>3. ASSUME NEW s \in Signers, WriteList(s) PROVE UNCHANGED <<site, replies>>
  BY <1>3 DEF WriteList, Ended
<1>4. ASSUME NEW s \in Signers, Collect(s) \/ WriteListFails(s) PROVE UNCHANGED trees
  BY <1>4 DEF Collect, WriteListFails, Ended
<1>5. ASSUME \/ \E d \in Drafts : Issue(d)
             \/ \E i \in Ids : Revoke(i)
             \/ Publish \/ Lapse \/ Deploy \/ Restart \/ DeployFails
             \/ \E i \in OrderIds, p \in Parts : Pull(i, p)
      PROVE UNCHANGED trees
  BY <1>5 DEF Issue, Revoke, Publish, Lapse, Deploy, Restart, DeployFails, Pull
<1>6. ASSUME \/ Start \/ Resign \/ StatusCommand \/ Crash \/ Accept \/ WriteOrderFails
             \/ \E o \in Orders : PostOrder(o)
             \/ \E p \in Parts : WriteOrder(p)
      PROVE UNCHANGED trees
  BY <1>6 DEF Start, Resign, StatusCommand, Crash, Accept, WriteOrderFails, PostOrder, WriteOrder
<1>7. UNCHANGED vars => UNCHANGED trees BY DEF vars
<1> QED BY <1>1, <1>2, <1>3, <1>4, <1>5, <1>6, <1>7, Zenon DEF Next, ServerStep, Signers

(* What a step may make of the tree: more.                                    *)
Grown ==
    \A i \in Ids : /\ site.att[i] \in {None, site'.att[i]}
                   /\ site'.rev[i] >= site.rev[i]
                   /\ replies[i] \in {None, replies'[i]}

LEMMA TreeGrows == IInv /\ [Next]_vars => Grown
<1> SUFFICES ASSUME IInv, [Next]_vars PROVE Grown OBVIOUS
<1> USE DEF IInv, TreeSafe
<1> DEFINE SiteGrows ==
             \A i \in Ids : site.att[i] \in {None, site'.att[i]} /\ site'.rev[i] >= site.rev[i]
           RepliesGrow == \A i \in Ids : replies[i] \in {None, replies'[i]}
<1>1. SiteGrows
  <2>0. \A i \in Ids : site.rev[i] \in Nat /\ desk.rev[i] \in Nat
    BY ConstantFacts DEF TypeOK, Trees
  <2>1. CASE site' = site BY <2>0, <2>1
  <2>2. ASSUME NEW f \in DeskFiles, Push(f) PROVE SiteGrows
    <3>1. f # StatusFile BY <2>2 DEF Push, DeskFirst
    <3>2. CASE f = Manifest
      <4>1. site' = [site EXCEPT !.manifest = desk.manifest] BY <2>2, <3>2 DEF Push, Manifest
      <4> QED BY <4>1, <2>0 DEF TypeOK, Trees
    <3>3. CASE f.kind = "att" /\ f.id \in Ids
      <4>1. site' = [site EXCEPT !.att[f.id] = desk.att[f.id]] BY <2>2, <3>3 DEF Push
      <4> QED BY <3>3, <4>1, <2>0 DEF TypeOK, Trees, DeskFirst
    <3>4. CASE f.kind = "rev" /\ f.id \in Ids
      <4>1. site' = [site EXCEPT !.rev[f.id] = desk.rev[f.id]] BY <2>2, <3>4 DEF Push
      <4> QED BY <3>4, <4>1, <2>0 DEF TypeOK, Trees, DeskFirst
    <3> QED BY <3>1, <3>2, <3>3, <3>4 DEF DeskFiles
  <2> QED BY <2>1, <2>2, WhoWrites
<1>2. RepliesGrow
  <2>1. CASE replies' = replies BY <2>1
  <2>2. ASSUME NEW i \in Ids, NEW b \in Bodies, PostResponse(i, b) PROVE RepliesGrow
    BY <2>2 DEF PostResponse, SameBytes, TypeOK
  <2> QED BY <2>1, <2>2, WhoWrites
<1> QED BY <1>1, <1>2 DEF Grown

(* A list backed before a step is backed after it.                            *)
BackedNext(l) ==
    \A i \in DOMAIN l : /\ l[i].att = site'.att[i]
                        /\ l[i].rev <= site'.rev[i]
                        /\ l[i].reply \in {None, replies'[i]}

LEMMA BackedKept ==
    ASSUME TypeOK, TypeOK', Grown
    PROVE  \A l \in Lists : Backed(l) => BackedNext(l)
<1> SUFFICES ASSUME NEW l \in Lists, Backed(l), NEW i \in DOMAIN l
             PROVE  /\ l[i].att = site'.att[i]
                    /\ l[i].rev <= site'.rev[i]
                    /\ l[i].reply \in {None, replies'[i]}
  BY DEF BackedNext
<1>1. i \in Ids /\ l[i] \in Entries BY ListFacts
<1>2. l[i].att # None /\ l[i].rev \in Nat BY <1>1, ConstantFacts DEF Entries
<1>3. site.rev[i] \in Nat /\ site'.rev[i] \in Nat BY <1>1, ConstantFacts DEF TypeOK, Trees
<1> QED BY <1>1, <1>2, <1>3 DEF Backed, Grown

(* What a step may make of what a signer has in hand.                         *)
LEMMA WorkMoves ==
    ASSUME IInv, [Next]_vars, NEW s \in Signers
    PROVE  \/ work'[s] = work[s] \/ work'[s] = Free \/ Collect(s)
           \/ work'[s] = Collecting /\ list' = list /\ (s = "command" => "command" \in troubles')
           \/ work'[s].doing = "order" /\ s = "process"
<1>0. work = [t \in Signers |-> work[t]] BY DEF IInv, TypeOK
<1> USE DEF IInv, TypeOK, Signers, orders
<1>1. ASSUME NEW t \in Signers, WriteList(t) \/ WriteListFails(t)
      PROVE work'[s] \in {work[s], Free}
  BY <1>1 DEF WriteList, WriteListFails, Ended
<1>2. ASSUME NEW t \in Signers, Collect(t) PROVE work'[s] = work[s] \/ Collect(s)
  BY <1>2 DEF Collect
<1>3. ASSUME Restart \/ Crash \/ Accept \/ WriteOrderFails PROVE work'[s] \in {work[s], Free}
  BY <1>3 DEF Restart, Crash, Stop, Accept, WriteOrderFails
<1>4. ASSUME Start \/ Resign \/ StatusCommand
      PROVE  \/ work'[s] = work[s]
             \/ work'[s] = Collecting /\ list' = list /\ (s = "command" => "command" \in troubles')
  BY <1>4 DEF Start, Resign, StatusCommand, Trouble, trees
<1>5. ASSUME NEW i \in Ids, NEW b \in Bodies, PostResponse(i, b)
      PROVE \/ work'[s] = work[s]
            \/ work'[s] = Collecting /\ list' = list /\ s = "process"
  BY <1>5 DEF PostResponse
<1>6. ASSUME NEW o \in Orders, PostOrder(o)
      PROVE work'[s] = work[s] \/ (work'[s].doing = "order" /\ s = "process")
  <2>1. Ordering(o, Parts).doing = "order" BY DEF Ordering
  <2>2. work' = work \/ work' = [work EXCEPT !["process"] = Ordering(o, Parts)]
    BY <1>6 DEF PostOrder
  <2>3. CASE s = "process" BY <2>1, <2>2, <2>3
  <2>4. CASE s # "process"  BY <1>0, <2>2, <2>4
  <2> QED BY <2>3, <2>4
<1>7. ASSUME NEW p \in Parts, WriteOrder(p)
      PROVE work'[s] = work[s] \/ (work'[s].doing = "order" /\ s = "process")
  <2>1. work["process"] \in Orderings BY <1>7, InHand DEF WriteOrder
  <2>2. work' = [work EXCEPT !["process"].todo = @ \ {p}] BY <1>7 DEF WriteOrder
  <2>3. CASE s = "process" BY <2>1, <2>2, <2>3 DEF Orderings
  <2>4. CASE s # "process"  BY <1>0, <2>2, <2>4
  <2> QED BY <2>3, <2>4
<1>8. ASSUME \/ \E d \in Drafts : Issue(d)
             \/ \E i \in Ids : Revoke(i)
             \/ Publish \/ Lapse \/ Deploy \/ DeployFails
             \/ \E i \in OrderIds, p \in Parts : Pull(i, p)
             \/ \E f \in DeskFiles : Push(f)
      PROVE work' = work
  BY <1>8 DEF Issue, Revoke, Publish, Lapse, Deploy, DeployFails, Pull, Push
<1>9. UNCHANGED vars => work' = work BY DEF vars
<1> HIDE DEF IInv, TypeOK, orders
<1> QED BY <1>1, <1>2, <1>3, <1>4, <1>5, <1>6, <1>7, <1>8, <1>9, Zenon DEF Next, ServerStep

LEMMA DeskStep == IInv /\ [Next]_vars => DeskFirst'
<1> SUFFICES ASSUME IInv, [Next]_vars PROVE DeskFirst' OBVIOUS
<1> USE ConstantFacts DEF IInv, TreeSafe, DeskFirst, TypeOK, Trees, desks
<1>0. \A i \in Ids : /\ site.rev[i] \in Nat /\ desk.rev[i] \in Nat
                     /\ site.rev[i] <= desk.rev[i]
                     /\ site.att[i] \in {None, desk.att[i]}
  OBVIOUS
<1>1. ASSUME NEW d \in Drafts, Issue(d) PROVE DeskFirst'
  BY <1>1 DEF Issue, IdExists, trees
<1>2. ASSUME NEW i \in Ids, Revoke(i) PROVE DeskFirst'
  BY <1>0, <1>2 DEF Revoke, trees
<1>3. CASE Publish BY <1>3 DEF Publish, trees
<1>4. CASE Deploy BY <1>4 DEF Deploy, Excluded, trees
<1>5. ASSUME NEW f \in DeskFiles, Push(f) PROVE DeskFirst'
  <2>1. /\ deploy' # None => StatusFile \notin deploy'
        /\ UNCHANGED <<plan, published, desk>>
    BY <1>5 DEF Push
  <2>2. CASE f = Manifest
    <3>1. site' = [site EXCEPT !.manifest = desk.manifest] BY <1>5, <2>2 DEF Push, Manifest
    <3> QED BY <2>1, <3>1
  <2>3. CASE f.kind = "att" /\ f.id \in Ids
    <3>1. site' = [site EXCEPT !.att[f.id] = desk.att[f.id]] BY <1>5, <2>3 DEF Push
    <3>2. site'.rev = site.rev BY <3>1
    <3>3. \A i \in Ids : site'.att[i] = IF i = f.id THEN desk.att[i] ELSE site.att[i] BY <3>1
    <3> QED BY <2>1, <3>2, <3>3
  <2>4. CASE f.kind = "rev" /\ f.id \in Ids
    <3>1. site' = [site EXCEPT !.rev[f.id] = desk.rev[f.id]] BY <1>5, <2>4 DEF Push
    <3>2. site'.att = site.att BY <3>1
    <3>3. \A i \in Ids : site'.rev[i] = IF i = f.id THEN desk.rev[i] ELSE site.rev[i] BY <3>1
    <3>4. plan \in Plans /\ published \in Nat OBVIOUS
    <3> HIDE DEF TypeOK, Trees, TreeSafe, IInv
    <3>5. \A i \in Ids : site'.rev[i] <= desk.rev[i] BY <1>0, <3>3
    <3> QED BY <1>0, <2>1, <3>2, <3>4, <3>5
  <2>5. f # StatusFile BY <1>5 DEF Push
  <2> QED BY <2>2, <2>3, <2>4, <2>5 DEF DeskFiles
<1>6. ASSUME Restart \/ DeployFails PROVE DeskFirst'
  BY <1>6 DEF Restart, DeployFails, Stop, trees
<1>7. ASSUME UNCHANGED <<plan, published, desk, site, deploy>> PROVE DeskFirst' BY <1>7
<1>8. ASSUME \/ Start \/ Resign \/ StatusCommand \/ Crash \/ Accept \/ WriteOrderFails \/ Lapse
             \/ \E o \in Orders : PostOrder(o)
             \/ \E p \in Parts : WriteOrder(p)
             \/ \E i \in OrderIds, p \in Parts : Pull(i, p)
             \/ \E i \in Ids, b \in Bodies : PostResponse(i, b)
             \/ UNCHANGED vars
      PROVE UNCHANGED <<plan, published, desk, site, deploy>>
  BY <1>8 DEF Start, Resign, StatusCommand, Crash, Accept, WriteOrderFails, Lapse, PostOrder,
     WriteOrder, Pull, PostResponse, vars, trees
<1>9. ASSUME NEW s \in Signers, Collect(s) \/ WriteList(s) \/ WriteListFails(s)
      PROVE UNCHANGED <<plan, published, desk, site, deploy>>
  BY <1>9 DEF Collect, WriteList, WriteListFails, Ended, trees
<1> HIDE DEF IInv, TreeSafe, DeskFirst, TypeOK
<1> QED BY <1>1, <1>2, <1>3, <1>4, <1>5, <1>6, <1>7, <1>8, <1>9, Zenon DEF Next, ServerStep, Signers

(* Who signs has found what is served.                                        *)
LEMMA FoundStep == IInv /\ [Next]_vars => FoundBacked'
<1> SUFFICES ASSUME IInv, [Next]_vars, NEW s \in Signers, work'[s].doing = "sign"
             PROVE  BackedNext(work'[s].found) /\ work'[s].todo \subseteq Served'
  BY DEF FoundBacked, Backed, BackedNext
<1>0. TypeOK /\ FoundBacked /\ TypeOK' /\ Grown
  BY TypeStep, TreeGrows DEF IInv, TreeSafe
<1>1. Served \subseteq Served' BY <1>0 DEF Served, Grown
<1>2. \A l \in Lists : Backed(l) => BackedNext(l) BY <1>0, BackedKept
<1>3. CASE work'[s] = work[s]
  <2>1. work[s].found \in Lists BY <1>0, <1>3, InHand DEF Signings
  <2>2. Backed(work[s].found) /\ work[s].todo \subseteq Served BY <1>0, <1>3 DEF FoundBacked
  <2> QED BY <1>1, <1>2, <1>3, <2>1, <2>2
<1>4. CASE work'[s] = Free BY <1>4 DEF Free
<1>5. CASE Collect(s)
  <2> DEFINE i == NextOf(s)
  <2>1. work[s] \in Signings /\ i \in work[s].todo /\ i \in Ids
    BY <1>0, <1>5, InHand, NextTyped DEF Collect
  <2>2. work[s].found \in Lists /\ Backed(work[s].found) /\ work[s].todo \subseteq Served
    BY <1>0, <1>5, <2>1 DEF FoundBacked, Collect, Signings
  <2>3. work'[s] = Signing(work[s].todo \ {i}, FoundWith(work[s].found, i))
    BY <1>0, <1>5 DEF Collect, TypeOK
  <2>4. BackedNext(FoundWith(work[s].found, i))
    <3>1. BackedNext(work[s].found) BY <1>2, <2>2
    <3>2. UNCHANGED <<site, replies>> BY <1>5 DEF Collect, trees
    <3>3. Found(i).att = site.att[i] /\ Found(i).rev = site.rev[i] /\ Found(i).reply = replies[i]
      BY DEF Found, EntryOf
    <3>4. site.rev[i] \in Nat BY <1>0, <2>1, ConstantFacts DEF TypeOK, Trees
    <3> HIDE DEF i
    <3> QED BY <3>1, <3>2, <3>3, <3>4 DEF BackedNext, FoundWith
  <2> QED BY <1>1, <2>2, <2>3, <2>4 DEF Signing
<1>6. CASE work'[s] = Collecting
  <2>1. work'[s].found = <<>> /\ work'[s].todo = Served BY <1>6 DEF Collecting, Signing
  <2> QED BY <1>1, <2>1 DEF BackedNext
<1>7. CASE work'[s].doing = "order" BY <1>7
<1> QED BY <1>3, <1>4, <1>5, <1>6, <1>7, WorkMoves

(* What the list names, it has from a signer that found it.                   *)
LEMMA ListStep == IInv /\ [Next]_vars => ListBacked'
<1> SUFFICES ASSUME IInv, [Next]_vars PROVE ListBacked' OBVIOUS
<1>0. TypeOK /\ ListBacked /\ FoundBacked /\ TypeOK' /\ Grown
  BY TypeStep, TreeGrows DEF IInv, TreeSafe
<1>1. \A l \in Lists : Backed(l) => BackedNext(l) BY <1>0, BackedKept
<1>2. CASE list' = list
  <2>1. list # None => list \in Lists /\ Backed(list) BY <1>0 DEF TypeOK, ListBacked, Backed
  <2> QED BY <1>1, <1>2, <2>1 DEF ListBacked, BackedNext
<1>3. ASSUME NEW s \in Signers, WriteList(s) PROVE ListBacked'
  <2>1. list' = work[s].found /\ list' \in Lists BY <1>0, <1>3, InHand DEF WriteList, Signings
  <2>2. Backed(work[s].found) BY <1>0, <1>3 DEF WriteList, FoundBacked
  <2> QED BY <1>1, <2>1, <2>2 DEF ListBacked, BackedNext
<1> QED BY <1>2, <1>3, WhoWrites

(* Troubles that occurred have occurred.                                      *)
LEMMA TroublesGrow == [Next]_vars => troubles \subseteq troubles'
<1> SUFFICES ASSUME [Next]_vars PROVE troubles \subseteq troubles' OBVIOUS
<1>1. ASSUME \/ \E d \in Drafts : Issue(d)
             \/ \E i \in Ids : Revoke(i)
             \/ Publish \/ Lapse \/ Deploy \/ Restart \/ DeployFails
             \/ \E i \in OrderIds, p \in Parts : Pull(i, p)
             \/ \E f \in DeskFiles : Push(f)
             \/ Start \/ Resign \/ Accept
             \/ \E p \in Parts : WriteOrder(p)
             \/ UNCHANGED vars
      PROVE troubles' = troubles
  BY <1>1 DEF Issue, Revoke, Publish, Lapse, Deploy, Restart, DeployFails, Pull, Push, Start,
     Resign, Accept, WriteOrder, vars
<1>2. ASSUME \/ \E i \in Ids, b \in Bodies : PostResponse(i, b)
             \/ \E o \in Orders : PostOrder(o)
             \/ \E s \in Signers : Collect(s) \/ WriteList(s)
      PROVE troubles' = troubles
  BY <1>2 DEF PostResponse, PostOrder, Collect, WriteList
<1>3. ASSUME \/ WriteOrderFails \/ Crash \/ StatusCommand
             \/ \E s \in Signers : WriteListFails(s)
      PROVE troubles \subseteq troubles'
  BY <1>3 DEF WriteOrderFails, Crash, StatusCommand, WriteListFails, Trouble
<1> QED BY <1>1, <1>2, <1>3, Zenon DEF Next, ServerStep, Signers

(* The list in the making misses nothing.                                     *)
LEMMA CoversStep == IInv /\ [Next]_vars => Covers'
<1> SUFFICES ASSUME IInv, [Next]_vars PROVE Covers' OBVIOUS
<1>0. TypeOK /\ ListBacked /\ FoundBacked /\ Covers BY DEF IInv, TreeSafe
<1>1. work'["command"].doing # "order"
  <2>1. CASE Collect("command") BY <1>0, <2>1 DEF Collect, Signing, TypeOK, Signers
  <2> QED BY <1>0, <2>1, WorkMoves DEF Covers, Collecting, Signing, Free, Signers
<1> SUFFICES ASSUME "command" \notin troubles'
    PROVE  /\ work'["command"] = Free
           /\ list' # None /\ work'["process"].doing = "sign" =>
                LET w == work'["process"] IN
                /\ DOMAIN list' \subseteq DOMAIN w.found \cup w.todo
                /\ \A i \in DOMAIN list' \cap DOMAIN w.found :
                      /\ w.found[i].att = list'[i].att
                      /\ w.found[i].rev >= list'[i].rev
                      /\ list'[i].reply \in {None, w.found[i].reply}
  BY <1>1 DEF Covers
<1>2. "command" \notin troubles /\ work["command"] = Free BY <1>0, TroublesGrow DEF Covers
<1>3. work'["command"] = Free
  <2>1. ~ Collect("command") BY <1>2 DEF Collect, Free
  <2> QED BY <1>2, <2>1, WorkMoves DEF Signers
<1>4. SUFFICES ASSUME list' # None, work'["process"].doing = "sign"
               PROVE  LET w == work'["process"] IN
                      /\ DOMAIN list' \subseteq DOMAIN w.found \cup w.todo
                      /\ \A i \in DOMAIN list' \cap DOMAIN w.found :
                            /\ w.found[i].att = list'[i].att
                            /\ w.found[i].rev >= list'[i].rev
                            /\ list'[i].reply \in {None, w.found[i].reply}
  BY <1>3
<1>5. list' = list
  <2>1. ASSUME NEW s \in Signers, WriteList(s) PROVE FALSE
    <3>1. s = "process" BY <1>2, <2>1 DEF WriteList, Signers, Free
    <3>2. work'["process"] = Free BY <1>0, <2>1, <3>1 DEF WriteList, Ended, TypeOK
    <3> QED BY <1>4, <3>2 DEF Free
  <2> QED BY <2>1, WhoWrites
<1>6. /\ DOMAIN list \subseteq Served
      /\ \A i \in DOMAIN list : /\ i \in Ids /\ list[i].rev \in Nat /\ site.rev[i] \in Nat
                               /\ list[i].att = site.att[i] /\ list[i].rev <= site.rev[i]
                               /\ list[i].reply \in {None, replies[i]}
  <2>1. list \in Lists BY <1>0, <1>4, <1>5 DEF TypeOK
  <2>2. \A i \in DOMAIN list : i \in Ids /\ list[i].rev \in Nat /\ list[i].att # None
    BY <2>1, ListFacts, ConstantFacts DEF Entries
  <2>3. \A i \in Ids : site.rev[i] \in Nat BY <1>0, ConstantFacts DEF TypeOK, Trees
  <2> QED BY <1>0, <1>4, <1>5, <2>2, <2>3 DEF ListBacked, Served
<1>7. CASE work'["process"] = work["process"] BY <1>0, <1>2, <1>4, <1>5, <1>7 DEF Covers
<1>8. CASE Collect("process")
  <2> DEFINE i == NextOf("process")
  <2>1. /\ work["process"].doing = "sign" /\ list # None
        /\ work'["process"] = Signing(work["process"].todo \ {i}, FoundWith(work["process"].found, i))
    BY <1>0, <1>4, <1>5, <1>8 DEF Collect, TypeOK, Signers
  <2>2. Found(i).att = site.att[i] /\ Found(i).rev = site.rev[i] /\ Found(i).reply = replies[i]
    BY DEF Found, EntryOf
  <2> HIDE DEF i
  <2> QED BY <1>0, <1>2, <1>5, <1>6, <2>1, <2>2 DEF Covers, Signing, FoundWith
<1>9. CASE work'["process"] = Collecting BY <1>5, <1>6, <1>9 DEF Collecting, Signing
<1> QED BY <1>4, <1>7, <1>8, <1>9, WorkMoves DEF Free, Signers

LEMMA TreeStep == IInv /\ [Next]_vars => TreeSafe'
BY DeskStep, FoundStep, ListStep, CoversStep DEF TreeSafe

-------------------------------------------------------------------------------
(* The orders.                                                                *)

(* Most steps leave the orders, and an order in flight, alone.                *)
QuietStep ==
    /\ UNCHANGED <<orders, pulled>> /\ desk'.att = desk.att
    /\ \/ work'["process"] = work["process"] /\ process' = process
       \/ work["process"].doing # "order" /\ work'["process"].doing # "order"

LEMMA QuietSteps ==
    ASSUME TypeOK, StoringSafe,
           \/ \E i \in Ids : Revoke(i)
           \/ Publish \/ Lapse \/ Deploy \/ DeployFails
           \/ \E f \in DeskFiles : Push(f)
           \/ Start \/ Resign \/ StatusCommand
           \/ \E s \in Signers : Collect(s) \/ WriteList(s) \/ WriteListFails(s)
           \/ \E i \in Ids, b \in Bodies : PostResponse(i, b)
           \/ UNCHANGED vars
    PROVE  QuietStep
<1> USE DEF QuietStep, desks, orders
<1>0. work = [s \in Signers |-> work[s]] /\ Collecting.doing = "sign" /\ Free.doing = "nothing"
  BY DEF TypeOK, Collecting, Signing, Free
<1>1. ASSUME NEW i \in Ids, Revoke(i) PROVE QuietStep BY <1>1 DEF Revoke, TypeOK, Trees
<1>2. CASE Publish BY <1>2 DEF Publish, TypeOK, Trees
<1>3. CASE Lapse \/ Deploy \/ DeployFails BY <1>3 DEF Lapse, Deploy, DeployFails
<1>4. ASSUME NEW f \in DeskFiles, Push(f) PROVE QuietStep BY <1>4 DEF Push
<1>5. CASE Start \/ Resign
  <2>1. work["process"].doing # "order" BY <1>0, <1>5 DEF Start, Resign, Idle, StoringSafe
  <2> QED BY <1>0, <1>5, <2>1 DEF Start, Resign, Signers
<1>6. CASE StatusCommand BY <1>0, <1>6 DEF StatusCommand, Signers
<1>7. ASSUME NEW s \in Signers, Collect(s) PROVE QuietStep
  <2>1. work'[s].doing = "sign" BY <1>0, <1>7 DEF Collect, Signing
  <2> QED BY <1>0, <1>7, <2>1 DEF Collect
<1>8. ASSUME NEW s \in Signers, WriteList(s) \/ WriteListFails(s) PROVE QuietStep
  <2>1. CASE s = "process"
    <3>1. work["process"].doing = "sign" /\ work'["process"] = Free
      BY <1>0, <1>8, <2>1 DEF WriteList, WriteListFails, Ended
    <3> QED BY <1>0, <1>8, <3>1 DEF WriteList, WriteListFails, Ended
  <2>2. CASE s = "command"
    <3>1. work'["process"] = work["process"] /\ process' = process
      BY <1>0, <1>8, <2>2 DEF WriteList, WriteListFails, Ended, Signers
    <3> QED BY <1>8, <3>1 DEF WriteList, WriteListFails, Ended
  <2> QED BY <2>1, <2>2 DEF Signers
<1>9. ASSUME NEW i \in Ids, NEW b \in Bodies, PostResponse(i, b) PROVE QuietStep
  BY <1>0, <1>9 DEF PostResponse, Idle, Signers
<1>10. CASE UNCHANGED vars BY <1>10 DEF vars
<1> QED BY <1>1, <1>2, <1>3, <1>4, <1>5, <1>6, <1>7, <1>8, <1>9, <1>10

LEMMA QuietKept == OrdersSafe /\ QuietStep => OrdersSafe'
<1> SUFFICES ASSUME OrdersSafe, QuietStep PROVE OrdersSafe' OBVIOUS
<1>1. Held' = Held BY DEF QuietStep, orders, Held
<1>2. AcceptedKept' BY DEF OrdersSafe, AcceptedKept, QuietStep, orders
<1>3. StoringSafe' BY <1>1 DEF OrdersSafe, StoringSafe, QuietStep, orders
<1>4. InboxSafe' BY <1>1 DEF OrdersSafe, InboxSafe, QuietStep, orders, InFlight
<1> QED BY <1>2, <1>3, <1>4 DEF OrdersSafe

(* What is in the directories has the shape its name says.                    *)
LEMMA OrderFacts ==
    ASSUME TypeOK
    PROVE  /\ accepted \subseteq Orders
           /\ work = [s \in Signers |-> work[s]] /\ "process" \in Signers
           /\ work["process"].doing = "order" =>
                 /\ work["process"] \in Orderings
                 /\ work["process"].order \in Orders
                 /\ work["process"].order.id \in OrderIds
           /\ \A o \in Orders : o.id \in OrderIds /\ o.ver # None
           /\ \A i \in Ids : desk.att[i] # None =>
                 desk.att[i] \in Drafts /\ desk.att[i].order \in Orders \cup {None}
           /\ Free.doing = "nothing" /\ "order" \in Parts /\ "scope" \in Parts
<1>1. "process" \in Signers BY DEF Signers
<1>2. work["process"].doing = "order" =>
         work["process"] \in Orderings /\ work["process"].order \in Orders
  BY <1>1, InHand DEF Orderings
<1> QED BY <1>1, <1>2, ConstantFacts DEF TypeOK, Trees, Free, Parts

LEMMA IssueKept ==
    ASSUME TypeOK, OrdersSafe, NEW d \in Drafts, Issue(d) PROVE OrdersSafe'
<1> USE OrderFacts DEF OrdersSafe, trees, orders
<1>1. UNCHANGED <<inbox, pulled, accepted, cut, work, process>> BY DEF Issue
<1>2. AcceptedKept' BY <1>1 DEF AcceptedKept
<1>3. Held' = Held BY <1>1 DEF Held
<1>4. StoringSafe' BY <1>1, <1>3 DEF StoringSafe
<1>5. ASSUME NEW i \in Ids, desk'.att[i] # None, desk'.att[i].order # None
      PROVE  LET o == desk'.att[i].order IN inbox[o.id] # None /\ inbox[o.id]["order"] = o.ver
  <2>1. desk'.att[i] = IF i = d.id THEN d ELSE desk.att[i] BY DEF Issue, TypeOK, Trees
  <2>2. CASE i = d.id
    <3>1. d.order \in Orders /\ OrderWhole(d.order)
      BY <1>5, <2>1, <2>2, ConstantFacts DEF Issue
    <3> QED BY <2>1, <2>2, <3>1 DEF OrderWhole, InboxSafe
  <2>3. CASE i # d.id BY <1>5, <2>1, <2>3 DEF InboxSafe
  <2> QED BY <2>2, <2>3
<1>6. InboxSafe' BY <1>1, <1>3, <1>5 DEF InboxSafe, InFlight
<1> QED BY <1>2, <1>4, <1>6

LEMMA PullKept ==
    ASSUME TypeOK, OrdersSafe, NEW i \in OrderIds, NEW p \in Parts, Pull(i, p) PROVE OrdersSafe'
<1> USE DEF OrdersSafe, trees, orders
<1>1. UNCHANGED <<inbox, desk, accepted, cut, work, process>> BY DEF Pull
<1>2. AcceptedKept' BY <1>1 DEF AcceptedKept
<1>3. Held' = Held BY <1>1 DEF Held
<1>4. StoringSafe' BY <1>1, <1>3 DEF StoringSafe
<1>5. \A j \in OrderIds : pulled'[j]["order"] # None =>
         inbox[j] # None /\ inbox[j]["order"] = pulled'[j]["order"]
  BY DEF Pull, TypeOK, Directories, InboxSafe
<1>6. InboxSafe' BY <1>1, <1>3, <1>5 DEF InboxSafe, InFlight
<1> QED BY <1>2, <1>4, <1>6

(* The process stops: what it was storing was cut short.                      *)
LEMMA StopKept ==
    ASSUME TypeOK, OrdersSafe, Stop, UNCHANGED <<desks, trees, inbox, accepted>> PROVE OrdersSafe'
<1> USE OrderFacts DEF OrdersSafe, desks
<1>1. Held' = Held BY DEF Held
<1>2. cut \subseteq cut' /\ \A i \in OrderIds : InFlight(i) => i \in cut' BY DEF Stop, InFlight
<1>3. work'["process"] = Free BY DEF Stop
<1>4. AcceptedKept' BY <1>2 DEF AcceptedKept
<1>5. StoringSafe' BY <1>3 DEF StoringSafe
<1>6. InboxSafe' BY <1>1, <1>2 DEF InboxSafe
<1> QED BY <1>4, <1>5, <1>6

LEMMA PostKept ==
    ASSUME TypeOK, OrdersSafe, NEW o \in Orders, PostOrder(o) PROVE OrdersSafe'
<1> USE OrderFacts DEF OrdersSafe, desks
<1>1. UNCHANGED <<inbox, desk, pulled, cut, process>> /\ process = "up" /\ work["process"] = Free
  BY DEF PostOrder, Idle
<1>2. Held' = Held BY <1>1 DEF Held
<1>3. InboxSafe' BY <1>1, <1>2 DEF InboxSafe, InFlight
<1>4. CASE Queued(o) /\ inbox[o.id]["order"] = o.ver /\ accepted' = accepted \cup {o} /\ UNCHANGED work
  <2>1. o.id \notin cut => inbox[o.id]["scope"] = o.ver
    BY <1>1, <1>4 DEF Queued, InboxSafe, InFlight
  <2>2. AcceptedKept' BY <1>1, <1>4, <2>1 DEF AcceptedKept, Queued
  <2>3. StoringSafe' BY <1>1, <1>4 DEF StoringSafe
  <2> QED BY <1>3, <2>2, <2>3
<1>5. CASE ~Queued(o) /\ work' = [work EXCEPT !["process"] = Ordering(o, Parts)] /\ UNCHANGED accepted
  <2>1. AcceptedKept' BY <1>1, <1>5 DEF AcceptedKept
  <2>2. /\ work'["process"].doing = "order" /\ work'["process"].order = o
        /\ work'["process"].todo = Parts
    BY <1>5 DEF Ordering
  <2>3. \A a \in accepted : a.id # o.id BY <1>5 DEF AcceptedKept, Queued
  <2>4. Cardinality(Held \cup {o.id}) <= MaxInbox
    <3>1. IsFiniteSet(Held) BY DEF InboxSafe
    <3>2. Cardinality(Held) \in Nat /\ ~(Cardinality(Held) >= MaxInbox)
      BY <3>1, FS_CardinalityType DEF PostOrder, InboxFull, Held
    <3>3. Cardinality(Held \cup {o.id}) \in {Cardinality(Held), Cardinality(Held) + 1}
      BY <3>1, FS_AddElement
    <3> QED BY <3>2, <3>3, ConstantFacts
  <2>5. StoringSafe' BY <1>1, <1>2, <1>5, <2>2, <2>3, <2>4 DEF StoringSafe, Queued
  <2> QED BY <1>3, <2>1, <2>5
<1> QED BY <1>4, <1>5 DEF PostOrder

(* A write, or the creation of a directory, on behalf of the order in flight: *)
(* no order text that is there changes.                                       *)
LEMMA StoringKept ==
    ASSUME TypeOK, OrdersSafe, work["process"].doing = "order",
           NEW i, i = work["process"].order.id,
           NEW e \in Directories,
           inbox' = [inbox EXCEPT ![i] = e],
           inbox[i] # None /\ inbox[i]["order"] # None => e["order"] = inbox[i]["order"],
           UNCHANGED <<desks, accepted>>, cut \subseteq cut'
    PROVE  /\ AcceptedKept'
           /\ Held' = Held \cup {i} /\ IsFiniteSet(Held')
           /\ Cardinality(Held' \cup {i}) <= MaxInbox
           /\ inbox'[i] = e /\ e # None
           /\ \A j \in OrderIds \ {i} : inbox'[j] = inbox[j]
           /\ \A j \in OrderIds : pulled'[j]["order"] # None =>
                 inbox'[j] # None /\ inbox'[j]["order"] = pulled'[j]["order"]
           /\ \A j \in Ids : desk'.att[j] # None /\ desk'.att[j].order # None =>
                 LET o == desk'.att[j].order IN inbox'[o.id] # None /\ inbox'[o.id]["order"] = o.ver
<1> USE OrderFacts DEF OrdersSafe, desks
<1>1. inbox'[i] = e /\ e # None /\ \A j \in OrderIds \ {i} : inbox'[j] = inbox[j]
  BY ConstantFacts DEF TypeOK
<1>2. \A j \in OrderIds : inbox[j] # None /\ inbox[j]["order"] # None =>
         inbox'[j] # None /\ inbox'[j]["order"] = inbox[j]["order"]
  BY <1>1
<1>3. AcceptedKept'
  <2>1. \A a \in accepted : a.id # i BY DEF StoringSafe
  <2> QED BY <1>1, <2>1 DEF AcceptedKept
<1>4. Held' = Held \cup {i} /\ Cardinality(Held') <= MaxInbox BY PlaceKept
<1>5. IsFiniteSet(Held') BY <1>4, FS_AddElement DEF InboxSafe
<1>6. Held' \cup {i} = Held' BY <1>4
<1>7. \A j \in OrderIds : pulled'[j]["order"] # None =>
         inbox'[j] # None /\ inbox'[j]["order"] = pulled'[j]["order"]
  BY <1>2 DEF InboxSafe
<1>8. \A j \in Ids : desk'.att[j] # None /\ desk'.att[j].order # None =>
         LET o == desk'.att[j].order IN inbox'[o.id] # None /\ inbox'[o.id]["order"] = o.ver
  BY <1>2 DEF InboxSafe
<1> QED BY <1>1, <1>3, <1>4, <1>5, <1>6, <1>7, <1>8

LEMMA WriteKept ==
    ASSUME TypeOK, OrdersSafe, NEW p \in Parts, WriteOrder(p) PROVE OrdersSafe'
<1> USE OrderFacts DEF OrdersSafe
<1> DEFINE w == work["process"]
           i == w.order.id
           e == [InDirectory(i) EXCEPT ![p] = w.order.ver]
<1>1. /\ w.doing = "order" /\ w \in Orderings /\ p \in w.todo /\ i \in OrderIds /\ w.order \in Orders
      /\ UNCHANGED <<desks, accepted, cut, process>>
      /\ inbox' = [inbox EXCEPT ![i] = e]
  BY DEF WriteOrder
<1>2. e \in Directories BY <1>1, DirectoryTyped, ConstantFacts
<1>3. e[p] = w.order.ver /\ \A q \in Parts : q # p => e[q] = InDirectory(i)[q]
  BY <1>1, DirectoryTyped DEF Directories
<1>4. inbox[i] # None /\ inbox[i]["order"] # None => e["order"] = inbox[i]["order"]
  BY <1>1, <1>3 DEF StoringSafe, InDirectory
<1>5. /\ work'["process"].doing = "order" /\ work'["process"].order = w.order
      /\ work'["process"].todo = w.todo \ {p}
  BY <1>1 DEF WriteOrder, Orderings
<1> HIDE DEF e
<1>6. /\ AcceptedKept'
      /\ IsFiniteSet(Held') /\ Cardinality(Held' \cup {i}) <= MaxInbox
      /\ inbox'[i] = e /\ e # None
      /\ \A j \in OrderIds \ {i} : inbox'[j] = inbox[j]
      /\ \A j \in OrderIds : pulled'[j]["order"] # None =>
            inbox'[j] # None /\ inbox'[j]["order"] = pulled'[j]["order"]
      /\ \A j \in Ids : desk'.att[j] # None /\ desk'.att[j].order # None =>
            LET o == desk'.att[j].order IN inbox'[o.id] # None /\ inbox'[o.id]["order"] = o.ver
  BY <1>1, <1>2, <1>4, StoringKept
<1>7. StoringSafe'
  <2>1. process' = "up" /\ \A a \in accepted' : a.id # i BY <1>1 DEF StoringSafe
  <2>2. IF "order" \in w.todo \ {p} THEN e["order"] = None ELSE e["order"] = w.order.ver
    BY <1>1, <1>3 DEF StoringSafe, InDirectory, NoParts
  <2>3. "scope" \notin w.todo \ {p} => e["scope"] = w.order.ver
    BY <1>1, <1>3 DEF StoringSafe, InDirectory
  <2> QED BY <1>5, <1>6, <2>1, <2>2, <2>3 DEF StoringSafe
<1>8. \A j \in OrderIds : inbox'[j] # None /\ inbox'[j]["order"] # None /\ j \notin cut' /\ ~InFlight(j)' =>
         inbox'[j]["scope"] = inbox'[j]["order"]
  <2>1. \A j \in OrderIds : InFlight(j)' <=> j = i BY <1>5 DEF InFlight
  <2>2. \A j \in OrderIds : InFlight(j) <=> j = i BY <1>1 DEF InFlight
  <2> QED BY <1>1, <1>6, <2>1, <2>2 DEF InboxSafe
<1>9. InboxSafe' BY <1>6, <1>8 DEF InboxSafe
<1> QED BY <1>6, <1>7, <1>9

LEMMA FailKept == ASSUME TypeOK, OrdersSafe, WriteOrderFails PROVE OrdersSafe'
<1> USE OrderFacts DEF OrdersSafe
<1> DEFINE w == work["process"]
           i == w.order.id
<1>1. /\ w.doing = "order" /\ w \in Orderings /\ i \in OrderIds /\ w.order \in Orders
      /\ UNCHANGED <<desks, accepted>> /\ cut' = cut \cup {i} /\ work'["process"] = Free
  BY DEF WriteOrderFails
<1>2. StoringSafe' BY <1>1 DEF StoringSafe
<1>3. \A j \in OrderIds : InFlight(j) => j \in cut' BY <1>1 DEF InFlight
<1>4. CASE inbox' = inbox
  <2>1. AcceptedKept' BY <1>1, <1>4 DEF AcceptedKept
  <2>2. Held' = Held BY <1>4 DEF Held
  <2>3. InboxSafe' BY <1>1, <1>3, <1>4, <2>2 DEF InboxSafe, desks
  <2> QED BY <1>2, <2>1, <2>3
<1>5. CASE inbox' = [inbox EXCEPT ![i] = InDirectory(i)]
  <2>1. InDirectory(i) \in Directories BY <1>1, DirectoryTyped
  <2>2. inbox[i] # None => InDirectory(i)["order"] = inbox[i]["order"] BY DEF InDirectory
  <2>3. /\ AcceptedKept' /\ IsFiniteSet(Held')
        /\ \A j \in OrderIds \ {i} : inbox'[j] = inbox[j]
        /\ \A j \in OrderIds : pulled'[j]["order"] # None =>
              inbox'[j] # None /\ inbox'[j]["order"] = pulled'[j]["order"]
        /\ \A j \in Ids : desk'.att[j] # None /\ desk'.att[j].order # None =>
              LET o == desk'.att[j].order IN inbox'[o.id] # None /\ inbox'[o.id]["order"] = o.ver
    BY <1>1, <1>5, <2>1, <2>2, StoringKept
  <2>4. InboxSafe' BY <1>1, <1>3, <2>3 DEF InboxSafe
  <2> QED BY <1>2, <2>3, <2>4
<1> QED BY <1>4, <1>5 DEF WriteOrderFails

LEMMA AcceptKept == ASSUME TypeOK, OrdersSafe, Accept PROVE OrdersSafe'
<1> USE OrderFacts DEF OrdersSafe, desks
<1> DEFINE o == work["process"].order
<1>1. /\ UNCHANGED <<inbox, pulled, desk, cut>> /\ work'["process"] = Free
      /\ accepted' = accepted \cup {o} /\ o \in Orders
      /\ inbox[o.id] # None /\ inbox[o.id]["order"] = o.ver /\ inbox[o.id]["scope"] = o.ver
  BY DEF Accept, StoringSafe
<1>2. AcceptedKept' BY <1>1 DEF AcceptedKept
<1>3. StoringSafe' BY <1>1 DEF StoringSafe
<1>4. Held' = Held BY <1>1 DEF Held
<1>5. InboxSafe' BY <1>1, <1>4 DEF InboxSafe, InFlight
<1> QED BY <1>2, <1>3, <1>5

LEMMA OrdersStep == IInv /\ [Next]_vars => OrdersSafe'
<1> SUFFICES ASSUME IInv, [Next]_vars PROVE OrdersSafe' OBVIOUS
<1>0. TypeOK /\ OrdersSafe /\ StoringSafe BY DEF IInv, OrdersSafe
<1>1. QuietStep => OrdersSafe' BY <1>0, QuietKept
<1>2. \A d \in Drafts : Issue(d) => OrdersSafe' BY <1>0, IssueKept
<1>3. \A i \in OrderIds, p \in Parts : Pull(i, p) => OrdersSafe' BY <1>0, PullKept
<1>4. Restart \/ Crash => OrdersSafe' BY <1>0, StopKept DEF Restart, Crash
<1>5. \A o \in Orders : PostOrder(o) => OrdersSafe' BY <1>0, PostKept
<1>6. \A p \in Parts : WriteOrder(p) => OrdersSafe' BY <1>0, WriteKept
<1>7. WriteOrderFails \/ Accept => OrdersSafe' BY <1>0, FailKept, AcceptKept
<1>8. \/ \E i \in Ids : Revoke(i)
      \/ Publish \/ Lapse \/ Deploy \/ DeployFails
      \/ \E f \in DeskFiles : Push(f)
      \/ Start \/ Resign \/ StatusCommand
      \/ \E s \in Signers : Collect(s) \/ WriteList(s) \/ WriteListFails(s)
      \/ \E i \in Ids, b \in Bodies : PostResponse(i, b)
      \/ UNCHANGED vars
      => QuietStep
  BY <1>0, QuietSteps
<1> QED BY <1>1, <1>2, <1>3, <1>4, <1>5, <1>6, <1>7, <1>8, Zenon DEF Next, ServerStep, Signers

-------------------------------------------------------------------------------
(* The inductive invariant, and what follows from it.                         *)

LEMMA InitSafe == Init => IInv
<1> SUFFICES ASSUME Init PROVE IInv OBVIOUS
<1>1. TypeOK BY InitTyped
<1>2. \A s \in Signers : work[s] = Free BY DEF Init
<1>3. Free.doing = "nothing" BY DEF Free
<1>4. DeskFirst BY ConstantFacts DEF Init, DeskFirst, EmptyTree
<1>5. ListBacked /\ FoundBacked /\ Covers
  BY <1>2, <1>3 DEF Init, ListBacked, FoundBacked, Covers, Signers
<1>6. StoringSafe BY <1>2, <1>3 DEF StoringSafe, Signers
<1>7. AcceptedKept BY DEF Init, AcceptedKept
<1>8. InboxSafe
  <2>1. Held = {} BY DEF Init, Held
  <2>2. IsFiniteSet(Held) BY <2>1, FS_EmptySet
  <2>3. \A i \in OrderIds : inbox[i] = None /\ pulled[i]["order"] = None
    BY DEF Init, NoParts, Parts
  <2>4. \A i \in Ids : desk.att[i] = None BY DEF Init, EmptyTree
  <2> QED BY <2>2, <2>3, <2>4 DEF InboxSafe
<1> QED BY <1>1, <1>4, <1>5, <1>6, <1>7, <1>8 DEF IInv, TreeSafe, OrdersSafe

LEMMA StepSafe == IInv /\ [Next]_vars => IInv'
BY TypeStep, TreeStep, OrdersStep DEF IInv

LEMMA AlwaysSafe == Spec => []IInv
BY InitSafe, StepSafe, PTL DEF Spec

(* Two orders that were commissioned under one id are one order: both are     *)
(* what is in the inbox.                                                      *)
LEMMA OneOrder == IInv => OneOrderPerId
<1> SUFFICES ASSUME IInv,
                    NEW i \in Ids, desk.att[i] # None, desk.att[i].order # None,
                    NEW j \in Ids, desk.att[j] # None, desk.att[j].order # None,
                    desk.att[i].order.id = desk.att[j].order.id
             PROVE  desk.att[i].order = desk.att[j].order
  BY DEF OneOrderPerId
<1>1. desk.att[i].order \in Orders /\ desk.att[j].order \in Orders BY OrderFacts DEF IInv
<1>2. desk.att[i].order.ver = desk.att[j].order.ver BY DEF IInv, OrdersSafe, InboxSafe
<1> QED BY <1>1, <1>2, ConstantFacts

(* Whatever is pushed, posted or signed, by whoever and cut short wherever:   *)
(* the list names what is served, an answered order stays with its scope text *)
(* (unless a request for its id was cut), and one order of an id is taken.    *)
THEOREM SeatStaysSound == Spec => []SeatSound
<1>1. IInv => SeatSound BY OneOrder DEF IInv, TreeSafe, OrdersSafe, SeatSound
<1> QED BY <1>1, AlwaysSafe, PTL

(* Pushes from the desk and replies at the server never replace what is       *)
(* served.                                                                    *)
THEOREM ServedStays == Spec => NothingLost
<1>1. IInv /\ [Next]_vars =>
        [\A i \in Ids : /\ site.att[i] \in {None, site'.att[i]}
                        /\ site'.rev[i] >= site.rev[i]
                        /\ replies[i] \in {None, replies'[i]}]_vars
  BY TreeGrows DEF Grown
<1> QED BY <1>1, AlwaysSafe, PTL DEF Spec, NothingLost

(* The process's list never loses an entry, a revocation or a reply, unless a *)
(* command signs beside it.                                                   *)
LEMMA ListGrowsStep ==
    ASSUME IInv, [Next]_vars, "command" \notin troubles', list # None
    PROVE  /\ list' # None /\ DOMAIN list \subseteq DOMAIN list'
           /\ \A i \in DOMAIN list : /\ list'[i].att = list[i].att
                                     /\ list'[i].rev >= list[i].rev
                                     /\ list[i].reply \in {None, list'[i].reply}
<1>0. TypeOK /\ Covers BY DEF IInv, TreeSafe
<1>1. "command" \notin troubles /\ work["command"] = Free BY <1>0, TroublesGrow DEF Covers
<1>2. CASE list' = list
  <2>1. list \in Lists BY <1>0 DEF TypeOK
  <2>2. \A i \in DOMAIN list : list[i].rev \in Nat BY <2>1, ListFacts, ConstantFacts DEF Entries
  <2> QED BY <1>2, <2>2
<1>3. ASSUME NEW s \in Signers, WriteList(s)
      PROVE  /\ list' # None /\ DOMAIN list \subseteq DOMAIN list'
             /\ \A i \in DOMAIN list : /\ list'[i].att = list[i].att
                                       /\ list'[i].rev >= list[i].rev
                                       /\ list[i].reply \in {None, list'[i].reply}
  <2>1. s = "process" BY <1>1, <1>3 DEF WriteList, Signers, Free
  <2>2. list' = work["process"].found /\ work["process"].doing = "sign" /\ work["process"].todo = {}
    BY <1>3, <2>1 DEF WriteList
  <2>3. list' \in Lists BY <1>0, <2>2, InHand DEF Signings, Signers
  <2> QED BY <1>0, <1>1, <2>2, <2>3, ConstantFacts DEF Covers
<1> QED BY <1>2, <1>3, WhoWrites

THEOREM ListNeverShrinks == Spec => ListOnlyGrows
<1>1. IInv /\ [Next]_vars =>
        ["command" \notin troubles' /\ list # None =>
          /\ list' # None /\ DOMAIN list \subseteq DOMAIN list'
          /\ \A i \in DOMAIN list : /\ list'[i].att = list[i].att
                                    /\ list'[i].rev >= list[i].rev
                                    /\ list[i].reply \in {None, list'[i].reply}]_vars
  BY ListGrowsStep
<1> QED BY <1>1, AlwaysSafe, PTL DEF Spec, ListOnlyGrows
================================================================================
