-------------------------------- MODULE Hosted --------------------------------
(* A hosted auditor (Tenant) and the clients that rely on it (Reliance), in   *)
(* one system: the clients read the tree while the hub's handlers write it,   *)
(* and are given any status list the hub ever signed for this auditor.        *)
(*                                                                            *)
(* A step is either a step of the hub, crashes and disk errors included, or   *)
(* one client's verification.  What Reliance says of an auditor that publishes*)
(* and signs in single steps is here what the hub's handlers have to provide, *)
(* file by file: the composition implements Reliance.                         *)
EXTENDS Tenant

CONSTANTS
    Clients, Retaining, Offset, Credited, Omitting,  \* see Reliance
    MaxLists  \* bound: lists signed

VARIABLES
    revokedAt, \* id -> when its revocation's file was written
    lists,     \* every status list signed so far, as a client reads it
    last, decision, over \* see Reliance

hostedVars == <<vars, revokedAt, lists, last, decision, over>>

Relying == INSTANCE Reliance WITH
                doc <- [i \in Ids |-> tree[AttPath(i)]],
                rev <- [i \in Ids |-> tree[RevPath(i)]]

(* What the theorems ask of these constants, as Reliance does.                *)
HostedConstants ==
    /\ Retaining \cup Credited \cup Omitting \subseteq Clients
    /\ Offset \in [Clients -> (-Skew)..Skew]
    /\ MaxLists \in Nat
    /\ None \notin Lists  \* a list, an entry as a client reads it
    /\ None \notin Relying!Lists /\ None \notin Relying!Collectable

-------------------------------------------------------------------------------
(* Verify looks at an entry's state and references, not at the replies.       *)
WithoutReplies(l) == [l EXCEPT !.entries = [i \in Ids |->
    IF l.entries[i] = None THEN None ELSE [l.entries[i] EXCEPT !.resps = {}]]]

(* Lists and revocations are remembered as they appear: a client may be given *)
(* any list that was ever served, and a decision is about its moment.         *)
Remember ==
    /\ revokedAt' = [i \in Ids |->
          IF tree[RevPath(i)] = None /\ tree'[RevPath(i)] # None
          THEN now ELSE revokedAt[i]]
    /\ lists' = IF status' = status THEN lists
                ELSE lists \cup {WithoutReplies(status')}
    /\ decision' = IF now' = now THEN decision
                   ELSE [c \in Clients |-> Relying!NoDecision]

(* The hub, its clock never set back.                                         *)
Hub ==
    /\ Next
    /\ now' >= now
    /\ status' # status => Cardinality(lists) < MaxLists  \* bound
    /\ Remember
    /\ UNCHANGED <<last, over>>

(* One client looks at one attestation of the tree, holding no lock.          *)
Client(c) ==
    /\ UNCHANGED vars
    /\ \E i \in Ids, copy \in {"published", "reserialized", "other"},
          l \in lists \cup {None}, r \in Revs \cup {None} :
             Relying!Verify(c, i, copy, l, r)

HostedInit ==
    /\ Init
    /\ revokedAt = [i \in Ids |-> 0]
    /\ lists = {}
    /\ last = [c \in Clients |-> 0]
    /\ decision = [c \in Clients |-> Relying!NoDecision]
    /\ over = [c \in Clients |-> {}]

HostedNext == Hub \/ \E c \in Clients : Client(c)

HostedSpec == HostedInit /\ [][HostedNext]_hostedVars

-------------------------------------------------------------------------------
(* Properties.                                                                *)

(* The hub is the auditor Reliance assumes: with files written one at a time, *)
(* handlers cut short, releases repeated after a crash and lists signed from  *)
(* whatever the tree then holds, a client sees each attestation and each      *)
(* revocation published once and for good, and lists of growing epochs that   *)
(* tell of all of them (writeFiles, release, resign; Verify).                 *)
ServesReliance == Relying!Spec

(* So what Reliance promises a client holds of the hub's clients: revocations *)
(* reach them in bounded time, they rely on published bytes before expiry     *)
(* only, what was over stays over, and the newest list is always usable.      *)
ClientsServed ==
    /\ Relying!RevocationReaches
    /\ Relying!RelianceIsExact
    /\ Relying!OverIsOver
    /\ Relying!HonestListUsable
================================================================================
