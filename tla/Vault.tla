-------------------------------- MODULE Vault --------------------------------
(* The vault of one identity (hub/vault.go) and the browsers signed in to it  *)
(* (public/hub/studio.js, syncVault and signOut).  A browser keeps the        *)
(* records of the orders and requests it places; a sync reads the vault,      *)
(* merges, and writes the union back when the browser knew something new.     *)
(* The hub replaces the vault whole, under a lock that covers one request     *)
(* only, and nothing in a put names the version it was made from.             *)
EXTENDS Integers, FiniteSets

CONSTANTS
    Browsers, Records,
    Capacity,    \* records a vault can hold (MaxVaultBytes)
    MaxLost      \* bound: requests and answers lost

VARIABLES
    vault,   \* records in the hub's file
    here,    \* browser -> the records it keeps
    inside,  \* browsers signed in
    placed,  \* records placed so far
    given,   \* records whose only copies the holder agreed to lose
    syncs,   \* syncs that have read and have still to write
    lost

vars == <<vault, here, inside, placed, given, syncs, lost>>

Sync(b, data, leaving) == [by |-> b, data |-> data, leaving |-> leaving]
Leaving(b) == \E s \in syncs : s.by = b /\ s.leaving

-------------------------------------------------------------------------------
(* What sign-out does once its sync has ended: the list leaves the browser    *)
(* when the vault has it, or when the holder says so all the same.            *)
SignedOut(b, synced, agrees) ==
    /\ inside' = inside \ {b}
    /\ here' = IF synced \/ agrees THEN [here EXCEPT ![b] = {}] ELSE here
    /\ given' = IF synced \/ ~agrees THEN given ELSE given \cup here[b]

(* A sync starts: when a record was placed, a list is opened, or on sign-out. *)
(* What the vault holds is kept here too; nothing is written unless the       *)
(* browser knew a record that the vault did not.  (Syncs of one browser are   *)
(* taken one after the other: the page does not see to it, but what goes      *)
(* wrong does not need them to overlap.)                                      *)
Merge(b, mine, leaving) ==
    IF mine \subseteq vault
    THEN /\ IF leaving
            THEN SignedOut(b, TRUE, FALSE)
            ELSE here' = [here EXCEPT ![b] = mine \cup vault] /\ UNCHANGED <<inside, given>>
         /\ UNCHANGED syncs
    ELSE /\ here' = [here EXCEPT ![b] = mine \cup vault]
         /\ \A s \in syncs : s.by # b
         /\ syncs' = syncs \cup {Sync(b, mine \cup vault, leaving)}
         /\ UNCHANGED <<inside, given>>

Place(b, r) ==
    /\ b \in inside /\ ~Leaving(b) /\ r \notin placed
    /\ placed' = placed \cup {r}
    /\ Merge(b, here[b] \cup {r}, FALSE)
    /\ UNCHANGED <<vault, lost>>

Open(b) ==
    /\ b \in inside /\ ~Leaving(b)
    /\ Merge(b, here[b], FALSE)
    /\ UNCHANGED <<vault, placed, lost>>

SignOut(b) ==
    /\ b \in inside /\ ~Leaving(b)
    /\ Merge(b, here[b], TRUE)
    /\ UNCHANGED <<vault, placed, lost>>

(* The sync of s ends, written or not.                                        *)
End(s, synced, agrees) ==
    /\ syncs' = syncs \ {s}
    /\ IF s.leaving
       THEN SignedOut(s.by, synced, agrees)
       ELSE UNCHANGED <<here, inside, given>>

Fits(data) == Cardinality(data) <= Capacity

(* The put: the file becomes what the browser sent.                           *)
Put(s) ==
    /\ Fits(s.data)
    /\ vault' = s.data
    /\ End(s, TRUE, FALSE)
    /\ UNCHANGED <<placed, lost>>

PutRefused(s) ==
    /\ ~Fits(s.data)
    /\ \E agrees \in BOOLEAN : End(s, FALSE, agrees)
    /\ UNCHANGED <<vault, placed, lost>>

(* The put, or its answer, is lost: the browser sees an error either way.     *)
PutLost(s) ==
    /\ lost < MaxLost
    /\ lost' = lost + 1
    /\ vault' \in {vault, IF Fits(s.data) THEN s.data ELSE vault}
    /\ \E agrees \in BOOLEAN : End(s, FALSE, agrees)
    /\ UNCHANGED placed

(* The phrase signs a browser in; opening its list (Open) starts a sync.      *)
SignIn(b) ==
    /\ b \notin inside
    /\ inside' = inside \cup {b}
    /\ UNCHANGED <<vault, here, placed, given, syncs, lost>>

Init ==
    /\ vault = {} /\ placed = {} /\ given = {} /\ syncs = {} /\ lost = 0
    /\ here = [b \in Browsers |-> {}]
    /\ inside = Browsers

Next ==
    \/ \E b \in Browsers : \/ \E r \in Records : Place(b, r)
                           \/ Open(b) \/ SignOut(b) \/ SignIn(b)
    \/ \E s \in syncs : Put(s) \/ PutRefused(s) \/ PutLost(s)

Spec == Init /\ [][Next]_vars

-------------------------------------------------------------------------------
(* studio.js, signOut: the list leaves a browser "once the vault has it (the  *)
(* next sign-in restores it from there)": a record placed is in the vault, in *)
(* some browser, or on its way, unless the holder agreed to lose it.          *)
RecordKept ==
    placed \subseteq vault \cup given \cup UNION {here[b] : b \in Browsers}
                           \cup UNION {s.data : s \in syncs}
================================================================================
