----------------------------- MODULE NamesProofs -----------------------------
(* What Names promises for every number of studios, keys, versions, crashes   *)
(* and failing writes.  The strengthening says what the handler that holds    *)
(* the lock may still do: a key is minted only while no claim holds, and a    *)
(* registration under way is still newer than, and of the same operator as,   *)
(* whatever of it is not written yet.                                         *)
EXTENDS Names, TLAPS

-------------------------------------------------------------------------------
(* The limiter of Limiter.tla keeps the promise of RateLimit.tla for every    *)
(* size, rate, number of addresses and bound on buckets: bringing a bucket up *)
(* to date only when its address asks, and forgetting refilled ones, is the   *)
(* same as filling every bucket at every tick.                                *)

(* Filling is monotone in the time a bucket was idle, and once it has been    *)
(* idle for Burst ticks it is full.                                           *)
LEMMA IdleTime ==
    ASSUME NEW i \in Nat
    PROVE  /\ i * Rate \in Nat
           /\ (i + 1) * Rate = i * Rate + Rate
           /\ i >= Burst => i * Rate >= Burst
<1>1. Burst \in Nat /\ Rate \in Nat /\ Rate >= 1 BY LimiterAssumption
<1>2. i * Rate \in Nat BY <1>1
<1>3. (i + 1) * Rate = i * Rate + Rate BY <1>1
<1>4. i * Rate >= i BY <1>1
<1> QED BY <1>1, <1>2, <1>3, <1>4

(* A tick brings a bucket as far as filling it at once would.                 *)
LEMMA FillsAsPromised ==
    ASSUME NEW b \in Bucket
    PROVE  /\ Filled(b) \in 0 .. Burst
           /\ Filled([b EXCEPT !.idle = AtMost(Burst, @ + 1)]) = AtMost(Burst, Filled(b) + Rate)
<1> DEFINE c == [tokens |-> b.tokens, idle |-> AtMost(Burst, b.idle + 1)]
<1>1. Burst \in Nat /\ Rate \in Nat /\ Rate >= 1 BY LimiterAssumption
<1>2. b.tokens \in Nat /\ b.tokens <= Burst /\ b.idle \in Nat /\ b.idle <= Burst
  BY <1>1 DEF Bucket
<1>3. [b EXCEPT !.idle = AtMost(Burst, @ + 1)] = c BY DEF Bucket
<1>4. b.idle * Rate \in Nat /\ (b.idle + 1) * Rate = b.idle * Rate + Rate
  BY <1>2, IdleTime
<1>5. Filled(b) \in 0 .. Burst
  BY <1>1, <1>2, <1>4 DEF Filled, AtMost
<1>6. CASE b.idle + 1 <= Burst
  <2>1. c.idle = b.idle + 1 BY <1>6, <1>1, <1>2 DEF AtMost
  <2>2. Filled(c) = AtMost(Burst, b.tokens + b.idle * Rate + Rate)
    BY <2>1, <1>1, <1>2, <1>4 DEF Filled
  <2>3. Filled(c) = AtMost(Burst, Filled(b) + Rate)
    BY <2>2, <1>1, <1>2, <1>4 DEF Filled, AtMost
  <2> QED BY <2>3, <1>3, <1>5
<1>7. CASE b.idle = Burst
  <2>1. c.idle = Burst BY <1>7, <1>1 DEF AtMost
  <2>2. Burst * Rate \in Nat /\ Burst * Rate >= Burst BY <1>1, IdleTime
  <2>3. Filled(c) = Burst BY <2>1, <2>2, <1>1, <1>2 DEF Filled, AtMost
  <2>4. Filled(b) = Burst BY <1>7, <2>2, <1>1, <1>2 DEF Filled, AtMost
  <2>5. Filled(c) = AtMost(Burst, Filled(b) + Rate) BY <2>3, <2>4, <1>1 DEF AtMost
  <2> QED BY <2>5, <1>3, <1>5
<1> QED BY <1>1, <1>2, <1>5, <1>6, <1>7

(* The buckets stay within their type.                                        *)
LEMMA LimiterTyped == LimiterTypeOK /\ [LimiterNext]_buckets => LimiterTypeOK'
<1> SUFFICES ASSUME LimiterTypeOK, [LimiterNext]_buckets PROVE LimiterTypeOK' OBVIOUS
<1>1. Burst \in Nat /\ Costs \subseteq Nat BY LimiterAssumption
<1>2. ASSUME NEW a \in Addresses, NEW n \in 0 .. Tokens(a), Charge(a, n) PROVE LimiterTypeOK'
  <2>1. /\ DOMAIN Found(a) \subseteq Addresses /\ a \in DOMAIN Found(a)
        /\ \A k \in DOMAIN Found(a) : Found(a)[k] \in Bucket
    BY <1>1 DEF Found, Kept, LimiterTypeOK, Bucket, NewBucket
  <2>2. Tokens(a) \in 0 .. Burst BY <2>1, FillsAsPromised DEF Tokens
  <2>3. [tokens |-> Tokens(a) - n, idle |-> 0] \in Bucket BY <2>2, <1>1 DEF Bucket
  <2> QED BY <2>1, <2>3, <1>2 DEF Charge, LimiterTypeOK
<1>3. ASSUME NEW a \in Addresses, NEW c \in Costs, Allow(a, c) \/ Deny(a, c) PROVE LimiterTypeOK'
  <2>1. Found(a)[a] \in Bucket
    BY <1>1 DEF Found, Kept, LimiterTypeOK, Bucket, NewBucket
  <2>2. Tokens(a) \in 0 .. Burst BY <2>1, FillsAsPromised DEF Tokens
  <2> QED BY <1>1, <1>2, <1>3, <2>2 DEF Allow, Deny
<1>4. CASE Elapse
  BY <1>4, <1>1 DEF Elapse, LimiterTypeOK, Bucket, AtMost
<1>5. CASE Forget BY <1>5 DEF Forget, LimiterTypeOK
<1>6. CASE UNCHANGED buckets BY <1>6 DEF LimiterTypeOK
<1> QED BY <1>3, <1>4, <1>5, <1>6 DEF LimiterNext

(* Looking an address up, and forgetting others for its sake, changes no      *)
(* address's level: the ones forgotten were full.                             *)
LEMMA ForgettingIsFree ==
    ASSUME LimiterTypeOK, NEW a \in Addresses, NEW n \in 0 .. Tokens(a), Charge(a, n)
    PROVE  Level' = [Level EXCEPT ![a] = @ - n] /\ Level[a] = Tokens(a)
<1>1. Burst \in Nat BY LimiterAssumption
<1>2. \A k \in DOMAIN buckets : buckets[k] \in Bucket BY DEF LimiterTypeOK
<1>3. \A k \in DOMAIN buckets : Filled(buckets[k]) \in 0 .. Burst BY <1>2, FillsAsPromised
<1>4. NewBucket \in Bucket /\ Filled(NewBucket) = Burst
  BY <1>1, LimiterAssumption DEF NewBucket, Bucket, Filled, AtMost
<1>5. \A k \in DOMAIN buckets : Refilled(buckets[k]) => Filled(buckets[k]) = Burst
  <2> TAKE k \in DOMAIN buckets
  <2>1. buckets[k].tokens \in Nat /\ buckets[k].idle \in Nat BY <1>2, <1>1 DEF Bucket
  <2>2. buckets[k].idle * Rate \in Nat BY <2>1, IdleTime
  <2> QED BY <2>1, <2>2, <1>1 DEF Refilled, Filled, AtMost
<1>6. Level[a] = Tokens(a) BY <1>4 DEF Level, Tokens, Found
<1>7. Tokens(a) \in 0 .. Burst BY <1>6, <1>3, <1>1 DEF Level
<1>8. \A k \in DOMAIN Found(a) \ {a} : k \in DOMAIN buckets /\ Found(a)[k] = buckets[k]
  BY DEF Found, Kept
<1>9. \A k \in DOMAIN buckets \ DOMAIN Found(a) : Refilled(buckets[k]) BY DEF Found, Kept
<1>10. a \in DOMAIN Found(a) BY DEF Found
<1>11. /\ DOMAIN buckets' = DOMAIN Found(a)
       /\ buckets'[a] = [tokens |-> Tokens(a) - n, idle |-> 0]
       /\ \A k \in DOMAIN Found(a) \ {a} : buckets'[k] = buckets[k]
  BY <1>8, <1>10 DEF Charge
<1>12. Filled(buckets'[a]) = Level[a] - n
  <2>1. Filled(buckets'[a]) = AtMost(Burst, Tokens(a) - n)
    BY <1>11, <1>7, LimiterAssumption DEF Filled
  <2> QED BY <2>1, <1>1, <1>6, <1>7 DEF AtMost
<1>13. \A k \in Addresses \ {a} : Level'[k] = Level[k]
  BY <1>5, <1>8, <1>9, <1>10, <1>11 DEF Level
<1> QED BY <1>6, <1>10, <1>11, <1>12, <1>13 DEF Level

(* Every step of the limiter is one the promise allows, or none.              *)
LEMMA StepKept == LimiterTypeOK /\ [LimiterNext]_buckets => [Promise!Next]_Level
<1> SUFFICES ASSUME LimiterTypeOK, [LimiterNext]_buckets PROVE [Promise!Next]_Level OBVIOUS
<1>1. Burst \in Nat /\ Costs \subseteq Nat BY LimiterAssumption
<1>2. ASSUME NEW a \in Addresses PROVE Tokens(a) \in 0 .. Burst
  <2>1. Found(a)[a] \in Bucket
    BY <1>1 DEF Found, Kept, LimiterTypeOK, Bucket, NewBucket
  <2> QED BY <2>1, FillsAsPromised DEF Tokens
<1>3. ASSUME NEW a \in Addresses, NEW c \in Costs, Allow(a, c) PROVE Promise!Next
  <2>1. Charge(a, c) /\ c \in 0 .. Tokens(a) BY <1>1, <1>2, <1>3 DEF Allow
  <2>2. Level' = [Level EXCEPT ![a] = @ - c] /\ c <= Level[a]
    BY <2>1, <1>1, <1>2, ForgettingIsFree
  <2> QED BY <2>2 DEF Promise!Next, Promise!Spend
<1>4. ASSUME NEW a \in Addresses, NEW c \in Costs, Deny(a, c) PROVE Level' = Level
  <2>1. Charge(a, 0) /\ 0 \in 0 .. Tokens(a) BY <1>1, <1>2, <1>4 DEF Deny
  <2>2. Level' = [Level EXCEPT ![a] = @ - 0] /\ Level[a] = Tokens(a)
    BY <2>1, ForgettingIsFree
  <2>3. Level[a] - 0 = Level[a] BY <2>2, <1>1, <1>2
  <2> QED BY <2>2, <2>3 DEF Level
<1>5. CASE Elapse
  <2>1. \A a \in Addresses : Level'[a] = AtMost(Burst, Level[a] + Rate)
    <3> TAKE a \in Addresses
    <3>1. CASE a \in DOMAIN buckets
      BY <3>1, <1>5, FillsAsPromised DEF Elapse, Level, LimiterTypeOK
    <3>2. CASE a \notin DOMAIN buckets
      BY <3>2, <1>5, LimiterAssumption DEF Elapse, Level, AtMost
    <3> QED BY <3>1, <3>2
  <2> QED BY <2>1 DEF Promise!Next, Promise!Fill, Promise!MinOf, AtMost, Level
<1>6. CASE Forget
  BY <1>6 DEF Forget, Level, Promise!Next, Promise!Restart
<1>7. CASE UNCHANGED buckets BY <1>7 DEF Level
<1> QED BY <1>3, <1>4, <1>5, <1>6, <1>7 DEF LimiterNext

(* The limiter implements RateLimit: however buckets are kept and forgotten,  *)
(* no address spends a token it has not waited for (hub.go, limiter.allow).   *)
THEOREM LimiterKeepsPromise == LimiterSpec => LimiterPromise
<1>1. LimiterInit => Promise!Init /\ LimiterTypeOK
  BY DEF LimiterInit, Promise!Init, Level, LimiterTypeOK
<1> QED BY <1>1, LimiterTyped, StepKept, PTL DEF LimiterSpec, LimiterPromise, Promise!Spec

-------------------------------------------------------------------------------
(* The handlers.                                                              *)

(* While a key is minted no claim holds, and the name is not registered.      *)
MintSafe ==
    /\ job.doing \in {"mint", "claim"} => ~Claimed /\ manifest = None
    /\ job.doing = "mint" => minted < MaxKeys
    /\ job.doing = "claim" => job.key = keyfile

(* A claim that holds names the stored key, and lasts as long as any answer   *)
(* that was made of it.                                                       *)
ClaimSafe ==
    manifest = None =>
        /\ Claimed => claim.key = keyfile
        /\ \A s \in Studios : told[s] # None /\ told[s].kept =>
              Claimed /\ claim.key = told[s].key /\ told[s].left <= claim.left

(* What of a registration is written is there; what is not, replaces only     *)
(* what it is newer than; and the offers it lists are its operator's.         *)
RegisterSafe ==
    job.doing = "register" =>
        /\ job.manifest.statusKey = keyfile
        /\ IF "manifest" \in job.todo
           THEN manifest # None =>
                  /\ job.manifest.operator = manifest.operator
                  /\ job.manifest.until > manifest.until \/ job.manifest = manifest
           ELSE manifest = job.manifest
        /\ "offer" \in job.todo =>
              /\ job.offer # None
              /\ offer \in {None, job.offer} \/ job.offer.version > offer.version
        /\ "offer" \notin job.todo => job.offer \in {None, offer}
        /\ job.manifest.lists =>
              OwnOffer(job.manifest, IF job.offer = None THEN offer ELSE job.offer)

IInv == TypeOK /\ KeyMatches /\ OffersOwn /\ MintSafe /\ ClaimSafe /\ RegisterSafe

(* Every step of a handler takes at most one step of the limiter.             *)
LEMMA LimiterSteps == [Next]_vars => [LimiterNext]_buckets
<1> SUFFICES ASSUME [Next]_vars PROVE [LimiterNext]_buckets OBVIOUS
<1>1. ASSUME NEW s \in Studios, Claim(s) PROVE LimiterNext
  BY <1>1, NamesAssumption DEF Claim, LimiterNext
<1>2. ASSUME NEW a \in Addresses, Register(a) PROVE LimiterNext
  BY <1>2, NamesAssumption DEF Register, LimiterNext
<1>3. CASE StoreKey BY <1>3 DEF StoreKey
<1>4. ASSUME NEW stored \in BOOLEAN, StoreClaim(stored) PROVE UNCHANGED buckets
  BY <1>4 DEF StoreClaim
<1>5. ASSUME NEW f \in {"manifest", "offer"}, WriteFile(f) PROVE UNCHANGED buckets
  BY <1>5 DEF WriteFile
<1>6. CASE Registered BY <1>6 DEF Registered
<1>7. CASE DiskError BY <1>7 DEF DiskError
<1>8. CASE Crash BY <1>8 DEF Crash, LimiterNext
<1>9. CASE Disable BY <1>9 DEF Disable
<1>10. CASE Tick BY <1>10 DEF Tick, LimiterNext
<1>11. CASE UNCHANGED vars BY <1>11 DEF vars
<1> QED BY <1>1, <1>2, <1>3, <1>4, <1>5, <1>6, <1>7, <1>8, <1>9, <1>10, <1>11 DEF Next

(* The handlers of a name use the limiter as Limiter.tla has it, so the       *)
(* promise of RateLimit holds of every address whatever it asks for.          *)
THEOREM RequestsLimited == Spec => LimiterPromise
<1>1. Init => LimiterInit BY DEF Init
<1>2. Spec => LimiterSpec BY <1>1, LimiterSteps, PTL DEF Spec, LimiterSpec
<1> QED BY <1>2, LimiterKeepsPromise

LEMMA InitSafe == Init => IInv
<1> SUFFICES ASSUME Init PROVE IInv OBVIOUS
<1>1. TypeOK
  <2>1. LimiterTypeOK BY DEF Init, LimiterInit, LimiterTypeOK
  <2>2. told \in [Studios -> Answers \cup {None}] /\ known \in [Studios -> SUBSET (1 .. minted)]
    BY DEF Init
  <2>3. /\ keyfile \in 0 .. minted /\ minted \in 0 .. MaxKeys
        /\ crashes \in 0 .. MaxCrashes /\ faults \in 0 .. MaxFaults
    BY NamesAssumption DEF Init
  <2>4. claim = None /\ manifest = None /\ offer = None /\ disabled = FALSE /\ cut = FALSE /\ job = Free
    BY DEF Init
  <2> QED BY <2>1, <2>2, <2>3, <2>4, Zenon DEF TypeOK
<1>2. MintSafe /\ RegisterSafe BY DEF Init, MintSafe, RegisterSafe, Free
<1>3. KeyMatches /\ OffersOwn /\ ClaimSafe
  BY DEF Init, KeyMatches, OffersOwn, ClaimSafe, Claimed
<1> QED BY <1>1, <1>2, <1>3 DEF IInv

(* Who answers a claim, with a key that was minted, keeps the types.          *)
LEMMA TellTyped ==
    ASSUME TypeOK, NEW s \in Studios, NEW kept \in BOOLEAN, NEW c \in Claims,
           c.left > 0, Tell(s, c, kept), minted' \in Nat, minted <= minted', c.key <= minted'
    PROVE  /\ told' \in [Studios -> Answers \cup {None}]
           /\ known' \in [Studios -> SUBSET (1 .. minted')]
<1>1. minted \in Nat /\ 1 .. minted \subseteq 1 .. minted' BY NamesAssumption DEF TypeOK
<1>2. [key |-> c.key, left |-> c.left, kept |-> kept] \in Answers
  BY NamesAssumption DEF Claims, Answers
<1>3. c.key \in 1 .. minted' BY NamesAssumption DEF Claims, Keys
<1> QED BY <1>1, <1>2, <1>3 DEF Tell, TypeOK

(* Each step keeps the types, given what the strengthening says of the step   *)
(* under way.                                                                 *)
LEMMA TypeStep == IInv /\ [Next]_vars => TypeOK'
<1> SUFFICES ASSUME IInv, [Next]_vars PROVE TypeOK' OBVIOUS
<1> USE DEF IInv, disk, studio
<1>0. LimiterTypeOK' BY LimiterSteps, LimiterTyped DEF TypeOK
<1>1. ASSUME NEW s \in Studios, Claim(s) PROVE TypeOK'
  <2>2. CASE Mint(s)
    BY <2>2, <1>1, <1>0, NamesAssumption DEF Mint, Claim, TypeOK, Minting
  <2>3. CASE ClaimAgain(s)
    <3>1. claim \in Claims /\ claim.left > 0 /\ claim.key = keyfile
      BY <2>3 DEF ClaimAgain, Claimed, NameTaken, ClaimSafe, TypeOK
    <3>2. minted' = minted /\ minted \in Nat /\ keyfile <= minted
      BY <2>3, NamesAssumption DEF ClaimAgain, TypeOK
    <3>3. PICK kept \in BOOLEAN : Tell(s, claim, kept) BY <2>3, Zenon DEF ClaimAgain
    <3>4. /\ told' \in [Studios -> Answers \cup {None}]
          /\ known' \in [Studios -> SUBSET (1 .. minted')]
      BY <3>1, <3>2, <3>3, TellTyped
    <3> QED BY <3>4, <2>3, <1>1, <1>0 DEF ClaimAgain, Claim, TypeOK
  <2>4. CASE UNCHANGED <<disk, job, studio>>
    BY <2>4, <1>1, <1>0 DEF Claim, TypeOK
  <2> QED BY <2>2, <2>3, <2>4, <1>1 DEF Claim, ClaimRefused
<1>2. ASSUME NEW a \in Addresses, Register(a) PROVE TypeOK'
  <2>1. job' = job \/ job' \in [doing : {"register"}, manifest : Manifests,
                                offer : Offers \cup {None}, todo : SUBSET {"manifest", "offer"}]
    BY <1>2 DEF Register, Registering, Signed
  <2>2. UNCHANGED <<disk, studio, cut, crashes, faults>> BY <1>2 DEF Register
  <2>3. CASE job' = job BY <2>2, <2>3, <1>0 DEF TypeOK
  <2>4. CASE job' # job BY <2>1, <2>2, <2>4, <1>0 DEF TypeOK
  <2> QED BY <2>3, <2>4
<1>3. CASE StoreKey
  <2>1. minted' \in 0 .. MaxKeys /\ minted' \in Keys /\ minted <= minted'
    BY <1>3, NamesAssumption DEF StoreKey, TypeOK, MintSafe, Keys
  <2>2. known' \in [Studios -> SUBSET (1 .. minted')]
    <3>1. 1 .. minted \subseteq 1 .. minted' BY <2>1, NamesAssumption DEF TypeOK
    <3> QED BY <3>1, <1>3 DEF StoreKey, TypeOK
  <2>3. job' \in [doing : {"claim"}, by : Studios, key : Keys]
    BY <1>3, <2>1 DEF StoreKey, TypeOK, Claiming, Free
  <2>4. keyfile' \in 0 .. minted'
    BY <1>3, <2>1, NamesAssumption DEF StoreKey, TypeOK
  <2> QED BY <1>3, <1>0, <2>1, <2>2, <2>3, <2>4 DEF StoreKey, TypeOK
<1>4. ASSUME NEW stored \in BOOLEAN, StoreClaim(stored) PROVE TypeOK'
  <2> DEFINE c == [key |-> job.key, left |-> TTL]
  <2>1. job.by \in Studios /\ job.key \in Keys /\ job.key = keyfile
    BY <1>4 DEF StoreClaim, TypeOK, MintSafe, Free
  <2>2. c \in Claims /\ c.left > 0 BY <2>1, NamesAssumption DEF Claims
  <2>3. c.key <= minted /\ minted' = minted /\ minted \in Nat
    BY <1>4, <2>1, NamesAssumption DEF StoreClaim, TypeOK
  <2>4. Tell(job.by, c, stored) BY <1>4 DEF StoreClaim
  <2>5. /\ told' \in [Studios -> Answers \cup {None}]
        /\ known' \in [Studios -> SUBSET (1 .. minted')]
    BY <2>1, <2>2, <2>3, <2>4, TellTyped
  <2>6. claim' \in Claims \cup {None} BY <1>4, <2>2 DEF StoreClaim, TypeOK
  <2>7. faults' \in 0 .. MaxFaults BY <1>4, NamesAssumption DEF StoreClaim, TypeOK
  <2> QED BY <1>4, <1>0, <2>5, <2>6, <2>7 DEF StoreClaim, TypeOK
<1>5. ASSUME NEW f \in {"manifest", "offer"}, WriteFile(f) PROVE TypeOK'
  <2>1. job \in [doing : {"register"}, manifest : Manifests,
                 offer : Offers \cup {None}, todo : SUBSET {"manifest", "offer"}]
    BY <1>5 DEF WriteFile, TypeOK, Free
  <2>2. job' \in [doing : {"register"}, manifest : Manifests,
                  offer : Offers \cup {None}, todo : SUBSET {"manifest", "offer"}]
    BY <2>1, <1>5 DEF WriteFile
  <2>3. manifest' \in Manifests \cup {None} /\ offer' \in Offers \cup {None}
    BY <1>5, <2>1 DEF WriteFile, TypeOK
  <2> QED BY <1>5, <1>0, <2>2, <2>3 DEF WriteFile, TypeOK
<1>6. CASE Registered BY <1>6, <1>0 DEF Registered, TypeOK
<1>7. CASE DiskError BY <1>7, <1>0, NamesAssumption DEF DiskError, TypeOK, CutShort
<1>8. CASE Crash BY <1>8, <1>0, NamesAssumption DEF Crash, TypeOK, CutShort
<1>9. CASE Disable BY <1>9, <1>0 DEF Disable, TypeOK
<1>10. CASE Tick
  <2>1. claim' \in Claims \cup {None}
    BY <1>10, NamesAssumption DEF Tick, Passes, TypeOK, Claims
  <2>2. \A s \in Studios : told'[s] \in Answers \cup {None}
    <3> TAKE s \in Studios
    <3>1. CASE told[s] = None \/ told[s].left = 1 BY <3>1, <1>10 DEF Tick
    <3>2. CASE ~(told[s] = None \/ told[s].left = 1)
      BY <3>2, <1>10, NamesAssumption DEF Tick, TypeOK, Answers, Passes
    <3> QED BY <3>1, <3>2
  <2>3. told' \in [Studios -> Answers \cup {None}] BY <2>2, <1>10 DEF Tick
  <2> QED BY <1>10, <1>0, <2>1, <2>3 DEF Tick, TypeOK
<1>11. CASE UNCHANGED vars BY <1>11, <1>0 DEF vars, TypeOK
<1> QED BY <1>1, <1>2, <1>3, <1>4, <1>5, <1>6, <1>7, <1>8, <1>9, <1>10, <1>11 DEF Next

(* What a claim, a registration and the passing of time do to the rest of the *)
(* strengthening.                                                             *)
Rest == KeyMatches /\ OffersOwn /\ MintSafe /\ ClaimSafe /\ RegisterSafe

LEMMA RestStep == IInv /\ [Next]_vars => Rest'
<1> SUFFICES ASSUME IInv, [Next]_vars PROVE Rest' OBVIOUS
<1> USE DEF IInv, disk, studio
<1>0. TypeOK /\ TypeOK' BY TypeStep
<1>1. ASSUME NEW s \in Studios, Claim(s) PROVE Rest'
  <2>1. CASE Mint(s)
    BY <2>1, <1>1, NamesAssumption
    DEF Claim, Mint, Minting, Free, NameTaken, Claimed, Rest, KeyMatches, OffersOwn, MintSafe,
        ClaimSafe, RegisterSafe
  <2>2. CASE ClaimAgain(s)
    <3>1. Claimed /\ claim \in Claims /\ manifest = None /\ claim.key = keyfile
      BY <2>2 DEF ClaimAgain, NameTaken, Claimed, ClaimSafe, TypeOK
    <3>2. \A t \in Studios : told'[t] = IF t = s
                              THEN [key |-> claim.key, left |-> claim.left, kept |-> TRUE]
                              ELSE told[t]
      BY <2>2, <1>0 DEF ClaimAgain, Tell, TypeOK
    <3>3. ClaimSafe' BY <3>1, <3>2, <2>2, NamesAssumption DEF ClaimAgain, ClaimSafe, Claimed, Claims
    <3> QED BY <3>3, <2>2, <1>1
        DEF Claim, ClaimAgain, Rest, KeyMatches, OffersOwn, MintSafe, RegisterSafe, Claimed
  <2>3. CASE UNCHANGED <<disk, job, studio>>
    BY <2>3, <1>1 DEF Claim, Rest, KeyMatches, OffersOwn, MintSafe, ClaimSafe, RegisterSafe, Claimed
  <2> QED BY <2>1, <2>2, <2>3, <1>1 DEF Claim, ClaimRefused
<1>2. ASSUME NEW a \in Addresses, Register(a) PROVE Rest'
  <2>1. UNCHANGED <<disk, studio, cut, crashes, faults>> BY <1>2 DEF Register
  <2>2. CASE job' = job
    BY <2>1, <2>2 DEF Rest, KeyMatches, OffersOwn, MintSafe, ClaimSafe, RegisterSafe, Claimed
  <2>3. CASE job' # job
    <3>1. PICK m \in Signed, o \in Offers \cup {None} :
            /\ Accepted(m, o)
            /\ job' = Registering(m, o, {"manifest"} \cup (IF o = None THEN {} ELSE {"offer"}))
      BY <1>2, <2>3 DEF Register
    <3>2. RegisterSafe'
      BY <3>1, <2>1
      DEF RegisterSafe, Accepted, Registering, SameOperator, NotOlder, OffersOK, OfferUpdate, OwnOffer
    <3> QED BY <3>1, <3>2, <2>1
        DEF Rest, KeyMatches, OffersOwn, MintSafe, ClaimSafe, Claimed, Registering
  <2> QED BY <2>2, <2>3
<1>3. CASE StoreKey
  BY <1>3, NamesAssumption
  DEF StoreKey, Claiming, Rest, KeyMatches, OffersOwn, MintSafe, ClaimSafe, RegisterSafe, Claimed
<1>4. ASSUME NEW stored \in BOOLEAN, StoreClaim(stored) PROVE Rest'
  <2>1. ~Claimed /\ manifest = None /\ job.key = keyfile /\ job.by \in Studios
    BY <1>4 DEF StoreClaim, MintSafe, TypeOK, Free
  <2>2. \A t \in Studios : told'[t] = IF t = job.by
                            THEN [key |-> job.key, left |-> TTL, kept |-> stored]
                            ELSE told[t]
    BY <1>4, <1>0 DEF StoreClaim, Tell, TypeOK
  <2>3. \A t \in Studios : told[t] = None \/ ~told[t].kept BY <2>1 DEF ClaimSafe
  <2>4. stored => Claimed' /\ claim'.key = job.key /\ claim'.left = TTL
    <3>1. job.key \in Keys BY <1>4, <1>0 DEF StoreClaim, TypeOK, Free
    <3>2. [key |-> job.key, left |-> TTL] \in Claims BY <3>1, NamesAssumption DEF Claims
    <3>3. [key |-> job.key, left |-> TTL] # None BY <3>2, NamesAssumption
    <3>4. stored => claim' = [key |-> job.key, left |-> TTL] BY <1>4, Zenon DEF StoreClaim
    <3> QED BY <3>3, <3>4, NamesAssumption DEF Claimed
  <2>5. ~stored => ~Claimed' BY <2>1, <1>4 DEF StoreClaim, Claimed
  <2>6. ClaimSafe'
    BY <2>1, <2>2, <2>3, <2>4, <2>5, <1>4, NamesAssumption DEF StoreClaim, ClaimSafe
  <2> QED BY <2>1, <2>6, <1>4
      DEF StoreClaim, Free, Rest, KeyMatches, OffersOwn, MintSafe, RegisterSafe
<1>5. ASSUME NEW f \in {"manifest", "offer"}, WriteFile(f) PROVE Rest'
  <2>1. job \in [doing : {"register"}, manifest : Manifests,
                 offer : Offers \cup {None}, todo : SUBSET {"manifest", "offer"}]
    BY <1>5 DEF WriteFile, TypeOK, Free
  <2>2. job' = [doing |-> "register", manifest |-> job.manifest, offer |-> job.offer,
                todo |-> job.todo \ {f}]
    BY <2>1, <1>5 DEF WriteFile
  <2>3. job.manifest # None BY <2>1, NamesAssumption
  <2>4. RegisterSafe'
    BY <2>1, <2>2, <2>3, <1>5 DEF WriteFile, RegisterSafe, OwnOffer
  <2> QED BY <2>1, <2>2, <2>3, <2>4, <1>5
      DEF WriteFile, Rest, KeyMatches, OffersOwn, MintSafe, ClaimSafe, RegisterSafe, Claimed
<1>6. CASE Registered
  <2>1. job.manifest # None BY <1>6, NamesAssumption DEF Registered, TypeOK, Free
  <2> QED BY <1>6, <2>1
      DEF Registered, Free, Rest, KeyMatches, OffersOwn, MintSafe, ClaimSafe, RegisterSafe, OwnOffer
<1>7. CASE DiskError
  BY <1>7 DEF DiskError, CutShort, Free, Rest, KeyMatches, OffersOwn, MintSafe, ClaimSafe,
              RegisterSafe, Claimed
<1>8. CASE Crash
  BY <1>8 DEF Crash, CutShort, Free, Rest, KeyMatches, OffersOwn, MintSafe, ClaimSafe,
              RegisterSafe, Claimed
<1>9. CASE Disable
  BY <1>9 DEF Disable, Rest, KeyMatches, OffersOwn, MintSafe, ClaimSafe, RegisterSafe, Claimed
<1>10. CASE Tick
  <2>1. claim # None => claim' # None /\ claim'.key = claim.key
                        /\ claim.left \in Nat /\ claim'.left = IF claim.left = 0 THEN 0 ELSE claim.left - 1
    BY <1>10, <1>0, NamesAssumption DEF Tick, Passes, TypeOK, Claims
  <2>2. claim = None => claim' = None BY <1>10 DEF Tick, Passes
  <2>3. \A s \in Studios : told'[s] # None =>
            /\ told[s] # None /\ told'[s].key = told[s].key /\ told'[s].kept = told[s].kept
            /\ told[s].left \in Nat /\ told[s].left > 1 /\ told'[s].left = told[s].left - 1
    <3> TAKE s \in Studios
    <3>1. told[s] = None \/ told[s] \in Answers BY <1>0 DEF TypeOK
    <3> QED BY <3>1, <1>10, NamesAssumption DEF Tick, Passes, Answers
  <2>4. ClaimSafe' BY <2>1, <2>2, <2>3, <1>10 DEF Tick, ClaimSafe, Claimed
  <2>5. MintSafe' BY <2>1, <2>2, <1>10 DEF Tick, MintSafe, Claimed
  <2> QED BY <2>4, <2>5, <1>10 DEF Tick, Rest, KeyMatches, OffersOwn, RegisterSafe
<1>11. CASE UNCHANGED vars
  BY <1>11 DEF vars, Rest, KeyMatches, OffersOwn, MintSafe, ClaimSafe, RegisterSafe, Claimed
<1> QED BY <1>1, <1>2, <1>3, <1>4, <1>5, <1>6, <1>7, <1>8, <1>9, <1>10, <1>11 DEF Next

LEMMA Safe == Spec => []IInv
<1>1. IInv /\ [Next]_vars => IInv' BY TypeStep, RestStep DEF IInv, Rest
<1> QED BY <1>1, InitSafe, PTL DEF Spec

(* The key a list is signed with is the manifest's, an answered claim is      *)
(* honoured, and listed offers are there, signed by the operator.             *)
THEOREM FilesAgree == Spec => []NameSound
<1>1. IInv => ClaimHonoured
  BY DEF IInv, ClaimSafe, ClaimHonoured
<1>2. IInv => NameSound BY <1>1 DEF IInv, NameSound
<1> QED BY <1>2, Safe, PTL

(* A name never changes hands, and neither its manifest nor its operator's    *)
(* offer is rolled back, whatever is sent again.                              *)
THEOREM NeverRolledBack == Spec => Succession
<1> DEFINE Held == manifest # None => manifest' # None /\ manifest'.operator = manifest.operator
           Newer == /\ manifest \notin {None, manifest'} => manifest'.until > manifest.until
                    /\ manifest # None /\ offer \notin {None, offer'} => offer'.version > offer.version
<1>1. IInv /\ [Next]_vars => Held /\ Newer
  <2> SUFFICES ASSUME IInv, [Next]_vars PROVE Held /\ Newer OBVIOUS
  <2>1. ASSUME NEW f \in {"manifest", "offer"}, WriteFile(f) PROVE Held /\ Newer
    <3>1. job.manifest # None
      BY <2>1, NamesAssumption DEF WriteFile, IInv, TypeOK, Free
    <3> QED BY <2>1, <3>1 DEF WriteFile, IInv, RegisterSafe
  <2>2. CASE UNCHANGED <<manifest, offer>> BY <2>2
  <2> QED BY <2>1, <2>2
      DEF Next, vars, disk, Claim, ClaimAgain, Mint, ClaimRefused, Register, StoreKey, StoreClaim,
          Registered, DiskError, Crash, Disable, Tick
<1>2. Spec => [][Held]_vars /\ [][Newer]_vars BY <1>1, Safe, PTL DEF Spec
<1> QED BY <1>2 DEF Succession, OneOperator, NoRollback
================================================================================
