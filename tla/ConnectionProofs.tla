-------------------------- MODULE ConnectionProofs --------------------------
(***************************************************************************)
(* What a connection meets, for every number of addresses and names, any   *)
(* amount of traffic and every setting of the backend.  From the login     *)
(* limiter (BotFilter): at most RateLimit unverified logins pass in a      *)
(* window, and only an address that changes its name is refused twice.     *)
(* From the two pipes (Session): what they never do to it.  The two share  *)
(* no state.                                                               *)
(***************************************************************************)
EXTENDS BotFilter, Session, TLAPS

-----------------------------------------------------------------------------
(* The login limiter.                                                       *)

Tried(addr, name) == Denied(addr, name) \/ Allowed(addr, name)

Refuses(ip, name) == DenyBanned(ip) \/ DenyUnknown(ip, name) \/ DenyOtherName(ip, name)
Admits(ip, name) == AllowFreely(ip) \/ AllowVerified(ip, name)

\* A login is an answer of the limiter, for the key of its address.
LEMMA TryCases ==
    ASSUME NEW addr \in Addrs, NEW name \in Names, Tried(addr, name)
    PROVE  /\ Key(addr) \in Ips
           /\ \/ Refuses(Key(addr), name) /\ Remember(addr, name, FALSE)
              \/ Admits(Key(addr), name) /\ Remember(addr, name, TRUE)
BY FilterIpAssumption DEF Tried, Denied, Allowed, Refuses, Admits, Key

\* What all answers to a login have in common.
LEMMA TryFacts ==
    ASSUME NEW addr \in Addrs, NEW name \in Names, Tried(addr, name)
    PROVE  /\ Roll
           /\ \E allowed \in BOOLEAN : Remember(addr, name, allowed)
           /\ limiting' \in {StillLimiting, TRUE, FALSE}
           /\ \E ip \in Ips : blackList' \in {blackList, [blackList EXCEPT ![ip] = 0]}
           /\ \E ip \in Ips : namesList' \in {namesList, [namesList EXCEPT ![ip] = name]}
PROOF
<1> DEFINE ip == Key(addr)
<1>1. /\ ip \in Ips
      /\ \/ Refuses(ip, name) /\ Remember(addr, name, FALSE)
         \/ Admits(ip, name) /\ Remember(addr, name, TRUE)
  BY TryCases
<1> HIDE DEF ip
<1>2. Roll /\ limiting' \in {StillLimiting, TRUE, FALSE}
  BY <1>1 DEF Refuses, Admits, DenyBanned, DenyUnknown, DenyOtherName, AllowFreely, AllowVerified
<1>3. blackList' \in {blackList, [blackList EXCEPT ![ip] = 0]}
  BY <1>1 DEF Refuses, Admits, DenyBanned, DenyUnknown, DenyOtherName, AllowFreely, AllowVerified
<1>4. namesList' \in {namesList, [namesList EXCEPT ![ip] = name]}
  BY <1>1 DEF Refuses, Admits, DenyBanned, DenyUnknown, DenyOtherName, AllowFreely, AllowVerified
<1> QED
  BY <1>1, <1>2, <1>3, <1>4

\* The two durations NewBackendConfig derives are beyond no age.
LEMMA Durations ==
    /\ rateCooldown \in Nat /\ listClearTime \in Nat /\ unverifyCooldown \in Nat
    /\ listClearTime <= MaxAge
PROOF
<1>1. listClearTime \in Nat
  BY BotFilterAssumption DEF listClearTime
<1>2. rateCooldown \in Nat /\ unverifyCooldown \in Nat
  BY BotFilterAssumption DEF rateCooldown, unverifyCooldown
<1> QED
  BY <1>1, <1>2, BotFilterAssumption

\* Counting a login stays within the counter's cap and never loses a login.
LEMMA Counting ==
    ASSUME LimiterTypeOK
    PROVE  /\ Count \in 1..(RateLimit + 1)
           /\ ~NewWindow => Count >= rateCounter
           /\ ~Above(Count) => Count = (IF NewWindow THEN 0 ELSE rateCounter) + 1
BY BotFilterAssumption DEF LimiterTypeOK, Count, Above

\* Every login rolls the window and is remembered; it may ban, name or lift.
LEMMA TryKeepsTypes ==
    ASSUME LimiterTypeOK, NEW addr \in Addrs, NEW name \in Names, Tried(addr, name)
    PROVE  LimiterTypeOK'
PROOF
<1>1. Count \in 0..(RateLimit + 1)
  BY Counting, BotFilterAssumption
<1>2. /\ windowAge' \in 0..MaxAge /\ aboveAge' \in 0..MaxAge
      /\ rateCounter' \in 0..(RateLimit + 1)
  <2>1. Roll
    BY TryFacts
  <2> QED
    BY <1>1, <2>1, BotFilterAssumption DEF Roll, RolledAboveAge, LimiterTypeOK
<1>3. /\ overAge' \in 0..MaxAge /\ admitted' \in Nat
      /\ usedNames' \in [Addrs -> SUBSET Names]
      /\ denials' \in [Addrs -> 0..2]
  <2>1. PICK allowed \in BOOLEAN : Remember(addr, name, allowed)
    BY TryFacts
  <2>2. overAge' \in 0..MaxAge /\ admitted' \in Nat
    BY <2>1, BotFilterAssumption DEF Remember, LimiterTypeOK
  <2>3. usedNames' \in [Addrs -> SUBSET Names]
    BY <2>1 DEF Remember, LimiterTypeOK
  <2>4. denials' \in [Addrs -> 0..2]
    BY <2>1 DEF Remember, LimiterTypeOK
  <2> QED
    BY <2>2, <2>3, <2>4
<1>4. limiting' \in BOOLEAN
  BY TryFacts DEF StillLimiting, LimiterTypeOK
<1>5. blackList' \in [Ips -> 0..MaxAge]
  <2>1. PICK ip \in Ips : blackList' \in {blackList, [blackList EXCEPT ![ip] = 0]}
    BY TryFacts
  <2> QED
    BY <2>1, BotFilterAssumption DEF LimiterTypeOK
<1>6. namesList' \in [Ips -> Names \cup {NoName}]
  <2>1. PICK ip \in Ips : namesList' \in {namesList, [namesList EXCEPT ![ip] = name]}
    BY TryFacts
  <2> QED
    BY <2>1 DEF LimiterTypeOK
<1> QED
  BY <1>2, <1>3, <1>4, <1>5, <1>6 DEF LimiterTypeOK

LEMMA TickKeepsTypes == LimiterTypeOK /\ Tick => LimiterTypeOK'
PROOF
<1> SUFFICES ASSUME LimiterTypeOK, Tick PROVE LimiterTypeOK'
  OBVIOUS
<1>1. \A age \in 0..MaxAge : Older(age) \in 0..MaxAge
  BY BotFilterAssumption DEF Older
<1> QED
  BY <1>1 DEF LimiterTypeOK, Tick

\* The fields keep the types conn_limiter.go 74-88 gives them, in every window.
THEOREM LimiterTypeCorrect == LimiterSpec => []LimiterTypeOK
PROOF
<1>1. LimiterInit => LimiterTypeOK
  <2> SUFFICES ASSUME LimiterInit PROVE LimiterTypeOK
    OBVIOUS
  <2>1. limiting \in BOOLEAN
    BY DEF LimiterInit
  <2>2. /\ rateCounter \in 0..(RateLimit + 1) /\ admitted \in Nat
        /\ windowAge \in 0..MaxAge /\ aboveAge \in 0..MaxAge /\ overAge \in 0..MaxAge
        /\ blackList \in [Ips -> 0..MaxAge] /\ denials \in [Addrs -> 0..2]
    BY BotFilterAssumption DEF LimiterInit
  <2>3. /\ namesList \in [Ips -> Names \cup {NoName}]
        /\ usedNames \in [Addrs -> SUBSET Names]
    BY DEF LimiterInit
  <2> QED
    BY <2>1, <2>2, <2>3 DEF LimiterTypeOK
<1>2. LimiterTypeOK /\ [LimiterNext]_limiterVars => LimiterTypeOK'
  <2> SUFFICES ASSUME LimiterTypeOK, [LimiterNext]_limiterVars PROVE LimiterTypeOK'
    OBVIOUS
  <2>1. CASE Tick
    BY <2>1, TickKeepsTypes
  <2>2. CASE \E addr \in Addrs, name \in Names : Tried(addr, name)
    BY <2>2, TryKeepsTypes
  <2>3. CASE UNCHANGED limiterVars
    BY <2>3 DEF LimiterTypeOK, limiterVars, state, history
  <2> QED
    BY <2>1, <2>2, <2>3 DEF LimiterNext, Login, Tried
<1> QED
  BY <1>1, <1>2, PTL DEF LimiterSpec

-----------------------------------------------------------------------------
(* A login let through unverified was counted in its window, and found the  *)
(* counter at most at the limit.                                            *)

AdmittedAreCounted == admitted <= rateCounter /\ admitted <= RateLimit

LEMMA TryCountsAdmitted ==
    ASSUME LimiterTypeOK, AdmittedAreCounted,
           NEW addr \in Addrs, NEW name \in Names, Tried(addr, name)
    PROVE  AdmittedAreCounted'
PROOF
<1> DEFINE before == IF NewWindow THEN 0 ELSE admitted
<1>0. admitted \in Nat /\ rateCounter \in Nat /\ RateLimit \in Nat
  BY BotFilterAssumption DEF LimiterTypeOK
<1>1. before \in Nat /\ before <= Count /\ before <= RateLimit /\ Count \in Nat
  BY <1>0, Counting DEF AdmittedAreCounted
<1>2. rateCounter' = Count
  BY TryFacts DEF Roll
<1>3. ASSUME \/ Refuses(Key(addr), name) /\ Remember(addr, name, FALSE)
             \/ AllowVerified(Key(addr), name) /\ Remember(addr, name, TRUE)
      PROVE  admitted' = before
  BY <1>3, <1>1 DEF AllowVerified, Remember
<1>4. ASSUME AllowFreely(Key(addr)), Remember(addr, name, TRUE)
      PROVE  admitted' \in {before, before + 1} /\ before + 1 <= Count /\ Count <= RateLimit
  <2>1. ~Above(Count)
    BY <1>4 DEF AllowFreely, Limits
  <2>2. Count <= RateLimit /\ before + 1 <= Count
    BY <2>1, <1>0, <1>1, Counting DEF Above, AdmittedAreCounted
  <2>3. admitted' \in {before, before + 1}
    BY <1>4, <1>1 DEF Remember
  <2> QED
    BY <2>2, <2>3
<1>5. admitted' <= Count /\ admitted' <= RateLimit
  <2>1. \/ admitted' = before
        \/ admitted' \in {before, before + 1} /\ before + 1 <= Count /\ Count <= RateLimit
    BY <1>3, <1>4, TryCases DEF Admits
  <2> QED
    BY <2>1, <1>0, <1>1
<1> QED
  BY <1>2, <1>5 DEF AdmittedAreCounted

\* One window never lets through more than RateLimit logins it has not verified
\* (Allow 95-115), however the limiter switches on and off.
THEOREM WindowAdmitsAtMostLimit == LimiterSpec => []AdmitsAtMostLimit
PROOF
<1>1. LimiterInit => AdmittedAreCounted
  BY BotFilterAssumption DEF LimiterInit, AdmittedAreCounted
<1>2. LimiterTypeOK /\ AdmittedAreCounted /\ [LimiterNext]_limiterVars => AdmittedAreCounted'
  <2> SUFFICES ASSUME LimiterTypeOK, AdmittedAreCounted, [LimiterNext]_limiterVars
               PROVE  AdmittedAreCounted'
    OBVIOUS
  <2>1. CASE Tick \/ UNCHANGED limiterVars
    BY <2>1 DEF Tick, AdmittedAreCounted, limiterVars, state, history
  <2>2. CASE \E addr \in Addrs, name \in Names : Tried(addr, name)
    BY <2>2, TryCountsAdmitted
  <2> QED
    BY <2>1, <2>2 DEF LimiterNext, Login, Tried
<1>3. AdmittedAreCounted => AdmitsAtMostLimit
  BY DEF AdmittedAreCounted, AdmitsAtMostLimit
<1> QED
  BY <1>1, <1>2, <1>3, LimiterTypeCorrect, PTL DEF LimiterSpec

-----------------------------------------------------------------------------
(* A key is banned, or one of its addresses refused twice, only after two   *)
(* names were used with it.                                                 *)

UsedWith(ip, name) == \E addr \in Addrs : Key(addr) = ip /\ name \in usedNames[addr]
SeveralNames(ip) == \E m, n \in Names : m # n /\ UsedWith(ip, m) /\ UsedWith(ip, n)

RefusalsExplained(ip) ==
    /\ namesList[ip] # NoName => UsedWith(ip, namesList[ip])
    /\ blackList[ip] < MaxAge => SeveralNames(ip) /\ namesList[ip] # NoName
    /\ \A addr \in Addrs : Key(addr) = ip =>
          /\ namesList[ip] = NoName => denials[addr] = 0
          /\ denials[addr] > 1 => SeveralNames(ip)

RefusalsInv == \A ip \in Ips : RefusalsExplained(ip)

LEMMA TryExplainsRefusals ==
    ASSUME LimiterTypeOK, RefusalsInv,
           NEW addr \in Addrs, NEW name \in Names, Tried(addr, name)
    PROVE  RefusalsInv'
PROOF
<1> SUFFICES ASSUME NEW j \in Ips PROVE RefusalsExplained(j)'
  BY DEF RefusalsInv
<1> DEFINE ip == Key(addr)
<1>0. RefusalsExplained(j)
  BY DEF RefusalsInv
<1>1. /\ ip \in Ips
      /\ \/ Refuses(ip, name) /\ Remember(addr, name, FALSE)
         \/ Admits(ip, name) /\ Remember(addr, name, TRUE)
  BY TryCases
<1>2. \A other \in Addrs : /\ usedNames[other] \subseteq usedNames'[other]
                           /\ other # addr => denials'[other] = denials[other]
  BY <1>1 DEF Remember, LimiterTypeOK
<1>3. name \in usedNames'[addr]
  BY <1>1 DEF Remember, LimiterTypeOK
<1>4. /\ \A n \in Names : UsedWith(j, n) => UsedWith(j, n)'
      /\ SeveralNames(j) => SeveralNames(j)'
  BY <1>2 DEF UsedWith, SeveralNames, Key
<1>5. UsedWith(ip, name)'
  BY <1>3 DEF UsedWith, Key
<1>6. \A other \in Addrs : denials[other] \in 0..2
  BY DEF LimiterTypeOK
<1>7. ASSUME j # ip PROVE RefusalsExplained(j)'
  <2>1. namesList'[j] = namesList[j] /\ blackList'[j] = blackList[j]
    BY <1>1, <1>7 DEF Refuses, Admits, DenyBanned, DenyUnknown, DenyOtherName,
                AllowFreely, AllowVerified, LimiterTypeOK
  <2>2. \A other \in Addrs : Key(other) = j => denials'[other] = denials[other]
    BY <1>2, <1>7
  <2>3. \A n \in Names : n = namesList[j] => UsedWith(j, n)'
    BY <1>0, <1>4, BotFilterAssumption DEF RefusalsExplained
  <2>4. namesList'[j] # NoName => UsedWith(j, namesList[j])'
    BY <2>1, <2>3 DEF UsedWith, LimiterTypeOK
  <2> QED
    BY <2>1, <2>2, <2>4, <1>0, <1>4 DEF RefusalsExplained, Key
<1>8. ASSUME j = ip PROVE RefusalsExplained(j)'
  <2>1. /\ blackList[ip] \in 0..MaxAge /\ MaxAge \in Nat
        /\ listClearTime \in Nat /\ listClearTime <= MaxAge
        /\ namesList[ip] \in Names \cup {NoName}
    BY <1>1, Durations, BotFilterAssumption DEF LimiterTypeOK
  <2>2. ASSUME UNCHANGED <<namesList, blackList>>,
               \/ denials' = denials
               \/ SeveralNames(ip)' /\ namesList[ip] # NoName
        PROVE  RefusalsExplained(ip)'
    <3>0. \A n \in Names : n = namesList[ip] => UsedWith(ip, n)'
      BY <1>0, <1>4, <1>8, BotFilterAssumption DEF RefusalsExplained
    <3>1. namesList[ip] # NoName => UsedWith(ip, namesList[ip])'
      BY <2>1, <2>2, <3>0 DEF UsedWith
    <3>2. blackList[ip] < MaxAge => SeveralNames(ip)' /\ namesList[ip] # NoName
      BY <1>0, <1>4, <1>8 DEF RefusalsExplained
    <3>3. ASSUME NEW other \in Addrs, Key(other) = ip
          PROVE  /\ namesList[ip] = NoName => denials'[other] = 0
                 /\ denials'[other] > 1 => SeveralNames(ip)'
      BY <1>0, <1>4, <1>8, <2>2, <3>3 DEF RefusalsExplained
    <3> QED
      BY <2>2, <3>1, <3>2, <3>3 DEF RefusalsExplained, Key
  <2>3. ASSUME DenyBanned(ip) PROVE RefusalsExplained(ip)'
    <3>1. SeveralNames(ip)' /\ namesList[ip] # NoName
      BY <2>3, <2>1, <1>0, <1>4, <1>8 DEF DenyBanned, Banned, RefusalsExplained
    <3> QED
      BY <2>2, <2>3, <3>1 DEF DenyBanned
  <2>4. ASSUME Admits(ip, name), Remember(addr, name, TRUE) PROVE RefusalsExplained(ip)'
    <3>1. denials' = denials
      BY <2>4 DEF Remember, LimiterTypeOK
    <3> QED
      BY <2>2, <2>4, <3>1 DEF Admits, AllowFreely, AllowVerified
  <2>5. ASSUME DenyUnknown(ip, name), Remember(addr, name, FALSE) PROVE RefusalsExplained(ip)'
    <3>1. namesList[ip] = NoName /\ namesList'[ip] = name /\ blackList' = blackList
      BY <1>1, <2>5 DEF DenyUnknown, LimiterTypeOK
    <3>2. \A other \in Addrs : Key(other) = ip => denials[other] = 0
      BY <1>0, <1>8, <3>1 DEF RefusalsExplained
    <3>3. \A other \in Addrs : Key(other) = ip => ~(denials'[other] > 1)
      BY <2>5, <3>2 DEF Remember, LimiterTypeOK
    <3>4. ~(blackList'[ip] < MaxAge)
      BY <1>0, <1>8, <3>1 DEF RefusalsExplained
    <3>5. UsedWith(ip, namesList[ip])'
      BY <1>3, <3>1 DEF UsedWith, Key
    <3>6. namesList'[ip] # NoName
      BY <3>1, BotFilterAssumption
    <3> QED
      BY <1>8, <3>3, <3>4, <3>5, <3>6 DEF RefusalsExplained, UsedWith, Key
  <2>6. ASSUME DenyOtherName(ip, name) PROVE RefusalsExplained(ip)'
    <3>1. namesList[ip] # NoName /\ namesList[ip] # name /\ namesList' = namesList
      BY <2>6 DEF DenyOtherName
    <3>2. PICK other \in Names : other = namesList[ip] /\ UsedWith(ip, other)'
      BY <3>1, <2>1, <1>0, <1>4, <1>8 DEF RefusalsExplained
    <3>3. SeveralNames(ip)'
      BY <3>1, <3>2, <1>5 DEF SeveralNames, UsedWith, Key
    <3>4. namesList'[ip] # NoName /\ UsedWith(ip, namesList[ip])'
      BY <3>1, <3>2 DEF UsedWith
    <3> QED
      BY <3>3, <3>4, <1>8 DEF RefusalsExplained, Key
  <2> QED
    BY <1>1, <1>8, <2>3, <2>4, <2>5, <2>6 DEF Refuses
<1> QED
  BY <1>7, <1>8

LEMMA TickExplainsRefusals ==
    ASSUME LimiterTypeOK, RefusalsInv, Tick
    PROVE  RefusalsInv'
PROOF
<1> SUFFICES ASSUME NEW j \in Ips PROVE RefusalsExplained(j)'
  BY DEF RefusalsInv
<1>1. blackList'[j] < MaxAge => blackList[j] < MaxAge
  <2>1. blackList[j] \in 0..MaxAge /\ blackList'[j] = Older(blackList[j])
    BY DEF Tick, LimiterTypeOK
  <2> QED
    BY <2>1, BotFilterAssumption DEF Older
<1>2. UNCHANGED <<namesList, usedNames, denials>>
  BY DEF Tick
<1> QED
  BY <1>1, <1>2 DEF RefusalsInv, RefusalsExplained, SeveralNames, UsedWith, Key

\* An address is refused at most once as long as it and those that share its key
\* use one name, whatever other addresses do and however long it waits (Allow
\* 115-126).
THEOREM OneNameIsEnough == LimiterSpec => []OneNameRefusedOnce
PROOF
<1>1. LimiterInit => RefusalsInv
  BY BotFilterAssumption DEF LimiterInit, RefusalsInv, RefusalsExplained
<1>2. LimiterTypeOK /\ RefusalsInv /\ [LimiterNext]_limiterVars => RefusalsInv'
  <2> SUFFICES ASSUME LimiterTypeOK, RefusalsInv, [LimiterNext]_limiterVars PROVE RefusalsInv'
    OBVIOUS
  <2>1. CASE Tick
    BY <2>1, TickExplainsRefusals
  <2>2. CASE \E addr \in Addrs, name \in Names : Tried(addr, name)
    BY <2>2, TryExplainsRefusals
  <2>3. CASE UNCHANGED limiterVars
    BY <2>3 DEF limiterVars, state, history, RefusalsInv, RefusalsExplained, SeveralNames,
                UsedWith, Key
  <2> QED
    BY <2>1, <2>2, <2>3 DEF LimiterNext, Login, Tried
<1>3. LimiterTypeOK /\ RefusalsInv => OneNameRefusedOnce
  <2> SUFFICES ASSUME LimiterTypeOK, RefusalsInv, NEW addr \in Addrs,
                      \A m, n \in UNION {usedNames[other] : other \in Sharing(addr)} : m = n
               PROVE  denials[addr] <= 1
    BY DEF OneNameRefusedOnce
  <2>1. Key(addr) \in Ips /\ denials[addr] \in 0..2
    BY FilterIpAssumption DEF Key, LimiterTypeOK
  <2>2. ~SeveralNames(Key(addr))
    <3> SUFFICES ASSUME NEW m \in Names, NEW n \in Names, m # n,
                        UsedWith(Key(addr), m), UsedWith(Key(addr), n)
                 PROVE  FALSE
      BY DEF SeveralNames
    <3>1. PICK a \in Sharing(addr) : m \in usedNames[a]
      BY DEF UsedWith, Sharing
    <3>2. PICK b \in Sharing(addr) : n \in usedNames[b]
      BY DEF UsedWith, Sharing
    <3> QED
      BY <3>1, <3>2
  <2> QED
    BY <2>1, <2>2 DEF RefusalsInv, RefusalsExplained
<1> QED
  BY <1>1, <1>2, <1>3, LimiterTypeCorrect, PTL DEF LimiterSpec

-----------------------------------------------------------------------------
(* When the limiter lifts.  While it is limiting, the last login above the  *)
(* limit lies in the window that is open, or in the one whose start         *)
(* lastTimeAboveLimit is; a window that opened while limiting found that    *)
(* moment less than unverifyCooldown old.                                   *)

LastOverKnown ==
    limiting =>
        IF Above(rateCounter)
        THEN overAge <= windowAge /\ windowAge < overAge + rateCooldown
        ELSE /\ overAge <= aboveAge /\ aboveAge < overAge + rateCooldown
             /\ aboveAge < unverifyCooldown + windowAge
             /\ unverifyCooldown >= 1

\* What every login, refused or not, does to the window and to the switch.
LEMMA TryRolls ==
    ASSUME LimiterTypeOK, NEW addr \in Addrs, NEW name \in Names, Tried(addr, name)
    PROVE  /\ Roll
           /\ overAge' = IF Above(Count) THEN 0 ELSE overAge
           /\ limiting' => StillLimiting \/ Above(Count)
           /\ ~limiting' => ~StillLimiting
PROOF
<1>1. Roll /\ overAge' = IF Above(Count) THEN 0 ELSE overAge
  BY TryFacts DEF Remember
<1>2. CASE DenyBanned(Key(addr))
  BY <1>1, <1>2 DEF DenyBanned
<1>3. CASE AllowFreely(Key(addr))
  BY <1>1, <1>3 DEF AllowFreely, Limits
<1>4. CASE \/ AllowVerified(Key(addr), name)
           \/ DenyUnknown(Key(addr), name)
           \/ DenyOtherName(Key(addr), name)
  BY <1>1, <1>4 DEF AllowVerified, DenyUnknown, DenyOtherName, Limits
<1> QED
  BY <1>2, <1>3, <1>4 DEF Tried, Denied, Allowed

LEMMA TickKnowsLastOver == LimiterTypeOK /\ LastOverKnown /\ Tick => LastOverKnown'
PROOF
<1> SUFFICES ASSUME LimiterTypeOK, LastOverKnown, Tick, limiting PROVE LastOverKnown'
  BY DEF Tick, LastOverKnown
<1>1. /\ windowAge \in 0..MaxAge /\ aboveAge \in 0..MaxAge /\ overAge \in 0..MaxAge
      /\ MaxAge \in Nat /\ rateCooldown \in Nat /\ rateCooldown >= 1 /\ unverifyCooldown \in Nat
  BY Durations, BotFilterAssumption DEF LimiterTypeOK, rateCooldown
<1>2. UNCHANGED <<limiting, rateCounter>> /\ (Above(rateCounter)' <=> Above(rateCounter))
  BY DEF Tick, Above
<1>3. /\ windowAge' = IF windowAge < MaxAge THEN windowAge + 1 ELSE MaxAge
      /\ aboveAge' = IF aboveAge < MaxAge THEN aboveAge + 1 ELSE MaxAge
      /\ overAge' = IF overAge < MaxAge THEN overAge + 1 ELSE MaxAge
  BY DEF Tick, Older
<1>4. CASE Above(rateCounter)
  <2>1. overAge <= windowAge /\ windowAge < overAge + rateCooldown
    BY <1>4 DEF LastOverKnown
  <2>2. overAge' <= windowAge' /\ windowAge' < overAge' + rateCooldown
    BY <1>1, <1>3, <2>1
  <2> QED
    BY <1>2, <1>4, <2>2 DEF LastOverKnown, rateCooldown
<1>5. CASE ~Above(rateCounter)
  <2>1. /\ overAge <= aboveAge /\ aboveAge < overAge + rateCooldown
        /\ aboveAge < unverifyCooldown + windowAge /\ unverifyCooldown >= 1
    BY <1>5 DEF LastOverKnown
  <2>2. /\ overAge' <= aboveAge' /\ aboveAge' < overAge' + rateCooldown
        /\ aboveAge' < unverifyCooldown + windowAge'
    BY <1>1, <1>3, <2>1
  <2> QED
    BY <1>2, <1>5, <2>1, <2>2 DEF LastOverKnown, rateCooldown, unverifyCooldown
<1> QED
  BY <1>4, <1>5

\* When the window is rolled the moment kept in lastTimeAboveLimit is less than
\* a window older than the last login above the limit, and not younger.
LEMMA RolledAboveIsLastOver ==
    ASSUME LimiterTypeOK, LastOverKnown, limiting, NewWindow
    PROVE  /\ overAge <= RolledAboveAge
           /\ RolledAboveAge < overAge + rateCooldown
BY DEF LastOverKnown, RolledAboveAge

LEMMA TryKnowsLastOver ==
    ASSUME LimiterTypeOK, LastOverKnown, NEW addr \in Addrs, NEW name \in Names, Tried(addr, name)
    PROVE  LastOverKnown'
PROOF
<1> SUFFICES ASSUME limiting' PROVE LastOverKnown'
  BY DEF LastOverKnown
<1>1. /\ windowAge \in Nat /\ aboveAge \in Nat /\ overAge \in Nat
      /\ rateCooldown \in Nat /\ rateCooldown >= 1 /\ unverifyCooldown \in Nat
      /\ RateLimit \in Nat
  BY Durations, BotFilterAssumption DEF LimiterTypeOK, rateCooldown
<1>2. /\ rateCounter' = Count
      /\ aboveAge' = RolledAboveAge
      /\ windowAge' = IF NewWindow THEN 0 ELSE windowAge
      /\ overAge' = IF Above(Count) THEN 0 ELSE overAge
      /\ StillLimiting \/ Above(Count)
  BY TryRolls DEF Roll
<1>3. Above(rateCounter)' <=> Above(Count)
  BY <1>2 DEF Above
<1>4. CASE Above(Count)
  <2>1. overAge' = 0 /\ windowAge' \in Nat /\ windowAge' < rateCooldown
    BY <1>1, <1>2, <1>4 DEF NewWindow
  <2> QED
    BY <1>1, <1>3, <1>4, <2>1 DEF LastOverKnown, rateCooldown
<1>5. CASE ~Above(Count) /\ NewWindow
  <2>1. limiting /\ RolledAboveAge < unverifyCooldown
    <3>1. RolledAboveAge \in Nat
      BY <1>1 DEF RolledAboveAge
    <3> QED
      BY <1>1, <1>2, <1>5, <3>1 DEF StillLimiting
  <2>2. /\ overAge' <= aboveAge' /\ aboveAge' < overAge' + rateCooldown
        /\ aboveAge' < unverifyCooldown + windowAge' /\ unverifyCooldown >= 1
    <3>1. RolledAboveAge \in Nat
      BY <1>1 DEF RolledAboveAge
    <3> QED
      BY <1>1, <1>2, <1>5, <2>1, <3>1, RolledAboveIsLastOver
  <2> QED
    BY <1>3, <1>5, <2>2 DEF LastOverKnown, rateCooldown, unverifyCooldown
<1>6. CASE ~Above(Count) /\ ~NewWindow
  <2>1. limiting /\ ~Above(rateCounter)
    BY <1>2, <1>6, Counting, BotFilterAssumption DEF StillLimiting, Above, LimiterTypeOK
  <2>2. UNCHANGED <<aboveAge, windowAge, overAge>>
    BY <1>2, <1>6 DEF RolledAboveAge
  <2> QED
    BY <1>3, <1>6, <2>1, <2>2 DEF LastOverKnown, rateCooldown, unverifyCooldown
<1> QED
  BY <1>4, <1>5, <1>6

\* For every limit, window and cooldown: a login that comes one window after the
\* cooldown finds the limiter off unless it is itself above the limit, and the
\* limiter never lifts more than a window before the cooldown has passed (Allow
\* 95-115; the test "when over ratelimit allow unverified connections again after
\* cooldown").
THEOREM LimiterLiftsOnTime == LimiterSpec => LimitingLiftsOnTime
PROOF
<1>1. LimiterInit => LastOverKnown
  BY DEF LimiterInit, LastOverKnown
<1>2. LimiterTypeOK /\ LastOverKnown /\ [LimiterNext]_limiterVars => LastOverKnown'
  <2>1. LastOverKnown /\ UNCHANGED limiterVars => LastOverKnown'
    BY DEF LastOverKnown, limiterVars, state, history, Above, rateCooldown, unverifyCooldown
  <2> QED
    BY <2>1, TickKnowsLastOver, TryKnowsLastOver DEF LimiterNext, Login, Tried
<1>3. LimiterTypeOK /\ LastOverKnown /\ [LimiterNext]_limiterVars =>
        [/\ Login /\ overAge >= unverifyCooldown + rateCooldown => (limiting' => Above(Count))
         /\ limiting /\ ~limiting' => overAge + rateCooldown > unverifyCooldown]_limiterVars
  <2> SUFFICES ASSUME LimiterTypeOK, LastOverKnown, LimiterNext
               PROVE  /\ Login /\ overAge >= unverifyCooldown + rateCooldown
                            => (limiting' => Above(Count))
                      /\ limiting /\ ~limiting' => overAge + rateCooldown > unverifyCooldown
    OBVIOUS
  <2>1. /\ windowAge \in Nat /\ aboveAge \in Nat /\ overAge \in Nat
        /\ rateCooldown \in Nat /\ rateCooldown >= 1 /\ unverifyCooldown \in Nat
        /\ RolledAboveAge \in Nat
    BY Durations, BotFilterAssumption DEF LimiterTypeOK, rateCooldown, RolledAboveAge
  <2>2. ASSUME Login, overAge >= unverifyCooldown + rateCooldown, limiting', ~Above(Count)
        PROVE  FALSE
    <3>1. StillLimiting
      BY <2>2, TryRolls DEF Login, Tried
    <3>2. CASE NewWindow
      <4>1. RolledAboveAge >= unverifyCooldown
        BY <2>1, <2>2, <3>1, <3>2, RolledAboveIsLastOver DEF StillLimiting
      <4> QED
        BY <3>1, <3>2, <4>1 DEF StillLimiting
    <3>3. CASE ~NewWindow
      <4>1. windowAge < rateCooldown
        BY <2>1, <3>3 DEF NewWindow
      <4>2. overAge < unverifyCooldown + rateCooldown
        BY <2>1, <3>1, <4>1 DEF LastOverKnown, StillLimiting
      <4> QED
        BY <2>1, <2>2, <4>2
    <3> QED
      BY <3>2, <3>3
  <2>3. ASSUME limiting, ~limiting' PROVE overAge + rateCooldown > unverifyCooldown
    <3>1. ~StillLimiting
      BY <2>3, TryRolls DEF LimiterNext, Login, Tick, Tried
    <3>2. NewWindow /\ RolledAboveAge >= unverifyCooldown
      BY <2>3, <3>1 DEF StillLimiting
    <3> QED
      BY <2>1, <2>3, <3>2, RolledAboveIsLastOver
  <2> QED
    BY <2>2, <2>3
<1> QED
  BY <1>1, <1>2, <1>3, LimiterTypeCorrect, PTL DEF LimiterSpec, LimitingLiftsOnTime

-----------------------------------------------------------------------------
(* The pipes.                                                               *)

LEMMA SidesFacts ==
    ASSUME NEW s \in Sides
    PROVE  /\ Other(s) \in Sides /\ Other(s) # s /\ Other(Other(s)) = s
           /\ \A t \in Sides : t = s \/ t = Other(s)
BY SessionAssumption DEF Sides, Other

(* Bytes on their way are bytes that were read, and a pipe that reads has   *)
(* an empty buffer.                                                         *)
Accounted ==
    \A s \in Sides :
        /\ delivered[s] + hand[s] =< taken[s]
        /\ taken[s] =< sent[s]
        /\ pipe[s] = "read" => hand[s] = 0

(* Before the pipes start they have moved nothing; they start without a     *)
(* deadline.                                                                *)
Started ==
    /\ \A s \in Sides : pipe[s] # "none" <=> stage = "proxied"
    /\ \A s \in Sides : pipe[s] = "none" => hand[s] = 0 /\ delivered[s] = 0
    /\ deadline => stage \in {"reading", "dropped", "panicked"}

(* A connection is closed by the other side's pipe when that is over, and a *)
(* pipe that is over while the other side still runs has passed on all.     *)
Closing ==
    \A s \in Sides :
        /\ closed[s] <=> pipe[Other(s)] = "done"
        /\ pipe[s] \in {"over", "done"} => gone[s] \/ gone[Other(s)]
        /\ pipe[s] = "over" /\ ~gone[Other(s)] /\ pipe[Other(s)] \in {"read", "write"} =>
              gone[s] /\ taken[s] = sent[s] /\ hand[s] = 0

IInv == TypeOK /\ Accounted /\ Started /\ Closing

-----------------------------------------------------------------------------
LEMMA Starts == Init => IInv
PROOF
<1> SUFFICES ASSUME Init PROVE IInv
  OBVIOUS
<1>1. TypeOK
  <2>1. up \in BOOLEAN /\ fresh \in BOOLEAN /\ deadline \in BOOLEAN
    BY Zenon DEF Init
  <2> QED
    BY <2>1, SessionAssumption DEF Init, TypeOK
<1>2. Accounted /\ Started
  BY DEF Init, Accounted, Started
<1>3. Closing
  BY SidesFacts DEF Init, Closing
<1> QED
  BY <1>1, <1>2, <1>3 DEF IInv

(* What the peers, the other clients and the worker do leaves pipes alone.  *)

LEMMA SendingKeeps ==
    ASSUME IInv, NEW s \in Sides, PeerSends(s)
    PROVE  IInv'
PROOF
<1>1. TypeOK'
  BY SessionAssumption DEF IInv, TypeOK, PeerSends, backendVars
<1>2. Accounted'
  BY DEF IInv, TypeOK, Accounted, PeerSends
<1>3. Started'
  BY DEF IInv, Started, PeerSends
<1>4. Closing'
  BY SidesFacts DEF IInv, TypeOK, Closing, PeerSends
<1> QED
  BY <1>1, <1>2, <1>3, <1>4 DEF IInv

LEMMA LeavingKeeps ==
    ASSUME IInv, NEW s \in Sides, PeerLeaves(s)
    PROVE  IInv'
PROOF
<1>1. TypeOK'
  BY DEF IInv, TypeOK, PeerLeaves, backendVars
<1>2. Accounted' /\ Started'
  BY DEF IInv, Accounted, Started, PeerLeaves
<1>3. Closing'
  BY SidesFacts DEF IInv, TypeOK, Closing, PeerLeaves
<1> QED
  BY <1>1, <1>2, <1>3 DEF IInv

LEMMA BackendKeeps ==
    ASSUME IInv, ServerGoesUpOrDown \/ CooldownEnds
    PROVE  IInv'
PROOF
<1>1. TypeOK'
  BY DEF IInv, TypeOK, ServerGoesUpOrDown, CooldownEnds, relayVars
<1>2. Accounted' /\ Started' /\ Closing'
  BY DEF IInv, Accounted, Started, Closing, ServerGoesUpOrDown, CooldownEnds, relayVars
<1> QED
  BY <1>1, <1>2 DEF IInv

LEMMA ReadingKeeps ==
    ASSUME IInv, NEW type \in {"status", "login"}, NEW n \in 2..MaxSent,
           ReadRequest(type, n)
    PROVE  IInv'
PROOF
<1>1. \A s \in Sides : pipe[s] = "none" /\ hand[s] = 0 /\ delivered[s] = 0
  BY DEF IInv, Started, ReadRequest
<1>2. /\ Client \in Sides /\ sent[Client] \in 0..MaxSent
      /\ n \in Nat /\ n =< sent[Client]
  BY SessionAssumption DEF IInv, TypeOK, ReadRequest, Sides
<1>3. TypeOK'
  <2>1. n \in 0..MaxSent
    BY <1>2, SessionAssumption
  <2> QED
    BY <1>2, <2>1 DEF IInv, TypeOK, ReadRequest, backendVars
<1>4. Accounted'
  <2> SUFFICES ASSUME NEW s \in Sides
               PROVE  /\ delivered'[s] + hand'[s] =< taken'[s]
                      /\ taken'[s] =< sent'[s]
                      /\ pipe'[s] = "read" => hand'[s] = 0
    BY DEF Accounted
  <2>1. taken'[s] \in Nat /\ taken'[s] =< sent[s]
    BY <1>2 DEF IInv, TypeOK, Accounted, ReadRequest
  <2> QED
    BY <1>1, <2>1 DEF ReadRequest
<1>5. Started' /\ Closing'
  BY <1>1 DEF IInv, Started, Closing, ReadRequest
<1> QED
  BY <1>3, <1>4, <1>5 DEF IInv

(* The steps of the worker and of ProxyConnection before the pipes.         *)
Proceeds ==
    ReadFails \/ ReadPanics \/ ServerFound \/ NoServerFound \/ ConnAction \/ CreateConn \/ DialFails

LEMMA ProceedingKeeps ==
    ASSUME IInv, Proceeds
    PROVE  IInv'
PROOF
<1>1. /\ stage # "proxied" /\ stage' # "proxied"
      /\ stage' \in {"asking", "accepted", "dialing", "dropped", "panicked"}
      /\ deadline' => stage' \in {"dropped", "panicked"}
      /\ UNCHANGED relayVars
  BY DEF IInv, Started, Proceeds, ReadFails, ReadPanics, ServerFound, NoServerFound, ConnAction,
         CreateConn, DialFails, Panics
<1>2. TypeOK'
  <2>1. deadline' \in BOOLEAN /\ kind' = kind
    BY DEF IInv, TypeOK, Proceeds, ReadFails, ReadPanics, ServerFound, NoServerFound, ConnAction,
           CreateConn, DialFails
  <2>2. /\ up' \in BOOLEAN /\ fresh' \in BOOLEAN
        /\ known' \in {"unknown", "online", "offline"}
    BY DEF IInv, TypeOK, Proceeds, ReadFails, ReadPanics, ServerFound, NoServerFound, ConnAction,
           CreateConn, DialFails, Probe, backendVars
  <2> QED
    BY <1>1, <2>1, <2>2 DEF IInv, TypeOK, relayVars
<1>3. Accounted' /\ Closing'
  BY <1>1 DEF IInv, Accounted, Closing, relayVars
<1>4. Started'
  BY <1>1 DEF IInv, Started, relayVars
<1> QED
  BY <1>2, <1>3, <1>4 DEF IInv

LEMMA DialKeeps ==
    ASSUME IInv, Dial
    PROVE  IInv'
PROOF
<1>1. \A s \in Sides : pipe[s] = "none" /\ hand[s] = 0 /\ pipe'[s] = "read"
  BY DEF IInv, Started, Dial
<1>2. TypeOK'
  BY DEF IInv, TypeOK, Dial, backendVars
<1>3. Accounted'
  BY <1>1 DEF IInv, Accounted, Dial
<1>4. Started'
  BY <1>1 DEF IInv, Started, Dial
<1>5. Closing'
  BY <1>1, SidesFacts DEF IInv, Closing, Dial
<1> QED
  BY <1>2, <1>3, <1>4, <1>5 DEF IInv

-----------------------------------------------------------------------------
(* The pipes.                                                               *)

LEMMA ReadKeeps ==
    ASSUME IInv, NEW s \in Sides, NEW n \in 1..MaxSent, Read(s, n)
    PROVE  IInv'
PROOF
<1>1. n \in Nat /\ taken[s] + n =< sent[s] /\ hand[s] = 0 /\ pipe[s] = "read"
  BY SessionAssumption DEF IInv, TypeOK, Accounted, Read
<1>2. taken[s] \in Nat /\ taken[s] + n \in 0..MaxSent /\ n \in 0..MaxSent
  BY <1>1, SessionAssumption DEF IInv, TypeOK
<1>3. TypeOK'
  BY <1>2 DEF IInv, TypeOK, Read, backendVars
<1>4. Accounted'
  BY <1>1, <1>2 DEF IInv, TypeOK, Accounted, Read
<1>5. Started'
  BY <1>1 DEF IInv, TypeOK, Started, Read
<1>6. Closing'
  BY <1>1, SidesFacts DEF IInv, TypeOK, Closing, Read
<1> QED
  BY <1>3, <1>4, <1>5, <1>6 DEF IInv

LEMMA WriteKeeps ==
    ASSUME IInv, NEW s \in Sides, Write(s)
    PROVE  IInv'
PROOF
<1>1. pipe[s] = "write" /\ stage = "proxied"
  BY DEF IInv, Started, Write
<1>2. /\ taken[s] \in Nat /\ delivered[s] \in Nat /\ hand[s] \in Nat
      /\ delivered[s] + hand[s] =< taken[s]
      /\ delivered[s] + hand[s] \in 0..MaxSent
  BY SessionAssumption DEF IInv, TypeOK, Accounted
<1>3. TypeOK'
  BY <1>2, SessionAssumption DEF IInv, TypeOK, Write, backendVars
<1>4. Accounted'
  BY <1>2 DEF IInv, TypeOK, Accounted, Write
<1>5. Started'
  BY <1>1 DEF IInv, TypeOK, Started, Write
<1>6. Closing'
  BY <1>1, SidesFacts DEF IInv, TypeOK, Closing, Write
<1> QED
  BY <1>3, <1>4, <1>5, <1>6 DEF IInv

(* A pipe that gives up has lost its own peer after reading all it sent, or *)
(* the other peer, or was closed by the other side's pipe.                  *)
LEMMA EndingKeeps ==
    ASSUME IInv, NEW s \in Sides, ReadEnds(s) \/ WriteFails(s)
    PROVE  IInv'
PROOF
<1>1. /\ stage = "proxied" /\ ~deadline
      /\ pipe[s] \in {"read", "write"}
      /\ pipe' = [pipe EXCEPT ![s] = "over"]
      /\ UNCHANGED <<stage, kind, deadline, backendVars, sent, taken, hand,
                     delivered, gone, closed>>
  BY DEF IInv, Started, ReadEnds, WriteFails
<1>2. /\ Other(s) \in Sides /\ Other(s) # s /\ Other(Other(s)) = s
      /\ \A t \in Sides : t = s \/ t = Other(s)
  BY SidesFacts
<1>3. ~closed[Other(s)]
  BY <1>1, <1>2 DEF IInv, Closing
<1>4. \/ closed[s] /\ pipe[Other(s)] = "done"
      \/ gone[s] /\ taken[s] = sent[s] /\ hand[s] = 0
      \/ gone[Other(s)]
  BY <1>1, <1>2, <1>3 DEF IInv, Accounted, Closing, ReadEnds, WriteFails, Expires
<1>5. gone[s] \/ gone[Other(s)]
  BY <1>2, <1>4 DEF IInv, Closing
<1>6. TypeOK'
  BY <1>1 DEF IInv, TypeOK, backendVars
<1>7. Accounted' /\ Started'
  BY <1>1 DEF IInv, TypeOK, Accounted, Started
<1>8. Closing'
  BY <1>1, <1>2, <1>4, <1>5 DEF IInv, TypeOK, Closing
<1> QED
  BY <1>6, <1>7, <1>8 DEF IInv

LEMMA ClosingKeeps ==
    ASSUME IInv, NEW s \in Sides, CloseOther(s)
    PROVE  IInv'
PROOF
<1>1. pipe[s] = "over" /\ stage = "proxied"
  BY DEF IInv, Started, CloseOther
<1>2. TypeOK'
  BY DEF IInv, TypeOK, CloseOther, backendVars
<1>3. Accounted' /\ Started'
  BY <1>1 DEF IInv, TypeOK, Accounted, Started, CloseOther
<1>4. Closing'
  BY <1>1, SidesFacts DEF IInv, TypeOK, Closing, CloseOther
<1> QED
  BY <1>2, <1>3, <1>4 DEF IInv

LEMMA StutteringKeeps ==
    ASSUME IInv, UNCHANGED vars
    PROVE  IInv'
BY DEF IInv, TypeOK, Accounted, Started, Closing, vars, backendVars, relayVars

LEMMA StepKeeps == IInv /\ [Next]_vars => IInv'
PROOF
<1> SUFFICES ASSUME IInv, [Next]_vars PROVE IInv'
  OBVIOUS
<1>1. CASE Environment
  BY <1>1, SendingKeeps, LeavingKeeps, BackendKeeps DEF Environment
<1>2. CASE Handling
  BY <1>2, ReadingKeeps, ProceedingKeeps, DialKeeps DEF Handling, Proceeds
<1>3. CASE \E s \in Sides : Moves(s)
  BY <1>3, ReadKeeps, WriteKeeps, EndingKeeps, ClosingKeeps DEF Moves, Reads
<1>4. CASE UNCHANGED vars
  BY <1>4, StutteringKeeps
<1> QED
  BY <1>1, <1>2, <1>3, <1>4 DEF Next

LEMMA Inductive == Spec => []IInv
BY Starts, StepKeeps, PTL DEF Spec

-----------------------------------------------------------------------------
\* The counts of a connection never pass what was sent, and its stage, pipes and
\* flags keep their types (pipe, basic.go 181).
THEOREM TypeCorrect == Spec => []TypeOK
PROOF
<1>1. IInv => TypeOK
  BY DEF IInv
<1> QED
  BY <1>1, Inductive, PTL

\* The proxy closes a proxied connection only after a peer has left: the deadline
\* of ReadConnection never reaches the pipes (worker.go 170, basic.go 168).
THEOREM OnlyLeaversAreClosed == Spec => []NoSpuriousClose
PROOF
<1>1. IInv => NoSpuriousClose
  BY SidesFacts DEF IInv, Closing, NoSpuriousClose
<1> QED
  BY <1>1, Inductive, PTL

\* The first pipe to close a connection whose peer is still there has passed on
\* everything it was sent (basic.go 168-176).
THEOREM LastWordsAreHeard == Spec => LastWords
PROOF
<1> DEFINE Heard == \A s \in Sides :
                        LET o == Other(s)
                        IN  closed'[o] /\ ~closed[o] /\ ~gone[o]
                              /\ pipe[o] \in {"read", "write"} =>
                                taken[s] = sent[s] /\ hand[s] = 0
<1>1. IInv /\ [Next]_vars => [Heard]_vars
  <2> SUFFICES ASSUME IInv, [Next]_vars, NEW s \in Sides,
                      closed'[Other(s)], ~closed[Other(s)], ~gone[Other(s)],
                      pipe[Other(s)] \in {"read", "write"}
               PROVE  taken[s] = sent[s] /\ hand[s] = 0
    OBVIOUS
  <2>1. \E t \in Sides : CloseOther(t)
    BY DEF Next, Environment, Handling, PeerSends, PeerLeaves, ServerGoesUpOrDown,
           CooldownEnds, ReadRequest, ReadFails, ReadPanics, ServerFound, NoServerFound, ConnAction,
           CreateConn, Dial, DialFails, Moves, Reads, Read, ReadEnds, Write, WriteFails,
           relayVars, vars
  <2>2. CloseOther(s)
    BY <2>1, SidesFacts DEF CloseOther
  <2> QED
    BY <2>2, SidesFacts DEF IInv, Closing, CloseOther
<1> QED
  BY <1>1, Inductive, PTL DEF Spec, LastWords
=============================================================================
