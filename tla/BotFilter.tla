----------------------------- MODULE BotFilter -----------------------------
(***************************************************************************)
(* The login limiter of a backend (module/conn_limiter.go,                 *)
(* botFilterConnLimiter) as NewBackendConfig builds it.  Once a window has *)
(* seen more than RateLimit logins the limiter is "limiting": a login from *)
(* an unknown address is recorded and refused, a second one with the same  *)
(* name is let through, one with another name bans the address.  Both      *)
(* lists are kept by what precedes the first ":" of the address: for IPv4  *)
(* the IP, but the IPv6 addresses that begin alike share one entry.        *)
(*                                                                         *)
(* Time.  Allow compares time.Since of a few moments with durations and    *)
(* nothing else, so a moment is kept as its age; an age stops growing at   *)
(* MaxAge, beyond every duration it is compared with.  A zero time.Time    *)
(* and a missing black list entry are MaxAge old.  Status requests return  *)
(* at once and change nothing.                                             *)
(***************************************************************************)
EXTENDS Naturals

CONSTANTS
    Addrs,                \* the clients' addresses
    Ips,                  \* the keys of namesList and blackList
    FilterIpFromAddr,     \* the key of each address
    Names,
    NoName,               \* a key that is not in namesList
    RateLimit,            \* cfg.RateLimit
    RateLimitDuration,    \* cfg.RateLimitDuration
    UnverifyFactor,       \* the 10 of NewBackendConfig
    RateBanListCooldown,  \* cfg.RateBanListCooldown
    MaxAge                \* where an age stops growing

(* NewBackendConfig calls NewBotFilterConnLimiter(limit, cooldown,          *)
(* clearTime, unverify) with 10 * cooldown as the third argument and the    *)
(* ban list cooldown as the fourth.                                         *)
rateCooldown == RateLimitDuration
listClearTime == UnverifyFactor * RateLimitDuration
unverifyCooldown == RateBanListCooldown

ASSUME FilterIpAssumption == FilterIpFromAddr \in [Addrs -> Ips]

ASSUME BotFilterAssumption ==
    /\ RateLimit \in Nat \ {0}   \* a limit of zero makes no limiter
    /\ RateLimitDuration \in Nat \ {0}
    /\ UnverifyFactor \in Nat \ {0}
    /\ RateBanListCooldown \in Nat
    /\ NoName \notin Names
    /\ MaxAge \in Nat
    /\ MaxAge >= listClearTime + rateCooldown
    /\ MaxAge >= unverifyCooldown + rateCooldown

VARIABLES
    limiting,
    rateCounter,       \* up to RateLimit + 1; Allow only asks if it is above
    windowAge,         \* age of rateStartTime
    aboveAge,          \* age of lastTimeAboveLimit
    blackList,         \* age of each key's ban
    namesList,
    \* History, read by properties only.
    overAge,           \* age of the last login that found the counter above
    admitted,          \* unverified logins let through in this window
    usedNames,         \* names each address has tried
    denials            \* refusals of each address, up to 2

state == <<limiting, rateCounter, windowAge, aboveAge, blackList, namesList>>
history == <<overAge, admitted, usedNames, denials>>
limiterVars == <<state, history>>

LimiterInit ==
    /\ limiting = FALSE
    /\ rateCounter = 0
    /\ windowAge = MaxAge
    /\ aboveAge = 0
    /\ blackList = [ip \in Ips |-> MaxAge]
    /\ namesList = [ip \in Ips |-> NoName]
    /\ overAge = MaxAge
    /\ admitted = 0
    /\ usedNames = [addr \in Addrs |-> {}]
    /\ denials = [addr \in Addrs |-> 0]

-----------------------------------------------------------------------------
Older(age) == IF age < MaxAge THEN age + 1 ELSE MaxAge

Tick ==
    /\ windowAge' = Older(windowAge)
    /\ aboveAge' = Older(aboveAge)
    /\ blackList' = [ip \in Ips |-> Older(blackList[ip])]
    /\ overAge' = Older(overAge)
    /\ UNCHANGED <<limiting, rateCounter, namesList, admitted, usedNames, denials>>

-----------------------------------------------------------------------------
(* Allow(req), a login from an address whose key is ip, with this name.     *)

NewWindow == windowAge >= rateCooldown
Above(count) == count > RateLimit

\* lines 95-104: the window is rolled when the next login comes
RolledAboveAge == IF NewWindow /\ Above(rateCounter) THEN windowAge ELSE aboveAge

\* Mutation: the limiter is lifted by every new window.
StillLimiting_OneWindow == limiting /\ ~NewWindow

StillLimiting == limiting /\ ~(NewWindow /\ RolledAboveAge >= unverifyCooldown)

Count ==
    LET before == IF NewWindow THEN 0 ELSE rateCounter
    IN  IF Above(before) THEN before ELSE before + 1

Roll ==
    /\ aboveAge' = RolledAboveAge
    /\ windowAge' = IF NewWindow THEN 0 ELSE windowAge
    /\ rateCounter' = Count

Banned(ip) == blackList[ip] < listClearTime

\* Mutation: the counter is looked at before the login is counted.
Limits_Late == StillLimiting \/ Above(rateCounter)

Limits == StillLimiting \/ Above(Count)
Verified(ip, name) == namesList[ip] = name

DenyBanned(ip) ==
    /\ Banned(ip)
    /\ Roll
    /\ limiting' = StillLimiting
    /\ UNCHANGED <<blackList, namesList>>

AllowFreely(ip) ==
    /\ ~Banned(ip) /\ ~Limits
    /\ Roll
    /\ limiting' = FALSE
    /\ UNCHANGED <<blackList, namesList>>

AllowVerified(ip, name) ==
    /\ ~Banned(ip) /\ Limits
    /\ Verified(ip, name)
    /\ Roll
    /\ limiting' = TRUE
    /\ UNCHANGED <<blackList, namesList>>

DenyUnknown(ip, name) ==
    /\ ~Banned(ip) /\ Limits
    /\ namesList[ip] = NoName
    /\ Roll
    /\ limiting' = TRUE
    /\ namesList' = [namesList EXCEPT ![ip] = name]
    /\ UNCHANGED blackList

\* Mutation: the name is not compared.
DenyOtherName_AnyName(ip, name) ==
    /\ ~Banned(ip) /\ Limits
    /\ namesList[ip] # NoName
    /\ Roll
    /\ limiting' = TRUE
    /\ blackList' = [blackList EXCEPT ![ip] = 0]
    /\ UNCHANGED namesList

DenyOtherName(ip, name) ==
    /\ ~Banned(ip) /\ Limits
    /\ namesList[ip] \notin {NoName, name}
    /\ Roll
    /\ limiting' = TRUE
    /\ blackList' = [blackList EXCEPT ![ip] = 0]
    /\ UNCHANGED namesList

Key(addr) == FilterIpFromAddr[addr]

Remember(addr, name, allowed) ==
    /\ overAge' = IF Above(Count) THEN 0 ELSE overAge
    /\ admitted' = (IF NewWindow THEN 0 ELSE admitted)
                   + (IF allowed /\ ~Verified(Key(addr), name) THEN 1 ELSE 0)
    /\ usedNames' = [usedNames EXCEPT ![addr] = @ \cup {name}]
    /\ denials' = [denials EXCEPT ![addr] = IF allowed \/ @ = 2 THEN @ ELSE @ + 1]

Denied(addr, name) ==
    /\ \/ DenyBanned(Key(addr))
       \/ DenyUnknown(Key(addr), name)
       \/ DenyOtherName(Key(addr), name)
    /\ Remember(addr, name, FALSE)

Allowed(addr, name) ==
    /\ AllowFreely(Key(addr)) \/ AllowVerified(Key(addr), name)
    /\ Remember(addr, name, TRUE)

Login == \E addr \in Addrs, name \in Names : Denied(addr, name) \/ Allowed(addr, name)

LimiterNext == Tick \/ Login

LimiterSpec == LimiterInit /\ [][LimiterNext]_limiterVars

-----------------------------------------------------------------------------
(* Properties.                                                              *)

\* Types of the limiter's fields (conn_limiter.go 74-88) and of the history.
LimiterTypeOK ==
    /\ limiting \in BOOLEAN
    /\ rateCounter \in 0..(RateLimit + 1)
    /\ windowAge \in 0..MaxAge /\ aboveAge \in 0..MaxAge /\ overAge \in 0..MaxAge
    /\ blackList \in [Ips -> 0..MaxAge]
    /\ namesList \in [Ips -> Names \cup {NoName}]
    /\ admitted \in Nat
    /\ usedNames \in [Addrs -> SUBSET Names]
    /\ denials \in [Addrs -> 0..2]

\* However the limiter switches on and off, one window never lets through more
\* than RateLimit logins it has not verified (Allow 95-115).
AdmitsAtMostLimit == admitted <= RateLimit

\* The addresses that share the key of this one.
Sharing(addr) == {other \in Addrs : Key(other) = Key(addr)}

\* An address is refused at most once, and so never banned, whatever the other
\* addresses do, unless it or one that shares its key uses a second name (the
\* test "over rate limit allows second login request"): two IPv6 players may get
\* each other banned, two IPv4 players may not.
OneNameRefusedOnce ==
    \A addr \in Addrs :
        (\A m, n \in UNION {usedNames[other] : other \in Sharing(addr)} : m = n) =>
            denials[addr] <= 1

\* The limiter lifts on time: a login that comes unverifyCooldown and one window
\* after the last login above the limit finds it off (the test "when over
\* ratelimit allow unverified connections again after cooldown"), and it is never
\* lifted sooner than unverifyCooldown, less the window, after that login (Allow
\* 99 looks at the start of its window).
LimitingLiftsOnTime ==
    [][/\ Login /\ overAge >= unverifyCooldown + rateCooldown => (limiting' => Above(Count))
       /\ limiting /\ ~limiting' => overAge + rateCooldown > unverifyCooldown]_limiterVars
=============================================================================
