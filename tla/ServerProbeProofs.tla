------------------------- MODULE ServerProbeProofs -------------------------
(***************************************************************************)
(* What a state agent and a status cache guarantee for any cooldowns and   *)
(* any statuses: an answer is true of a moment no older than the cooldown  *)
(* that allows it.  The argument compares two ages that grow together: the *)
(* age of what the agent or the cache keeps, and the time since the server *)
(* last was what is kept.                                                  *)
(***************************************************************************)
EXTENDS ServerProbe, TLAPS

Types ==
    /\ server \in Modes /\ since \in [Modes -> 0..MaxAge]
    /\ option \in {"cache", "online", "offline"}
    /\ known \in {"unknown", "online", "offline"} /\ probeAge \in 0..MaxAge
    /\ hasCache \in BOOLEAN /\ status \in Contents \cup {"none"} /\ cacheAge \in 0..MaxAge
    /\ loop \in {"select", "probing", "stated", "asking", "reading", "broken"}
    /\ asked \in {"none", "status", "login"} /\ answer \in Answers

\* The server is in its mode now, and a connection breaks when it goes down.
NowKnown == since[server] = 0 /\ (loop = "broken" => since["down"] = 0)

\* What the agent knows was so when it last asked, or later.
AgentKnows ==
    loop # "probing" =>
        /\ known = "offline" => since["down"] <= probeAge
        /\ known = "online" => \E m \in Modes \ {"down"} : since[m] <= probeAge
        /\ known = "unknown" => probeAge = MaxAge

\* ... and it has asked recently, or has just asked, when the loop goes on.
AgentAsked ==
    loop = "stated" /\ option = "cache" =>
        /\ known # "unknown"
        /\ known = "offline" => since["down"] <= StateCooldown
        /\ known = "online" => \E m \in Modes \ {"down"} : since[m] <= StateCooldown

\* What the cache holds was so when it was read, or later.
CacheKnows ==
    /\ status = "none" => cacheAge = MaxAge
    /\ status \in Contents => since[status] <= cacheAge

ProbeInv == Types /\ NowKnown /\ AgentKnows /\ AgentAsked /\ CacheKnows

-----------------------------------------------------------------------------
(* Ages.                                                                    *)

LEMMA Bounds ==
    /\ StateCooldown \in Nat /\ CacheCooldown \in Nat /\ CacheCooldown > 0
    /\ MaxAge \in Nat /\ MaxAge > StateCooldown /\ MaxAge > CacheCooldown
  <1>1. /\ StateCooldown \in Nat /\ CacheCooldown \in Nat \ {0}
        /\ MaxAge \in Nat /\ MaxAge > StateCooldown /\ MaxAge > CacheCooldown
    BY ProbeAssumption, Zenon
  <1> QED
    BY <1>1

\* A status is none of the words that stand for other answers.
LEMMA Words ==
    \A c \in Contents :
        c \notin {"down", "mute", "none", "offline status", "disconnect", "proxy", "refused"}
  <1> DEFINE words == {"down", "mute", "none", "offline status", "disconnect", "proxy", "refused"}
  <1>1. Contents \cap words = {}
    BY ProbeAssumption
  <1>2. \A c \in Contents : c \notin words
    <2> HIDE DEF words
    <2> QED
      BY <1>1
  <1> QED
    BY <1>2

LEMMA OlderType == \A age \in 0..MaxAge : Older(age) \in 0..MaxAge
  BY Bounds DEF Older

\* Two ages that pass at the same time keep their order.
LEMMA OlderKeepsOrder ==
    \A a \in 0..MaxAge, b \in 0..MaxAge : a <= b => Older(a) <= Older(b)
  BY Bounds DEF Older

LEMMA TickSince ==
    ASSUME Types, NowKnown, Tick, NEW m \in Modes
    PROVE  /\ since'[m] \in 0..MaxAge
           /\ \A age \in 0..MaxAge : since[m] <= age => since'[m] <= Older(age)
  <1>1. since[m] \in 0..MaxAge
    BY DEF Types
  <1>2. since'[m] = IF m = server THEN 0 ELSE Older(since[m])
    BY DEF Tick
  <1>3. Older(since[m]) \in 0..MaxAge /\ 0 \in 0..MaxAge
    BY <1>1, OlderType, Bounds
  <1>4. ASSUME NEW age \in 0..MaxAge, since[m] <= age PROVE since'[m] <= Older(age)
    <2>1. Older(since[m]) <= Older(age) /\ Older(age) >= 0
      BY <1>1, <1>4, OlderKeepsOrder, OlderType
    <2> QED
      BY <1>2, <2>1
  <1> QED
    BY <1>2, <1>3, <1>4

LEMMA ModesHeld == "down" \in Modes /\ "mute" \in Modes /\ Contents \subseteq Modes
  BY DEF Modes

LEMMA InitInv == Init => ProbeInv
  <1> SUFFICES ASSUME Init PROVE ProbeInv
    OBVIOUS
  <1>1. 0 \in 0..MaxAge /\ MaxAge \in 0..MaxAge
    BY Bounds
  <1>2. Types
    BY <1>1 DEF Init, Types, Answers
  <1>3. "none" \notin Contents
    BY Words
  <1> QED
    BY <1>1, <1>2, <1>3 DEF Init, ProbeInv, NowKnown, AgentKnows, AgentAsked, CacheKnows

-----------------------------------------------------------------------------
(* Steps.                                                                   *)

LEMMA ServerInv ==
    ASSUME ProbeInv, NEW m \in Modes, ServerChanges(m)
    PROVE  ProbeInv'
  <1>1. Types'
    BY Bounds DEF ProbeInv, Types, ServerChanges, agentVars, cacheVars
  <1>2. \A n \in Modes : /\ since[n] \in 0..MaxAge
                         /\ since'[n] = IF n = m THEN 0 ELSE since[n]
    BY DEF ProbeInv, Types, ServerChanges
  <1>3. NowKnown'
    BY <1>2, ModesHeld DEF ProbeInv, NowKnown, ServerChanges, Types
  <1>4. \A n \in Modes, age \in 0..MaxAge : since[n] <= age => since'[n] <= age
    BY <1>2, Bounds
  <1>5. StateCooldown \in 0..MaxAge
    BY Bounds
  <1>6. AgentKnows' /\ AgentAsked'
    BY <1>4, <1>5, ModesHeld
       DEF ProbeInv, Types, AgentKnows, AgentAsked, ServerChanges, agentVars
  <1>7. CacheKnows'
    BY <1>4, ModesHeld DEF ProbeInv, Types, CacheKnows, ServerChanges, cacheVars
  <1> QED
    BY <1>1, <1>3, <1>6, <1>7 DEF ProbeInv

LEMMA TickInv ==
    ASSUME ProbeInv, Tick
    PROVE  ProbeInv'
  <1>1. Types /\ NowKnown /\ server \in Modes /\ probeAge \in 0..MaxAge /\ cacheAge \in 0..MaxAge
    BY DEF ProbeInv, Types
  <1>2. /\ UNCHANGED <<server, option, known, hasCache, status, loop, asked, answer>>
        /\ loop \notin {"stated", "broken"}
        /\ probeAge' = Older(probeAge) /\ cacheAge' = Older(cacheAge)
        /\ since' = [m \in Modes |-> IF m = server THEN 0 ELSE Older(since[m])]
    BY DEF Tick
  <1>3. Types'
    <2>1. since' \in [Modes -> 0..MaxAge]
      BY <1>1, <1>2, TickSince
    <2>2. probeAge' \in 0..MaxAge /\ cacheAge' \in 0..MaxAge
      BY <1>1, <1>2, OlderType
    <2> QED
      BY <1>1, <1>2, <2>1, <2>2 DEF Types
  <1>4. NowKnown'
    BY <1>1, <1>2 DEF NowKnown
  <1>5. \A m \in Modes :
           /\ since[m] <= probeAge => since'[m] <= probeAge'
           /\ since[m] <= cacheAge => since'[m] <= cacheAge'
    BY <1>1, <1>2, TickSince
  <1>6. Older(MaxAge) = MaxAge
    BY Bounds DEF Older
  <1>7. AgentKnows' /\ AgentAsked'
    BY <1>2, <1>5, <1>6, ModesHeld DEF ProbeInv, AgentKnows, AgentAsked
  <1>8. CacheKnows'
    BY <1>2, <1>5, <1>6, ModesHeld DEF ProbeInv, CacheKnows
  <1> QED
    BY <1>3, <1>4, <1>7, <1>8 DEF ProbeInv

LEMMA UpdateInv ==
    ASSUME ProbeInv, NEW newOption \in {"cache", "online", "offline"},
           NEW cacheStatus \in BOOLEAN, Update(newOption, cacheStatus)
    PROVE  ProbeInv'
  <1>1. MaxAge \in 0..MaxAge /\ "none" \notin Contents
    <2>1. MaxAge \in 0..MaxAge
      BY Bounds
    <2>2. "none" \notin Contents
      BY Words
    <2> QED
      BY <2>1, <2>2
  <1>2. /\ hasCache' \in BOOLEAN /\ status' \in Contents \cup {"none"}
        /\ cacheAge' \in 0..MaxAge
    BY <1>1 DEF ProbeInv, Types, Update, cacheVars
  <1>3. Types'
    BY <1>1, <1>2 DEF ProbeInv, Types, Update
  <1>4. NowKnown' /\ AgentKnows' /\ AgentAsked'
    BY DEF ProbeInv, NowKnown, AgentKnows, AgentAsked, Update
  <1>5. CacheKnows'
    BY <1>1 DEF ProbeInv, CacheKnows, Update, cacheVars
  <1> QED
    BY <1>3, <1>4, <1>5 DEF ProbeInv

LEMMA TakeInv ==
    ASSUME ProbeInv, NEW type \in {"status", "login"}, TakeRequest(type)
    PROVE  ProbeInv'
  <1>1. Types'
    <2>1. probeAge' \in 0..MaxAge
      BY Bounds DEF ProbeInv, Types, TakeRequest
    <2>2. loop' \in {"probing", "stated"} /\ "none" \in Answers
      BY DEF TakeRequest, Answers
    <2> QED
      BY <2>1, <2>2 DEF ProbeInv, Types, TakeRequest, cacheVars
  <1>2. NowKnown' /\ CacheKnows'
    BY DEF ProbeInv, NowKnown, CacheKnows, TakeRequest, cacheVars
  <1>3. CASE loop' = "probing"
    BY <1>1, <1>2, <1>3 DEF ProbeInv, AgentKnows, AgentAsked
  <1>4. CASE loop' # "probing"
    <2>1. /\ loop = "select" /\ probeAge' = probeAge /\ since' = since
          /\ known' = known /\ option' = option
          /\ option = "cache" => probeAge <= StateCooldown
      BY <1>4, Bounds DEF ProbeInv, Types, TakeRequest
    <2>2. AgentKnows'
      BY <2>1 DEF ProbeInv, AgentKnows
    <2>3. ASSUME NEW m \in Modes, since[m] <= probeAge, probeAge <= StateCooldown
          PROVE  since[m] <= StateCooldown
      <3>1. since[m] \in 0..MaxAge /\ probeAge \in 0..MaxAge
        BY DEF ProbeInv, Types
      <3> QED
        BY <2>3, <3>1, Bounds
    <2>4. option = "cache" => probeAge # MaxAge
      BY <2>1, Bounds
    <2>5. AgentAsked'
      BY <2>1, <2>3, <2>4, ModesHeld DEF ProbeInv, AgentKnows, AgentAsked
    <2> QED
      BY <1>1, <1>2, <2>2, <2>5 DEF ProbeInv
  <1> QED
    BY <1>3, <1>4

LEMMA ProbeStepInv ==
    ASSUME ProbeInv, Probe
    PROVE  ProbeInv'
  <1>1. Types'
    BY DEF ProbeInv, Types, Probe, cacheVars
  <1>2. NowKnown' /\ CacheKnows'
    BY DEF ProbeInv, NowKnown, CacheKnows, Probe, cacheVars
  <1>3. since' = since /\ since[server] = 0 /\ server \in Modes
        /\ probeAge' = probeAge /\ 0 <= probeAge /\ 0 <= StateCooldown
    BY Bounds DEF ProbeInv, NowKnown, Types, Probe
  <1>4. AgentKnows' /\ AgentAsked'
    BY <1>3 DEF AgentKnows, AgentAsked, Probe
  <1> QED
    BY <1>1, <1>2, <1>4 DEF ProbeInv

\* The answers: only ReadStatus changes what is kept.
LEMMA AnswerInv ==
    ASSUME ProbeInv,
           \/ AnswerOffline \/ AnswerCached \/ AnswerProxy
           \/ DialStatus \/ ReadStatus \/ StatusFails
    PROVE  ProbeInv'
  <1>1. /\ UNCHANGED <<server, option, agentVars, hasCache, since>>
        /\ loop # "probing" /\ loop' \in {"select", "asking", "reading"}
    BY DEF AnswerOffline, AnswerCached, AnswerProxy, DialStatus, ReadStatus, StatusFails,
           Answer, cacheVars
  <1>2. UNCHANGED cacheVars \/ (ReadStatus /\ status' = server /\ cacheAge' = 0)
    BY DEF AnswerOffline, AnswerCached, AnswerProxy, DialStatus, ReadStatus, StatusFails
  <1>3. asked' \in {"none", "status", "login"} /\ answer' \in Answers
    BY DEF ProbeInv, Types, AnswerOffline, AnswerCached, AnswerProxy, DialStatus, ReadStatus,
           StatusFails, Answer, Answers
  <1>4. Types'
    BY <1>1, <1>2, <1>3, Bounds
       DEF ProbeInv, Types, ReadStatus, agentVars, cacheVars
  <1>5. NowKnown' /\ AgentKnows' /\ AgentAsked'
    BY <1>1 DEF ProbeInv, NowKnown, AgentKnows, AgentAsked, agentVars
  <1>6. CacheKnows'
    <2>1. CASE UNCHANGED cacheVars
      BY <1>1, <2>1 DEF ProbeInv, CacheKnows, cacheVars
    <2>2. CASE ReadStatus /\ status' = server /\ cacheAge' = 0
      <3>1. status' # "none" /\ since'[status'] = 0
        BY <1>1, <2>2, Words DEF ProbeInv, NowKnown, ReadStatus
      <3> QED
        BY <2>2, <3>1 DEF CacheKnows
    <2> QED
      BY <1>2, <2>1, <2>2
  <1> QED
    BY <1>4, <1>5, <1>6 DEF ProbeInv

LEMMA StepInv == ProbeInv /\ [Next]_vars => ProbeInv'
  <1> SUFFICES ASSUME ProbeInv, [Next]_vars PROVE ProbeInv'
    OBVIOUS
  <1>1. CASE UNCHANGED vars
    BY <1>1 DEF vars, agentVars, cacheVars, ProbeInv, Types, NowKnown, AgentKnows, AgentAsked,
                CacheKnows
  <1> QED
    BY <1>1, ServerInv, TickInv, UpdateInv, TakeInv, ProbeStepInv, AnswerInv DEF Next, Handle

\* The agent, the cache and the loop keep their types, and a cache young enough
\* to be served holds a status, whatever failed before (status_cache.go 40-48,
\* backend.go 217).
THEOREM ProbeTypes == Spec => []TypeOK
  <1>1. ProbeInv => TypeOK
    BY Bounds DEF ProbeInv, Types, CacheKnows, TypeOK
  <1> QED
    BY <1>1, InitInv, StepInv, PTL DEF Spec

-----------------------------------------------------------------------------
(* Answers.                                                                 *)

Recent ==
    /\ option = "cache" /\ answer' \in {"offline status", "disconnect"} =>
           since["down"] <= StateCooldown
    /\ option = "cache" /\ answer' = "proxy" =>
           \E m \in Modes \ {"down"} : since[m] <= StateCooldown
    /\ answer' \in Contents => since[answer'] < CacheCooldown

LEMMA AnswerRecent == ProbeInv /\ [Next]_vars => [Answering => Recent]_vars
  <1> SUFFICES ASSUME ProbeInv, Next, Answering PROVE Recent
    BY DEF vars, agentVars, cacheVars, Answering
  <1>1. Handle /\ ~Probe /\ ~DialStatus
    BY DEF Next, Answering, ServerChanges, Tick, Update, TakeRequest, Handle, Probe, DialStatus
  <1>2. \A a \in {"offline status", "disconnect", "proxy", "refused", "none"} : a \notin Contents
    BY Words
  <1>3. CASE AnswerOffline
    BY <1>2, <1>3 DEF AnswerOffline, Answer, State, ProbeInv, AgentAsked, Recent
  <1>4. CASE AnswerCached
    <2>1. cacheAge < CacheCooldown /\ answer' = status
      BY <1>4 DEF AnswerCached, Answering, Answer
    <2>2. status \in Contents
      BY <2>1, Bounds DEF ProbeInv, Types, CacheKnows
    <2>3. since[status] <= cacheAge /\ since[status] \in 0..MaxAge /\ cacheAge \in 0..MaxAge
      BY <2>2, ModesHeld DEF ProbeInv, Types, CacheKnows
    <2>4. since[status] < CacheCooldown
      BY <2>1, <2>3, Bounds
    <2> QED
      BY <1>2, <2>1, <2>2, <2>4 DEF Recent
  <1>5. CASE AnswerProxy
    <2>1. option = "cache" => known = "online" /\ loop = "stated"
      BY <1>5 DEF AnswerProxy, State, ProbeInv, Types, AgentAsked
    <2>2. answer' \in {"proxy", "refused"}
      BY <1>5 DEF AnswerProxy, Answer
    <2> QED
      BY <1>2, <2>1, <2>2 DEF ProbeInv, AgentAsked, Recent
  <1>6. CASE ReadStatus
    <2>1. answer' = server /\ server \in Contents /\ since[server] = 0
      BY <1>6 DEF ReadStatus, Answer, ProbeInv, NowKnown
    <2> QED
      BY <1>2, <2>1, Bounds DEF Recent
  <1>7. CASE StatusFails
    <2>1. answer' = "offline status" /\ since["down"] = 0
      BY <1>7 DEF StatusFails, Answer, ProbeInv, NowKnown
    <2>2. answer' \notin Contents /\ answer' # "proxy"
      BY <1>2, <2>1
    <2>3. since["down"] <= StateCooldown
      <3>1. 0 <= StateCooldown
        BY Bounds
      <3> QED
        BY <2>1, <3>1
    <2> QED
      BY <2>2, <2>3 DEF Recent
  <1> QED
    BY <1>1, <1>3, <1>4, <1>5, <1>6, <1>7 DEF Handle

\* Whatever the cooldowns: nobody is told the server is offline, or sent to it,
\* on knowledge older than StateUpdateCooldown, and no status is shown that the
\* server did not show within CacheUpdateCooldown (state_agent.go 29-42,
\* status_cache.go 39-50, backend.go 254).
THEOREM AnswersNeverStale == Spec => AnswersAreRecent
  <1>1. ProbeInv /\ [Next]_vars =>
           [Answering =>
              /\ option = "cache" /\ answer' \in {"offline status", "disconnect"} =>
                     since["down"] <= StateCooldown
              /\ option = "cache" /\ answer' = "proxy" =>
                     \E m \in Modes \ {"down"} : since[m] <= StateCooldown
              /\ answer' \in Contents => since[answer'] < CacheCooldown]_vars
    BY AnswerRecent DEF Recent
  <1> QED
    BY <1>1, InitInv, StepInv, PTL DEF Spec, AnswersAreRecent
=============================================================================
