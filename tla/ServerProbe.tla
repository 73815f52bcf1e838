---------------------------- MODULE ServerProbe ----------------------------
(***************************************************************************)
(* What a backend knows of its server: the state agent                     *)
(* (module/state_agent.go) and the status cache (module/status_cache.go),  *)
(* called by BackendWorker.HandleRequest (worker/backend.go) inside the    *)
(* backend's loop, against a server that comes, goes, changes its status   *)
(* and may accept connections without ever answering.                      *)
(*                                                                         *)
(* Both compare time.Since of one moment with a cooldown, so the moment is *)
(* kept as its age; ages stop growing at MaxAge.  Time passes while the    *)
(* loop waits for requests or for the network, not between two statements. *)
(***************************************************************************)
EXTENDS Naturals

CONSTANTS
    Contents,       \* statuses the server may show
    StateCooldown,  \* cfg.StateUpdateCooldown
    CacheCooldown,  \* cfg.CacheUpdateCooldown
    MaxAge          \* where an age stops growing

\* The server is down, accepts and stays silent, or shows a status.
Modes == Contents \cup {"down", "mute"}

ASSUME ProbeAssumption ==
    /\ StateCooldown \in Nat /\ CacheCooldown \in Nat \ {0}
    /\ MaxAge \in Nat /\ MaxAge > StateCooldown /\ MaxAge > CacheCooldown
    /\ Contents # {}
    /\ Contents \cap {"down", "mute", "none",
                     "offline status", "disconnect", "proxy", "refused"} = {}

VARIABLES
    server,      \* the mode the server is in
    option,      \* cfg.StateOption
    known,       \* McServerState.state
    probeAge,    \* age of McServerState.startTime
    hasCache,    \* StatusCache is not nil
    status,      \* statusCache.status
    cacheAge,    \* age of statusCache.cacheTime
    loop,        \* where the backend's loop is
    asked,       \* the type of the request in its hands
    answer,      \* what it has answered to the last one
    since        \* history: how long ago the server was last in each mode

agentVars == <<known, probeAge>>
cacheVars == <<hasCache, status, cacheAge>>
vars == <<server, option, agentVars, cacheVars, loop, asked, answer, since>>

Init ==
    /\ server \in Modes
    /\ option \in {"cache", "online", "offline"}
    /\ known = "unknown" /\ probeAge = MaxAge
    /\ hasCache \in BOOLEAN /\ status = "none" /\ cacheAge = MaxAge
    /\ loop = "select" /\ asked = "none" /\ answer = "none"
    /\ since = [m \in Modes |-> IF m = server THEN 0 ELSE MaxAge]

-----------------------------------------------------------------------------
(* The server and time.  A server that goes down breaks the connection the  *)
(* status is read from, which the loop notices at once.                     *)

ServerChanges(m) ==
    /\ server # m
    /\ server' = m
    /\ since' = [since EXCEPT ![m] = 0]
    /\ loop' = IF m = "down" /\ loop = "reading" THEN "broken" ELSE loop
    /\ UNCHANGED <<option, agentVars, cacheVars, asked, answer>>

Older(age) == IF age < MaxAge THEN age + 1 ELSE age

Tick ==
    /\ loop \in {"select", "probing", "asking", "reading"}
    /\ probeAge' = Older(probeAge) /\ cacheAge' = Older(cacheAge)
    /\ since' = [m \in Modes |-> IF m = server THEN 0 ELSE Older(since[m])]
    /\ UNCHANGED <<server, option, known, hasCache, status, loop, asked, answer>>

-----------------------------------------------------------------------------
(* UpdateSameGoroutine with a config NewBackendConfig made: a new agent, and *)
(* a new cache or, when the config has none, the old one.                    *)

Update(newOption, cacheStatus) ==
    /\ loop = "select"
    /\ option' = newOption
    /\ known' = "unknown" /\ probeAge' = MaxAge
    /\ IF cacheStatus
       THEN hasCache' = TRUE /\ status' = "none" /\ cacheAge' = MaxAge
       ELSE UNCHANGED cacheVars
    /\ UNCHANGED <<server, loop, asked, answer, since>>

-----------------------------------------------------------------------------
(* State().  startTime is set before the dial.                              *)

TakeRequest(type) ==
    /\ loop = "select"
    /\ asked' = type /\ answer' = "none"
    /\ IF option = "cache" /\ probeAge > StateCooldown
       THEN loop' = "probing" /\ probeAge' = 0
       ELSE loop' = "stated" /\ UNCHANGED probeAge
    /\ UNCHANGED <<server, option, known, cacheVars, since>>

Probe ==
    /\ loop = "probing"
    /\ known' = IF server = "down" THEN "offline" ELSE "online"
    /\ loop' = "stated"
    /\ UNCHANGED <<server, option, probeAge, cacheVars, asked, answer, since>>

State == IF option = "cache" THEN known ELSE option

-----------------------------------------------------------------------------
(* HandleRequest after State().                                             *)

Answer(a) == loop' = "select" /\ asked' = "none" /\ answer' = a

AnswerOffline ==
    /\ loop = "stated" /\ State = "offline"
    /\ Answer(IF asked = "status" THEN "offline status" ELSE "disconnect")
    /\ UNCHANGED <<server, option, agentVars, cacheVars, since>>

UsesCache == State # "offline" /\ hasCache /\ asked = "status"

\* Mutation: the cooldown is never looked at once there is a status.
AnswerCached_AnyAge ==
    /\ loop = "stated" /\ UsesCache
    /\ IF status # "none" \/ cacheAge < CacheCooldown
       THEN Answer(status)
       ELSE loop' = "asking" /\ UNCHANGED <<asked, answer>>
    /\ UNCHANGED <<server, option, agentVars, cacheVars, since>>

\* Status(): the cached packet, or a dial for a new one.
AnswerCached ==
    /\ loop = "stated" /\ UsesCache
    /\ IF cacheAge < CacheCooldown
       THEN Answer(status)
       ELSE loop' = "asking" /\ UNCHANGED <<asked, answer>>
    /\ UNCHANGED <<server, option, agentVars, cacheVars, since>>

\* A login may be refused by the limiter; the rest is proxied.
AnswerProxy ==
    /\ loop = "stated" /\ State # "offline" /\ ~UsesCache
    /\ \/ Answer("proxy")
       \/ asked = "login" /\ Answer("refused")
    /\ UNCHANGED <<server, option, agentVars, cacheVars, since>>

\* newStatus dials and writes its request.
DialStatus ==
    /\ loop = "asking" /\ server # "down"
    /\ loop' = "reading"
    /\ UNCHANGED <<server, option, agentVars, cacheVars, asked, answer, since>>

\* ... and reads without a deadline, so a mute server is waited for.
ReadStatus ==
    /\ loop = "reading" /\ server \in Contents
    /\ status' = server /\ cacheAge' = 0
    /\ Answer(server)
    /\ UNCHANGED <<server, option, agentVars, hasCache, since>>

\* Mutation: a failed status is asked for again.
StatusFails_Retry ==
    /\ (loop = "asking" /\ server = "down") \/ loop = "broken"
    /\ loop' = "asking"
    /\ UNCHANGED <<server, option, agentVars, cacheVars, asked, answer, since>>

\* Mutation: the failure counts as an answer for one cooldown.
StatusFails_Cached ==
    /\ (loop = "asking" /\ server = "down") \/ loop = "broken"
    /\ cacheAge' = 0
    /\ Answer("offline status")
    /\ UNCHANGED <<server, option, agentVars, hasCache, status, since>>

\* The error is not cached: the cache stays as it is, the answer is the offline
\* status, and the next status request dials again.
StatusFails ==
    /\ (loop = "asking" /\ server = "down") \/ loop = "broken"
    /\ Answer("offline status")
    /\ UNCHANGED <<server, option, agentVars, cacheVars, since>>

Handle ==
    \/ Probe
    \/ AnswerOffline \/ AnswerCached \/ AnswerProxy
    \/ DialStatus \/ ReadStatus \/ StatusFails

Next ==
    \/ \E m \in Modes : ServerChanges(m)
    \/ Tick
    \/ \E newOption \in {"cache", "online", "offline"}, cacheStatus \in BOOLEAN :
          Update(newOption, cacheStatus)
    \/ \E type \in {"status", "login"} : TakeRequest(type)
    \/ Handle

Spec == Init /\ [][Next]_vars

(* The loop runs, and a dial ends by its timeout.                           *)
FairSpec == Spec /\ WF_vars(Handle)

-----------------------------------------------------------------------------
(* Properties.                                                              *)

Answers == Contents \cup {"none", "offline status", "disconnect", "proxy", "refused"}

\* Types of the agent, the cache and the loop; a cache young enough to be served
\* holds a status, so that no reload and no failed request leaves an empty packet
\* to be served as fresh (status_cache.go 40-48, backend.go 217).
TypeOK ==
    /\ server \in Modes /\ since \in [Modes -> 0..MaxAge]
    /\ option \in {"cache", "online", "offline"}
    /\ known \in {"unknown", "online", "offline"} /\ probeAge \in 0..MaxAge
    /\ hasCache \in BOOLEAN /\ status \in Contents \cup {"none"} /\ cacheAge \in 0..MaxAge
    /\ loop \in {"select", "probing", "stated", "asking", "reading", "broken"}
    /\ asked \in {"none", "status", "login"} /\ answer \in Answers
    /\ cacheAge < CacheCooldown => status # "none"

\* The loop gives an answer in this step.
Answering == loop # "select" /\ loop' = "select"

\* An answer is true of a moment that is not long past.  With a probing agent
\* nobody is told that the server is offline unless it was down at most one
\* cooldown ago, and nobody is sent to it unless it accepted connections at most
\* one cooldown ago (state_agent.go 29-42, backend.go 254); a status is one the
\* server showed less than one cooldown ago, or shows now, whatever failed in
\* between (status_cache.go 39-50).
AnswersAreRecent ==
    [][Answering =>
         /\ option = "cache" /\ answer' \in {"offline status", "disconnect"} =>
                since["down"] <= StateCooldown
         /\ option = "cache" /\ answer' = "proxy" =>
                \E m \in Modes \ {"down"} : since[m] <= StateCooldown
         /\ answer' \in Contents => since[answer'] < CacheCooldown]_vars

\* Every request is answered unless the server is silent at some time after it
\* was taken (backend.go 225-228, status_cache.go:67).
RequestsAnswered == loop # "select" ~> (loop = "select" \/ server = "mute")
=============================================================================
