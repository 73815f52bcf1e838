---------------------------- MODULE BackendLoop ----------------------------
(***************************************************************************)
(* One backend (worker/backend.go) over updates of its settings, and the   *)
(* clients that reach it: BackendServer asks the loop twice for each, for  *)
(* the action (ConnAction) and for the connection (CreateConn), and        *)
(* ProxyConnection (basic.go) dials and runs two pipes.                    *)
(*                                                                         *)
(* BackendServer drops the request it is given and sends one of type       *)
(* status without an address, so what is asked for makes no difference     *)
(* and is left out.  The loop handles one channel operation at a time, so  *)
(* each is one step; what the state agent answers is left open             *)
(* (ServerProbe), and so is how dials and pipes end (Session).  Nobody     *)
(* sends on proxyCh: ProcessAnswer, which does, is called by tests only,   *)
(* so activeConns stays at 0 and is left out.                              *)
(***************************************************************************)
EXTENDS Naturals

CONSTANTS
    Clients,       \* connections followed at the same time (a bound)
    Names,         \* names and domains
    NoName,        \* a file without a name
    Targets,       \* proxyTo
    NoTarget,
    Absent,        \* a name without a series in the gauge
    FileConfigs    \* what a file may say

ASSUME LoopAssumption ==
    /\ NoName \notin Names /\ NoTarget \notin Targets /\ Absent \notin Nat
    /\ FileConfigs \subseteq
          [name: Names \cup {NoName}, domain: Names, proxyTo: Targets,
           oldRealIP: BOOLEAN, newRealIP: BOOLEAN, sendProxyProtocol: BOOLEAN,
           cacheStatus: BOOLEAN, limited: BOOLEAN]

VARIABLES
    running,      \* the loop has not returned
    crashed,      \* a panic has ended the process
    latest,       \* history: the settings of the last update
    had,          \* history: what its files have switched on so far
    settings,     \* what UpdateSameGoroutine has left in the worker
    gauge,        \* playersConnected: the series of each name, or Absent
    stage,        \* where each client's goroutine is
    answered,     \* the answer its connection is made from
    server,       \* the target of its server connection
    pipes,        \* the sides its running pipes read from
    clientOpen,   \* the client connection has not been closed
    serverOpen    \* nor has the server connection

loopVars == <<running, latest, had, settings, gauge>>
clientVars == <<stage, answered, server, pipes, clientOpen, serverOpen>>
vars == <<loopVars, crashed, clientVars>>

-----------------------------------------------------------------------------
(* From a file to settings: ServerToBackendConfig (a file without a name    *)
(* gets its first domain; durations and packets left out) and               *)
(* NewBackendConfig, in which the agent and the cache dial the same target. *)

NewBackendConfig(file) ==
    [name |-> IF file.name = NoName THEN file.domain ELSE file.name,
     sendProxyProtocol |-> file.sendProxyProtocol,
     target |-> file.proxyTo,
     stateTarget |-> file.proxyTo,
     cacheTarget |-> IF file.cacheStatus THEN file.proxyTo ELSE NoTarget,
     hsModifier |-> IF file.oldRealIP THEN "2.4" ELSE IF file.newRealIP THEN "2.5" ELSE "none",
     limited |-> file.limited]

SwitchedOn(config) ==
    {switch \in {"cache", "RealIP"} :
        \/ switch = "cache" /\ config.cacheTarget # NoTarget
        \/ switch = "RealIP" /\ config.hsModifier # "none"}

\* Mutation: the state agent is created once.
Merged_OldAgent(old, new) ==
    [new EXCEPT
        !.stateTarget = old.stateTarget,
        !.hsModifier = IF @ = "none" THEN old.hsModifier ELSE @,
        !.cacheTarget = IF @ = NoTarget THEN old.cacheTarget ELSE @]

\* Mutation: a cache that is nil in the new config is switched off.
Merged_NilToo(old, new) ==
    [new EXCEPT !.hsModifier = IF @ = "none" THEN old.hsModifier ELSE @]

\* UpdateSameGoroutine: what is nil in the new config stays as it was, which
\* for a config NewBackendConfig made can be the modifier and the cache.
Merged(old, new) ==
    [new EXCEPT
        !.hsModifier = IF @ = "none" THEN old.hsModifier ELSE @,
        !.cacheTarget = IF @ = NoTarget THEN old.cacheTarget ELSE @]

NoAnswer == [action |-> "none", target |-> NoTarget, lateDial |-> FALSE]

Init ==
    /\ \E file \in FileConfigs :
          /\ settings = NewBackendConfig(file)
          /\ latest = NewBackendConfig(file)
    /\ running = TRUE /\ crashed = FALSE
    /\ had = SwitchedOn(settings)
    /\ gauge = [n \in Names |-> IF n = settings.name THEN 0 ELSE Absent]
    /\ stage = [c \in Clients |-> "none"]
    /\ answered = [c \in Clients |-> NoAnswer]
    /\ server = [c \in Clients |-> NoTarget]
    /\ pipes = [c \in Clients |-> {}]
    /\ clientOpen = [c \in Clients |-> FALSE]
    /\ serverOpen = [c \in Clients |-> FALSE]

-----------------------------------------------------------------------------
(* The loop.                                                                *)

\* Delete the series of the old name, then add activeConns, which is 0, to the
\* one of the new name.
Rename(new) ==
    gauge' = [gauge EXCEPT ![settings.name] = Absent, ![new.name] = 0]

Update(file) ==
    /\ running
    /\ LET new == NewBackendConfig(file)
       IN  /\ latest' = new
           /\ had' = had \cup SwitchedOn(new)
           /\ settings' = Merged(settings, new)
           /\ Rename(new)
    /\ UNCHANGED <<running, crashed, clientVars>>

Close ==
    /\ running
    /\ running' = FALSE
    /\ UNCHANGED <<latest, had, settings, gauge, crashed, clientVars>>

\* What HandleRequest may answer to a status request: the offline status or a
\* cached one, or, without a cache, a connection to proxy.  The limiter lets
\* every status request pass.
Actions == {"SendStatus"} \cup (IF settings.cacheTarget # NoTarget THEN {} ELSE {"Proxy"})

\* With the PROXY protocol the connection function reads wrk.ConnCreator when it
\* is called, by another goroutine; without, it was taken when answering.
Answer(action) ==
    [action |-> action, target |-> settings.target,
     lateDial |-> action = "Proxy" /\ settings.sendProxyProtocol]

\* HsModifier.Modify is given the text of an address that is nil.
Panics(action) == action = "Proxy" /\ settings.hsModifier # "none"

-----------------------------------------------------------------------------
(* BackendServer and ProxyConnection.  A request that Close overtakes in    *)
(* the queue is never answered: its client takes no further step.           *)

Crash == crashed' = TRUE /\ UNCHANGED <<loopVars, clientVars>>

AskPanics(c) ==
    /\ stage[c] \in {"none", "accepted"}
    /\ \/ running /\ \E action \in Actions : Panics(action)
       \/ ~running
    /\ Crash

\* Both answers become PROXY, and ProcessServer starts a goroutine.
ConnAction(c) ==
    /\ running
    /\ stage[c] = "none"
    /\ \E action \in Actions : ~Panics(action)
    /\ stage' = [stage EXCEPT ![c] = "accepted"]
    /\ clientOpen' = [clientOpen EXCEPT ![c] = TRUE]
    /\ UNCHANGED <<loopVars, crashed, answered, server, pipes, serverOpen>>

\* Anything but Proxy is an error, on which nobody closes the client.
CreateConn(c) ==
    /\ running
    /\ stage[c] = "accepted"
    /\ \E action \in Actions :
          /\ ~Panics(action)
          /\ answered' = [answered EXCEPT ![c] = Answer(action)]
          /\ stage' = [stage EXCEPT ![c] = IF action = "Proxy" THEN "dialing" ELSE "over"]
    /\ UNCHANGED <<loopVars, crashed, server, pipes, clientOpen, serverOpen>>

\* Mutation: every dial goes to the target of the moment.
DialTarget_Current(c) == settings.target

DialTarget(c) == IF answered[c].lateDial THEN settings.target ELSE answered[c].target

Dial(c) ==
    /\ stage[c] = "dialing"
    /\ server' = [server EXCEPT ![c] = DialTarget(c)]
    /\ serverOpen' = [serverOpen EXCEPT ![c] = TRUE]
    /\ pipes' = [pipes EXCEPT ![c] = {"client", "server"}]
    /\ stage' = [stage EXCEPT ![c] = "proxied"]
    /\ UNCHANGED <<loopVars, crashed, answered, clientOpen>>

\* A PROXY header that cannot be written (the request has no source address, which
\* the library may refuse) fails after the dial, and nobody closes the server
\* connection then; nobody closes the client in any case.
DialFails(c) ==
    /\ stage[c] = "dialing"
    /\ \E dialed \in {FALSE, answered[c].lateDial} :
          /\ serverOpen' = [serverOpen EXCEPT ![c] = dialed]
          /\ server' = [server EXCEPT ![c] = IF dialed THEN DialTarget(c) ELSE NoTarget]
    /\ stage' = [stage EXCEPT ![c] = "over"]
    /\ UNCHANGED <<loopVars, crashed, answered, pipes, clientOpen>>

\* A pipe that has ended closes the connection it wrote to.
PipeEnds(c, side) ==
    /\ side \in pipes[c]
    /\ pipes' = [pipes EXCEPT ![c] = @ \ {side}]
    /\ stage' = [stage EXCEPT ![c] = IF pipes[c] = {side} THEN "over" ELSE @]
    /\ IF side = "client"
       THEN serverOpen' = [serverOpen EXCEPT ![c] = FALSE] /\ UNCHANGED clientOpen
       ELSE clientOpen' = [clientOpen EXCEPT ![c] = FALSE] /\ UNCHANGED serverOpen
    /\ UNCHANGED <<loopVars, crashed, answered, server>>

\* Another client.
Again(c) ==
    /\ stage[c] = "over"
    /\ stage' = [stage EXCEPT ![c] = "none"]
    /\ answered' = [answered EXCEPT ![c] = NoAnswer]
    /\ server' = [server EXCEPT ![c] = NoTarget]
    /\ clientOpen' = [clientOpen EXCEPT ![c] = FALSE]
    /\ serverOpen' = [serverOpen EXCEPT ![c] = FALSE]
    /\ UNCHANGED <<loopVars, crashed, pipes>>

Goroutine(c) ==
    \/ AskPanics(c) \/ ConnAction(c) \/ CreateConn(c) \/ Dial(c) \/ DialFails(c)
    \/ \E side \in {"client", "server"} : PipeEnds(c, side)

Next ==
    /\ ~crashed
    /\ \/ \E file \in FileConfigs : Update(file)
       \/ Close
       \/ \E c \in Clients : Goroutine(c) \/ Again(c)

Spec == Init /\ [][Next]_vars

-----------------------------------------------------------------------------
(* Properties.                                                              *)

Stages == {"none", "accepted", "dialing", "proxied", "over"}

\* Types of the worker's fields and of the clients' goroutines.
TypeOK ==
    /\ running \in BOOLEAN /\ crashed \in BOOLEAN
    /\ had \subseteq {"cache", "RealIP"}
    /\ \A s \in {settings, latest} :
          /\ s.name \in Names /\ s.target \in Targets /\ s.stateTarget \in Targets
          /\ s.cacheTarget \in Targets \cup {NoTarget}
          /\ s.hsModifier \in {"none", "2.4", "2.5"}
          /\ s.sendProxyProtocol \in BOOLEAN /\ s.limited \in BOOLEAN
    /\ gauge \in [Names -> {Absent, 0}]
    /\ stage \in [Clients -> Stages]
    /\ \A c \in Clients :
          /\ answered[c].action \in {"none", "SendStatus", "Proxy"}
          /\ answered[c].target \in Targets \cup {NoTarget}
    /\ server \in [Clients -> Targets \cup {NoTarget}]
    /\ pipes \in [Clients -> SUBSET {"client", "server"}]
    /\ clientOpen \in [Clients -> BOOLEAN] /\ serverOpen \in [Clients -> BOOLEAN]

\* After any sequence of updates the backend works with the latest settings, its
\* one series in the gauge under its latest name; only a cache or a modifier that
\* was switched off may be left from older ones (backend.go 190-220).
FollowsLatest ==
    /\ TypeOK
    /\ \A f \in {"name", "target", "stateTarget", "sendProxyProtocol", "limited"} :
          settings[f] = latest[f]
    /\ latest.cacheTarget # NoTarget => settings.cacheTarget = latest.cacheTarget
    /\ latest.hsModifier # "none" => settings.hsModifier = latest.hsModifier
    /\ {n \in Names : gauge[n] # Absent} = {latest.name}

\* No reload takes back what a status cache or RealIP does to a backend: once a
\* file has had either no client is proxied any more, and the one that ends the
\* process while the backend runs is RealIP without a cache (backend.go 206-220,
\* 263-301, 335-366).
SwitchesStick ==
    [][ /\ \A c \in Clients : stage[c] = "accepted" /\ stage'[c] = "dialing" => had = {}
        /\ crashed' /\ ~crashed /\ running => had = {"RealIP"} ]_vars

\* A client is connected to the server its answer was made for, however many
\* updates come between the answer and the dial; with the PROXY protocol it may
\* be another one (backend.go 276-297).
DialsAnsweredServer ==
    \A c \in Clients :
        server[c] \in {answered[c].target, NoTarget} \/ answered[c].lateDial

\* When a client's goroutines are over, both its connections are closed if the
\* pipes ran, whichever ended first.  If they did not run it is left open itself,
\* and so is a server that could not be sent a PROXY header (basic.go 162-179,
\* backend.go 276-297).
LeftOpenAsCoded ==
    \A c \in Clients :
        stage[c] = "over" =>
            /\ serverOpen[c] => answered[c].lateDial
            /\ clientOpen[c] <=> server[c] = NoTarget \/ serverOpen[c]

\* Where clients end up: at the server they were answered for, and closed on both
\* sides by the pipes alone.
ClientsHandled == DialsAnsweredServer /\ LeftOpenAsCoded
=============================================================================
