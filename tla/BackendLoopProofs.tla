------------------------- MODULE BackendLoopProofs -------------------------
(***************************************************************************)
(* What one backend guarantees for any number of clients and any files:    *)
(* the settings it works with, what no reload takes back, and where its    *)
(* clients end up.                                                         *)
(***************************************************************************)
EXTENDS BackendLoop, TLAPS

-----------------------------------------------------------------------------
(* Types, with the records of the settings and of the answers in full.      *)

SettingsType ==
    [name: Names, sendProxyProtocol: BOOLEAN, target: Targets, stateTarget: Targets,
     cacheTarget: Targets \cup {NoTarget}, hsModifier: {"none", "2.4", "2.5"},
     limited: BOOLEAN]

AnswerType ==
    [action: {"none", "SendStatus", "Proxy"}, target: Targets \cup {NoTarget}, lateDial: BOOLEAN]

Types ==
    /\ running \in BOOLEAN /\ crashed \in BOOLEAN
    /\ had \subseteq {"cache", "RealIP"}
    /\ settings \in SettingsType /\ latest \in SettingsType
    /\ stage \in [Clients -> Stages]
    /\ answered \in [Clients -> AnswerType]
    /\ server \in [Clients -> Targets \cup {NoTarget}]
    /\ pipes \in [Clients -> SUBSET {"client", "server"}]
    /\ clientOpen \in [Clients -> BOOLEAN] /\ serverOpen \in [Clients -> BOOLEAN]

LEMMA NewSettingsType ==
    ASSUME NEW file \in FileConfigs
    PROVE  NewBackendConfig(file) \in SettingsType
  <1>1. /\ file.name \in Names \cup {NoName} /\ file.domain \in Names /\ file.proxyTo \in Targets
        /\ file.sendProxyProtocol \in BOOLEAN /\ file.limited \in BOOLEAN
    BY LoopAssumption
  <1> QED
    BY <1>1 DEF NewBackendConfig, SettingsType

LEMMA MergedType ==
    ASSUME NEW old \in SettingsType, NEW new \in SettingsType
    PROVE  /\ Merged(old, new) \in SettingsType
           /\ Merged(old, new).name = new.name
           /\ Merged(old, new).target = new.target
           /\ Merged(old, new).stateTarget = new.stateTarget
           /\ Merged(old, new).sendProxyProtocol = new.sendProxyProtocol
           /\ Merged(old, new).limited = new.limited
           /\ Merged(old, new).cacheTarget =
                 IF new.cacheTarget = NoTarget THEN old.cacheTarget ELSE new.cacheTarget
           /\ Merged(old, new).hsModifier =
                 IF new.hsModifier = "none" THEN old.hsModifier ELSE new.hsModifier
  BY DEF Merged, SettingsType

LEMMA AnswerTyped ==
    ASSUME Types, NEW action \in Actions
    PROVE  /\ Answer(action) \in AnswerType
           /\ Answer(action).target \in Targets
           /\ action \in {"SendStatus", "Proxy"}
  <1>1. action \in {"SendStatus", "Proxy"}
    BY DEF Actions
  <1> QED
    BY <1>1 DEF Types, Answer, AnswerType, SettingsType

LEMMA DialTyped ==
    ASSUME Types, NEW c \in Clients
    PROVE  DialTarget(c) \in Targets \cup {NoTarget}
  BY DEF Types, DialTarget, AnswerType, SettingsType

LEMMA TypesInit == Init => Types
  <1> SUFFICES ASSUME Init PROVE Types
    OBVIOUS
  <1>1. settings \in SettingsType /\ latest \in SettingsType
    BY NewSettingsType DEF Init
  <1>2. answered \in [Clients -> AnswerType]
    BY DEF Init, AnswerType, NoAnswer
  <1>3. had \subseteq {"cache", "RealIP"}
    BY DEF Init, SwitchedOn
  <1>4. /\ running \in BOOLEAN /\ crashed \in BOOLEAN
        /\ clientOpen \in [Clients -> BOOLEAN] /\ serverOpen \in [Clients -> BOOLEAN]
        /\ pipes \in [Clients -> SUBSET {"client", "server"}]
    BY DEF Init
  <1> QED
    BY <1>1, <1>2, <1>3, <1>4 DEF Init, Types, Stages

LEMMA TypesStep == Types /\ [Next]_vars => Types'
  <1> SUFFICES ASSUME Types, [Next]_vars PROVE Types'
    OBVIOUS
  <1> USE DEF Types, Stages
  <1>1. ASSUME NEW file \in FileConfigs, Update(file) PROVE Types'
    <2>1. NewBackendConfig(file) \in SettingsType
      BY NewSettingsType
    <2>2. settings' \in SettingsType /\ latest' \in SettingsType
      BY <1>1, <2>1, MergedType DEF Update
    <2>3. had' \subseteq {"cache", "RealIP"}
      BY <1>1 DEF Update, SwitchedOn
    <2> QED
      BY <1>1, <2>2, <2>3 DEF Update, clientVars
  <1>2. CASE Close
    BY <1>2 DEF Close, clientVars
  <1>3. ASSUME NEW c \in Clients, AskPanics(c) PROVE Types'
    BY <1>3 DEF AskPanics, Crash, loopVars, clientVars
  <1>4. ASSUME NEW c \in Clients, ConnAction(c) PROVE Types'
    BY <1>4 DEF ConnAction, loopVars
  <1>5. ASSUME NEW c \in Clients, CreateConn(c) PROVE Types'
    <2>1. answered' \in [Clients -> AnswerType] /\ stage' \in [Clients -> Stages]
      BY <1>5, AnswerTyped DEF CreateConn
    <2> QED
      BY <1>5, <2>1 DEF CreateConn, loopVars
  <1>6. ASSUME NEW c \in Clients, Dial(c) PROVE Types'
    BY <1>6, DialTyped DEF Dial, loopVars
  <1>7. ASSUME NEW c \in Clients, DialFails(c) PROVE Types'
    <2>1. serverOpen' \in [Clients -> BOOLEAN] /\ server' \in [Clients -> Targets \cup {NoTarget}]
      <3>1. answered[c].lateDial \in BOOLEAN
        BY DEF AnswerType
      <3> QED
        <4>1. PICK dialed \in BOOLEAN :
                 /\ serverOpen' = [serverOpen EXCEPT ![c] = dialed]
                 /\ server' = [server EXCEPT ![c] = IF dialed THEN DialTarget(c) ELSE NoTarget]
          BY <1>7, <3>1 DEF DialFails
        <4> QED
          BY <4>1, DialTyped
    <2> QED
      BY <1>7, <2>1 DEF DialFails, loopVars
  <1>8. ASSUME NEW c \in Clients, NEW side \in {"client", "server"}, PipeEnds(c, side) PROVE Types'
    <2>1. pipes' \in [Clients -> SUBSET {"client", "server"}] /\ stage' \in [Clients -> Stages]
      BY <1>8 DEF PipeEnds
    <2>2. clientOpen' \in [Clients -> BOOLEAN] /\ serverOpen' \in [Clients -> BOOLEAN]
      BY <1>8 DEF PipeEnds
    <2> QED
      BY <1>8, <2>1, <2>2 DEF PipeEnds, loopVars
  <1>9. ASSUME NEW c \in Clients, Again(c) PROVE Types'
    <2>1. NoAnswer \in AnswerType
      BY DEF NoAnswer, AnswerType
    <2> QED
      BY <1>9, <2>1 DEF Again, loopVars
  <1>10. CASE UNCHANGED vars
    BY <1>10 DEF vars, loopVars, clientVars
  <1> QED
    BY <1>1, <1>2, <1>3, <1>4, <1>5, <1>6, <1>7, <1>8, <1>9, <1>10 DEF Next, Goroutine

LEMMA TypesAlways == Spec => []Types
  BY TypesInit, TypesStep, PTL DEF Spec

-----------------------------------------------------------------------------
(* Settings and the gauge, which only updates change.                       *)

Settled ==
    /\ \A f \in {"name", "target", "stateTarget", "sendProxyProtocol", "limited"} :
          settings[f] = latest[f]
    /\ latest.cacheTarget # NoTarget => settings.cacheTarget = latest.cacheTarget
    /\ latest.hsModifier # "none" => settings.hsModifier = latest.hsModifier
    /\ gauge = [n \in Names |-> IF n = settings.name THEN 0 ELSE Absent]

LEMMA OnlyUpdatesSettle ==
    ASSUME [Next]_vars, \A file \in FileConfigs : ~Update(file)
    PROVE  UNCHANGED <<latest, had, settings, gauge>>
  BY DEF Next, Close, Goroutine, AskPanics, Crash, ConnAction, CreateConn, Dial, DialFails,
         PipeEnds, Again, loopVars, vars

LEMMA SettledInit == Init => Settled
  <1> SUFFICES ASSUME Init PROVE Settled
    OBVIOUS
  <1>1. PICK file \in FileConfigs : settings = NewBackendConfig(file) /\ latest = NewBackendConfig(file)
    BY DEF Init
  <1> QED
    BY <1>1 DEF Init, Settled

LEMMA SettledStep == Types /\ Settled /\ [Next]_vars => Settled'
  <1> SUFFICES ASSUME Types, Settled, [Next]_vars PROVE Settled'
    OBVIOUS
  <1>1. ASSUME NEW file \in FileConfigs, Update(file) PROVE Settled'
    <2> DEFINE new == NewBackendConfig(file)
    <2>1. new \in SettingsType
      BY NewSettingsType
    <2>2. latest' = new /\ settings' = Merged(settings, new)
      BY <1>1 DEF Update
    <2>3. /\ settings'.name = new.name /\ settings'.target = new.target
          /\ settings'.stateTarget = new.stateTarget
          /\ settings'.sendProxyProtocol = new.sendProxyProtocol
          /\ settings'.limited = new.limited
          /\ new.cacheTarget # NoTarget => settings'.cacheTarget = new.cacheTarget
          /\ new.hsModifier # "none" => settings'.hsModifier = new.hsModifier
      <3> HIDE DEF new
      <3> QED
        BY <2>1, <2>2, MergedType DEF Types
    <2>4. gauge' = [gauge EXCEPT ![settings.name] = Absent, ![new.name] = 0]
      BY <1>1 DEF Update, Rename
    <2>5. gauge' = [n \in Names |-> IF n = new.name THEN 0 ELSE Absent]
      <3>1. new.name \in Names /\ settings.name \in Names
        BY <2>1 DEF SettingsType, Types
      <3> HIDE DEF new
      <3> QED
        BY <2>4, <3>1 DEF Settled
    <2> HIDE DEF new
    <2> QED
      BY <2>2, <2>3, <2>5 DEF Settled
  <1>2. CASE \A file \in FileConfigs : ~Update(file)
    BY <1>2, OnlyUpdatesSettle DEF Settled
  <1> QED
    BY <1>1, <1>2

(* TypeOK as the runs check it.                                             *)
LEMMA TypeOKHolds == Types /\ Settled => TypeOK
  <1> SUFFICES ASSUME Types, Settled PROVE TypeOK
    OBVIOUS
  <1>1. \A s \in {settings, latest} :
          /\ s.name \in Names /\ s.target \in Targets /\ s.stateTarget \in Targets
          /\ s.cacheTarget \in Targets \cup {NoTarget}
          /\ s.hsModifier \in {"none", "2.4", "2.5"}
          /\ s.sendProxyProtocol \in BOOLEAN /\ s.limited \in BOOLEAN
    BY DEF Types, SettingsType
  <1>2. gauge \in [Names -> {Absent, 0}]
    BY DEF Settled
  <1>3. \A c \in Clients :
          /\ answered[c].action \in {"none", "SendStatus", "Proxy"}
          /\ answered[c].target \in Targets \cup {NoTarget}
    BY DEF Types, AnswerType
  <1> QED
    BY <1>1, <1>2, <1>3 DEF TypeOK, Types

\* After any sequence of updates the backend works with the latest settings and
\* one series in the gauge; a cache or a modifier that was switched off may be
\* left from older ones (backend.go 190-220).
THEOREM UpdatesAreFollowed == Spec => []FollowsLatest
  <1>1. Types /\ Settled => FollowsLatest
    <2> SUFFICES ASSUME Types, Settled PROVE FollowsLatest
      OBVIOUS
    <2>1. {n \in Names : gauge[n] # Absent} = {latest.name}
      <3>1. settings.name \in Names /\ settings.name = latest.name
        BY DEF Types, SettingsType, Settled
      <3>2. 0 # Absent
        BY LoopAssumption
      <3> QED
        BY <3>1, <3>2 DEF Settled
    <2> QED
      BY <2>1, TypeOKHolds DEF FollowsLatest, Settled
  <1> QED
    BY <1>1, TypesAlways, SettledInit, SettledStep, PTL DEF Spec

-----------------------------------------------------------------------------
(* What was ever switched on is what the worker has.                        *)

Kept ==
    /\ "cache" \in had <=> settings.cacheTarget # NoTarget
    /\ "RealIP" \in had <=> settings.hsModifier # "none"

LEMMA KeptInit == Init => Kept
  BY DEF Init, Kept, SwitchedOn

LEMMA KeptStep == Types /\ Kept /\ [Next]_vars => Kept'
  <1> SUFFICES ASSUME Types, Kept, [Next]_vars PROVE Kept'
    OBVIOUS
  <1>1. ASSUME NEW file \in FileConfigs, Update(file) PROVE Kept'
    <2> DEFINE new == NewBackendConfig(file)
    <2>1. new \in SettingsType
      BY NewSettingsType
    <2>2. had' = had \cup SwitchedOn(new) /\ settings' = Merged(settings, new)
      BY <1>1 DEF Update
    <2> HIDE DEF new
    <2>3. /\ "cache" \in SwitchedOn(new) <=> new.cacheTarget # NoTarget
          /\ "RealIP" \in SwitchedOn(new) <=> new.hsModifier # "none"
      BY DEF SwitchedOn
    <2> QED
      BY <2>1, <2>2, <2>3, MergedType DEF Kept, Types
  <1>2. CASE \A file \in FileConfigs : ~Update(file)
    BY <1>2, OnlyUpdatesSettle DEF Kept
  <1> QED
    BY <1>1, <1>2

\* No update takes a status cache or RealIP back: a client is proxied only if no
\* file has had either, and a running backend ends the process only if one has had
\* RealIP and none a cache (backend.go 206-220, 263-301).
THEOREM SwitchesAlwaysStick == Spec => SwitchesStick
  <1> DEFINE Step ==
        /\ \A c \in Clients : stage[c] = "accepted" /\ stage'[c] = "dialing" => had = {}
        /\ crashed' /\ ~crashed /\ running => had = {"RealIP"}
  <1>1. Types /\ Kept /\ [Next]_vars => [Step]_vars
    <2> SUFFICES ASSUME Types, Kept, [Next]_vars PROVE Step
      OBVIOUS
    <2>1. "Proxy" \in Actions => "cache" \notin had
      BY DEF Actions, Kept
    <2>2. ASSUME NEW c \in Clients, stage[c] = "accepted", stage'[c] = "dialing" PROVE had = {}
      <3>1. CreateConn(c)
        BY <2>2 DEF Next, Update, Close, Goroutine, AskPanics, Crash, ConnAction, CreateConn,
                   Dial, DialFails, PipeEnds, Again, loopVars, clientVars, vars, Types
      <3>2. "Proxy" \in Actions /\ ~Panics("Proxy")
        BY <2>2, <3>1 DEF CreateConn, Types
      <3>3. "RealIP" \notin had
        BY <3>2 DEF Panics, Kept
      <3> QED
        BY <2>1, <3>2, <3>3 DEF Types
    <2>3. ASSUME crashed', ~crashed, running PROVE had = {"RealIP"}
      <3>1. PICK c \in Clients : AskPanics(c)
        BY <2>3 DEF Next, Update, Close, Goroutine, ConnAction, CreateConn,
                   Dial, DialFails, PipeEnds, Again, vars
      <3>2. "Proxy" \in Actions /\ settings.hsModifier # "none"
        BY <2>3, <3>1 DEF AskPanics, Panics
      <3> QED
        BY <2>1, <3>2 DEF Types, Kept
    <2> QED
      BY <2>2, <2>3
  <1> QED
    BY <1>1, TypesAlways, KeptInit, KeptStep, PTL DEF Spec, SwitchesStick

-----------------------------------------------------------------------------
(* Clients.                                                                 *)

ClientInv(c) ==
    /\ stage[c] \in {"none", "accepted", "dialing"} =>
          server[c] = NoTarget /\ pipes[c] = {} /\ ~serverOpen[c]
    /\ stage[c] \in {"accepted", "dialing"} => clientOpen[c]
    /\ stage[c] = "dialing" => answered[c].target \in Targets
    /\ stage[c] = "proxied" =>
          /\ pipes[c] # {} /\ server[c] # NoTarget
          /\ clientOpen[c] <=> "server" \in pipes[c]
          /\ serverOpen[c] <=> "client" \in pipes[c]
    /\ stage[c] = "over" =>
          /\ pipes[c] = {}
          /\ serverOpen[c] => answered[c].lateDial
          /\ clientOpen[c] <=> server[c] = NoTarget \/ serverOpen[c]
    /\ server[c] \in {answered[c].target, NoTarget} \/ answered[c].lateDial

\* A step of another client, or of the loop.
LEMMA Untouched ==
    ASSUME NEW c \in Clients, ClientInv(c),
           stage'[c] = stage[c], answered'[c] = answered[c], server'[c] = server[c],
           pipes'[c] = pipes[c], clientOpen'[c] = clientOpen[c], serverOpen'[c] = serverOpen[c]
    PROVE  ClientInv(c)'
  BY DEF ClientInv

LEMMA OwnStep ==
    ASSUME Types, NEW c \in Clients, ClientInv(c), Goroutine(c) \/ Again(c)
    PROVE  ClientInv(c)'
  <1> USE DEF Types
  <1>1. CASE AskPanics(c)
    BY <1>1, Untouched DEF AskPanics, Crash, clientVars
  <1>2. CASE ConnAction(c)
    <2>1. stage'[c] = "accepted" /\ clientOpen'[c] /\ UNCHANGED <<answered, server, pipes, serverOpen>>
      BY <1>2 DEF ConnAction
    <2> QED
      BY <1>2, <2>1 DEF ConnAction, ClientInv
  <1>3. CASE CreateConn(c)
    <2>1. PICK action \in Actions :
             /\ answered' = [answered EXCEPT ![c] = Answer(action)]
             /\ stage' = [stage EXCEPT ![c] = IF action = "Proxy" THEN "dialing" ELSE "over"]
      BY <1>3 DEF CreateConn
    <2>2. answered'[c].target \in Targets /\ stage'[c] \in {"dialing", "over"}
      BY <2>1, AnswerTyped
    <2>3. UNCHANGED <<server, pipes, clientOpen, serverOpen>> /\ stage[c] = "accepted"
      BY <1>3 DEF CreateConn
    <2> QED
      BY <2>2, <2>3 DEF ClientInv
  <1>4. CASE Dial(c)
    <2>1. /\ stage[c] = "dialing" /\ stage'[c] = "proxied"
          /\ server'[c] = DialTarget(c) /\ serverOpen'[c]
          /\ pipes'[c] = {"client", "server"} /\ answered' = answered /\ clientOpen' = clientOpen
      BY <1>4 DEF Dial
    <2>2. DialTarget(c) # NoTarget
      BY <2>1, LoopAssumption DEF DialTarget, ClientInv, SettingsType
    <2>3. DialTarget(c) = answered[c].target \/ answered[c].lateDial
      BY DEF DialTarget
    <2> QED
      BY <2>1, <2>2, <2>3 DEF ClientInv
  <1>5. CASE DialFails(c)
    <2>1. PICK dialed \in {FALSE, answered[c].lateDial} :
             /\ serverOpen' = [serverOpen EXCEPT ![c] = dialed]
             /\ server' = [server EXCEPT ![c] = IF dialed THEN DialTarget(c) ELSE NoTarget]
      BY <1>5 DEF DialFails
    <2>2. /\ stage[c] = "dialing" /\ stage'[c] = "over"
          /\ UNCHANGED <<answered, pipes, clientOpen>>
      BY <1>5 DEF DialFails
    <2>3. serverOpen'[c] => answered[c].lateDial
      BY <2>1
    <2>4. server'[c] = NoTarget \/ serverOpen'[c]
      BY <2>1
    <2>5. server'[c] = NoTarget \/ answered[c].lateDial
      BY <2>1, <2>3
    <2> QED
      BY <2>2, <2>3, <2>4, <2>5 DEF ClientInv
  <1>6. ASSUME NEW side \in {"client", "server"}, PipeEnds(c, side) PROVE ClientInv(c)'
    <2>1. stage[c] = "proxied"
      BY <1>6 DEF PipeEnds, ClientInv, Stages
    <2>2. /\ side \in pipes[c] /\ pipes'[c] = pipes[c] \ {side}
          /\ stage'[c] = IF pipes[c] = {side} THEN "over" ELSE "proxied"
          /\ UNCHANGED <<answered, server>>
      BY <1>6, <2>1 DEF PipeEnds
    <2>3. /\ clientOpen'[c] <=> "server" \in pipes'[c]
          /\ serverOpen'[c] <=> "client" \in pipes'[c]
      BY <1>6, <2>1, <2>2 DEF PipeEnds, ClientInv
    <2>4. pipes'[c] = {} <=> pipes[c] = {side}
      BY <2>2
    <2> QED
      BY <2>1, <2>2, <2>3, <2>4 DEF ClientInv
  <1>7. CASE Again(c)
    <2>1. /\ stage'[c] = "none" /\ server'[c] = NoTarget /\ ~serverOpen'[c]
          /\ pipes' = pipes /\ stage[c] = "over"
      BY <1>7 DEF Again
    <2> QED
      BY <2>1 DEF ClientInv
  <1> QED
    BY <1>1, <1>2, <1>3, <1>4, <1>5, <1>6, <1>7 DEF Goroutine

LEMMA ClientsStep ==
    Types /\ (\A c \in Clients : ClientInv(c)) /\ [Next]_vars => (\A c \in Clients : ClientInv(c))'
  <1> SUFFICES ASSUME Types, \A c \in Clients : ClientInv(c), [Next]_vars,
                      NEW c \in Clients
               PROVE  ClientInv(c)'
    OBVIOUS
  <1>1. CASE Goroutine(c) \/ Again(c)
    BY <1>1, OwnStep
  <1>2. ASSUME NEW d \in Clients, d # c, Goroutine(d) \/ Again(d) PROVE ClientInv(c)'
    <2>1. /\ stage'[c] = stage[c] /\ answered'[c] = answered[c] /\ server'[c] = server[c]
          /\ pipes'[c] = pipes[c]
          /\ clientOpen'[c] = clientOpen[c] /\ serverOpen'[c] = serverOpen[c]
      BY <1>2 DEF Types, Goroutine, AskPanics, Crash, ConnAction, CreateConn, Dial, DialFails,
                  PipeEnds, Again, clientVars
    <2> QED
      BY <2>1, Untouched
  <1>3. CASE UNCHANGED clientVars
    BY <1>3, Untouched DEF clientVars
  <1> QED
    BY <1>1, <1>2, <1>3 DEF Next, Update, Close, vars

\* Where clients end up: at the server their answer was made for, or over the
\* PROXY protocol the one of the moment, and with both connections closed by the
\* pipes once they ran (basic.go 162-179, backend.go 276-297).
THEOREM ClientsAlwaysHandled == Spec => []ClientsHandled
  <1>1. Init => \A c \in Clients : ClientInv(c)
    BY DEF Init, ClientInv
  <1>2. (\A c \in Clients : ClientInv(c)) => ClientsHandled
    BY DEF ClientInv, ClientsHandled, DialsAnsweredServer, LeftOpenAsCoded
  <1> QED
    BY <1>1, <1>2, TypesAlways, ClientsStep, PTL DEF Spec
=============================================================================
