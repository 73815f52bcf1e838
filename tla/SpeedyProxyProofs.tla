------------------------- MODULE SpeedyProxyProofs -------------------------
(***************************************************************************)
(* What the speedy mode guarantees for any number of connections and slots *)
(* and any files: the semaphore counts the goroutines that run, and every  *)
(* run answers and closes as the code of ProcessRequest says.              *)
(***************************************************************************)
EXTENDS SpeedyProxy, FiniteSetTheorems, SequenceTheorems, TLAPS

-----------------------------------------------------------------------------
(* Types.                                                                   *)

Replies ==
    {[packet |-> "none", ping |-> FALSE, close |-> FALSE],
     [packet |-> "none", ping |-> FALSE, close |-> TRUE],
     [packet |-> "proxy", ping |-> FALSE, close |-> FALSE],
     [packet |-> "status", ping |-> TRUE, close |-> TRUE],
     [packet |-> "default status", ping |-> TRUE, close |-> FALSE],
     [packet |-> "empty", ping |-> FALSE, close |-> TRUE]}

Packets == {"status", "default status", "empty", "pong"}

Types ==
    /\ catalog \in Catalogs \cup {NilCatalog}
    /\ loop \in {"accepting", "claiming", "stopped"}
    /\ crashed \in BOOLEAN
    /\ stage \in [Conns -> Stages]
    /\ request \in [Conns -> Requests \cup {NoRequest}]
    /\ client \in [Conns -> {"talking", "silent", "gone"}]
    /\ swallowed \in [Conns -> BOOLEAN] /\ open \in [Conns -> BOOLEAN]
    /\ deadline \in [Conns -> BOOLEAN] /\ dialing \in [Conns -> BOOLEAN]
    /\ reply \in [Conns -> Replies]
    /\ answers \in [Conns -> Seq(Packets)]

\* A run has decided on nothing before it answers, and then on a packet to send.
Replying ==
    \A c \in Conns :
        /\ stage[c] = "deciding" => reply[c] = Unknown
        /\ stage[c] \in {"lookup"} => reply[c] = Unknown
        /\ stage[c] \in {"absent", "backlog", "accepted", "handshake", "second"}
              => reply[c] = Unknown
        /\ stage[c] \in {"answering", "pinging"}
              => reply[c].packet \in {"status", "default status", "empty"}

RunningConns == {c \in Conns : stage[c] \in Running}

Claimed == claims = Cardinality(RunningConns) /\ claims <= Slots

LEMMA UnknownProxied ==
    [Unknown EXCEPT !.packet = "proxy"] = [packet |-> "proxy", ping |-> FALSE, close |-> FALSE]
  <1> DEFINE no == FALSE
  <1>1. Unknown = [packet |-> "none", ping |-> no, close |-> no]
    BY Zenon DEF Unknown
  <1> HIDE DEF no
  <1>2. [Unknown EXCEPT !.packet = "proxy"] = [packet |-> "proxy", ping |-> no, close |-> no]
    BY <1>1
  <1> QED
    BY <1>2, Zenon DEF no

LEMMA ReplyProxied ==
    ASSUME NEW c, reply[c] = Unknown, reply' = [reply EXCEPT ![c].packet = "proxy"]
    PROVE  reply' = [reply EXCEPT ![c] = [packet |-> "proxy", ping |-> FALSE, close |-> FALSE]]
  <1>1. reply' = [reply EXCEPT ![c] = [reply[c] EXCEPT !.packet = "proxy"]]
    OBVIOUS
  <1> QED
    BY <1>1, UnknownProxied

\* The four ways of ConnAction.
LEMMA ConnActions ==
    ASSUME NEW api, NEW type, NEW allowed
    PROVE  ConnAction(api, type, allowed) \in {"PROXY", "STATUS", "VERIFY_CONN", "CLOSE"}
  BY DEF ConnAction

\* What ProcessServer does, one branch of its switch at a time.
LEMMA ProcessServerCases ==
    ASSUME NEW c \in Conns, NEW allowed \in BOOLEAN, ProcessServer(c, allowed)
    PROVE  /\ UNCHANGED <<catalog, loop, claims, crashed, clientVars, swallowed, answers>>
           /\ stage[c] = "deciding"
           /\ \/ /\ stage' = [stage EXCEPT ![c] = "returned"]
                 /\ dialing' = [dialing EXCEPT ![c] = TRUE]
                 /\ reply' = [reply EXCEPT ![c].packet = "proxy"]
                 /\ UNCHANGED <<open, deadline>>
              \/ /\ ConnAction(Find(request[c].addr).api, request[c].type, allowed) = "STATUS"
                 /\ Respond(c, "status", TRUE, TRUE)
              \/ /\ ConnAction(Find(request[c].addr).api, request[c].type, allowed) = "VERIFY_CONN"
                 /\ Respond(c, "empty", FALSE, TRUE)
              \/ CloseAtOnce(c)
  <1> DEFINE action == ConnAction(Find(request[c].addr).api, request[c].type, allowed)
  <1>1. action \in {"PROXY", "STATUS", "VERIFY_CONN", "CLOSE"}
    BY ConnActions
  <1> HIDE DEF action
  <1>2. /\ UNCHANGED <<catalog, loop, claims, crashed, clientVars, swallowed, answers>>
        /\ stage[c] = "deciding"
        /\ CASE action = "PROXY" ->
                  /\ stage' = [stage EXCEPT ![c] = "returned"]
                  /\ dialing' = [dialing EXCEPT ![c] = TRUE]
                  /\ reply' = [reply EXCEPT ![c].packet = "proxy"]
                  /\ UNCHANGED <<open, deadline>>
             [] action = "STATUS" -> Respond(c, "status", TRUE, TRUE)
             [] action = "VERIFY_CONN" -> Respond(c, "empty", FALSE, TRUE)
             [] action = "CLOSE" -> CloseAtOnce(c)
    BY DEF ProcessServer, action
  <1>3. CASE action = "PROXY"
    BY <1>2, <1>3
  <1>4. CASE action = "STATUS"
    BY <1>2, <1>4 DEF action
  <1>5. CASE action = "VERIFY_CONN"
    BY <1>2, <1>5 DEF action
  <1>6. CASE action = "CLOSE"
    BY <1>2, <1>6
  <1> QED
    BY <1>1, <1>3, <1>4, <1>5, <1>6

LEMMA TypesInit == Init => Types /\ Replying
  <1> SUFFICES ASSUME Init PROVE Types /\ Replying
    OBVIOUS
  <1>1. answers \in [Conns -> Seq(Packets)]
    BY DEF Init
  <1>2. crashed \in BOOLEAN /\ swallowed \in [Conns -> BOOLEAN] /\ open \in [Conns -> BOOLEAN]
        /\ deadline \in [Conns -> BOOLEAN] /\ dialing \in [Conns -> BOOLEAN]
    BY DEF Init
  <1>3. reply \in [Conns -> Replies]
    BY DEF Init, Unknown, Replies
  <1>4. Replying
    BY DEF Init, Replying
  <1> QED
    BY <1>1, <1>2, <1>3, <1>4 DEF Init, Types, Stages

\* Steps of the accept loop and of clients.
LEMMA TypesLoop ==
    ASSUME Types, Replying, NEW c \in Conns,
           \/ ListenerCloses \/ Client(c) \/ Accept(c) \/ Claim(c) \/ Unclaim(c)
           \/ CreateConn(c) \/ Collect(c)
    PROVE  Types' /\ Replying'
  <1> USE DEF Types, Replying, Stages, clientVars, connVars
  <1>1. CASE ListenerCloses
    BY <1>1 DEF ListenerCloses
  <1>2. CASE Connect(c)
    BY <1>2 DEF Connect
  <1>3. ASSUME NEW how \in {"silent", "gone"}, ClientStops(c, how) PROVE Types' /\ Replying'
    BY <1>3 DEF ClientStops
  <1>4. CASE Accept(c)
    BY <1>4 DEF Accept
  <1>5. CASE Claim(c)
    BY <1>5 DEF Claim
  <1>6. CASE Unclaim(c)
    BY <1>6 DEF Unclaim
  <1>7. CASE CreateConn(c)
    BY <1>7 DEF CreateConn
  <1>8. CASE Collect(c)
    BY <1>8 DEF Collect
  <1> QED
    BY <1>1, <1>2, <1>3, <1>4, <1>5, <1>6, <1>7, <1>8 DEF Client

LEMMA TypesRespond ==
    ASSUME Types, Replying, NEW c \in Conns,
           UNCHANGED <<catalog, loop, claims, crashed, clientVars, swallowed, answers>>,
           \/ Respond(c, "status", TRUE, TRUE) \/ Respond(c, "empty", FALSE, TRUE)
           \/ Respond(c, "default status", TRUE, FALSE) \/ CloseAtOnce(c)
    PROVE  Types' /\ Replying'
  <1>1. PICK r \in Replies :
           /\ reply' = [reply EXCEPT ![c] = r]
           /\ \/ /\ stage' = [stage EXCEPT ![c] = "answering"]
                 /\ r.packet \in {"status", "default status", "empty"}
              \/ stage' = [stage EXCEPT ![c] = "returned"]
    BY DEF Respond, CloseAtOnce, Replies
  <1>2. /\ open' \in [Conns -> BOOLEAN] /\ deadline' \in [Conns -> BOOLEAN]
        /\ dialing' \in [Conns -> BOOLEAN]
    BY DEF Respond, CloseAtOnce, Types
  <1>3. reply' \in [Conns -> Replies] /\ stage' \in [Conns -> Stages]
    BY <1>1 DEF Types, Stages
  <1>4. Replying'
    BY <1>1 DEF Replying, Types
  <1> QED
    BY <1>2, <1>3, <1>4 DEF Types, clientVars

\* Steps of a run.
LEMMA TypesServe ==
    ASSUME Types, Replying, NEW c \in Conns, Serve(c)
    PROVE  Types' /\ Replying'
  <1> USE DEF Types, Replying, Stages, clientVars, connVars
  <1>1. ASSUME NEW r \in Requests, ReadHandshake(c, r) \/ HandshakePanics(c, r)
        PROVE  Types' /\ Replying'
    BY <1>1 DEF ReadHandshake, HandshakePanics, Crash, Unknown
  <1>2. CASE ReadSecond(c)
    <2>1. swallowed' \in [Conns -> BOOLEAN]
      BY <1>2 DEF ReadSecond
    <2>2. deadline' \in [Conns -> BOOLEAN] /\ stage' \in [Conns -> Stages]
      BY <1>2 DEF ReadSecond
    <2>3. Replying'
      BY <1>2 DEF ReadSecond
    <2> QED
      BY <1>2, <2>1, <2>2, <2>3 DEF ReadSecond
  <1>3. CASE ReadFails(c)
    BY <1>3 DEF ReadFails
  <1>4. CASE LookupPanics(c) \/ SecondPanics(c)
    BY <1>4 DEF LookupPanics, SecondPanics, Crash
  <1>5. CASE ServerFound(c)
    BY <1>5 DEF ServerFound
  <1>6. CASE NoServerFound(c)
    BY <1>6, TypesRespond DEF NoServerFound
  <1>7. ASSUME NEW allowed \in BOOLEAN, ProcessServer(c, allowed) PROVE Types' /\ Replying'
    <2>1. ASSUME /\ stage' = [stage EXCEPT ![c] = "returned"]
                 /\ dialing' = [dialing EXCEPT ![c] = TRUE]
                 /\ reply' = [reply EXCEPT ![c].packet = "proxy"]
                 /\ UNCHANGED <<open, deadline>>
          PROVE  Types' /\ Replying'
      <3>1. reply[c] = Unknown
        BY <1>7, ProcessServerCases
      <3>2. reply' = [reply EXCEPT ![c] = [packet |-> "proxy", ping |-> FALSE, close |-> FALSE]]
        BY <2>1, <3>1, ReplyProxied
      <3>3. reply' \in [Conns -> Replies]
        BY <3>2 DEF Replies
      <3>4. Replying'
        BY <2>1, <3>2
      <3>5. /\ stage' \in [Conns -> Stages] /\ open' \in [Conns -> BOOLEAN]
            /\ dialing' \in [Conns -> BOOLEAN] /\ deadline' \in [Conns -> BOOLEAN]
        BY <2>1 DEF Stages
      <3>6. UNCHANGED <<catalog, loop, claims, crashed, clientVars, swallowed, answers>>
        BY <1>7, ProcessServerCases
      <3> QED
        BY <3>3, <3>4, <3>5, <3>6
    <2>2. ASSUME \/ Respond(c, "status", TRUE, TRUE) \/ Respond(c, "empty", FALSE, TRUE)
                 \/ CloseAtOnce(c)
          PROVE  Types' /\ Replying'
      <3>1. UNCHANGED <<catalog, loop, claims, crashed, clientVars, swallowed, answers>>
        BY <1>7, ProcessServerCases
      <3> QED
        BY <2>2, <3>1, TypesRespond
    <2>3. \/ Respond(c, "status", TRUE, TRUE) \/ Respond(c, "empty", FALSE, TRUE)
          \/ CloseAtOnce(c)
          \/ /\ stage' = [stage EXCEPT ![c] = "returned"]
             /\ dialing' = [dialing EXCEPT ![c] = TRUE]
             /\ reply' = [reply EXCEPT ![c].packet = "proxy"]
             /\ UNCHANGED <<open, deadline>>
      BY <1>7, ProcessServerCases
    <2> QED
      BY <2>1, <2>2, <2>3
  <1>8. CASE WritePacket(c)
    <2>1. answers' \in [Conns -> Seq(Packets)]
      <3>1. reply[c].packet \in Packets
        BY <1>8 DEF WritePacket, Packets
      <3>2. answers[c] \in Seq(Packets)
        OBVIOUS
      <3>3. Append(answers[c], reply[c].packet) \in Seq(Packets)
        BY <3>1, <3>2, AppendProperties
      <3>4. answers' = [answers EXCEPT ![c] = Append(answers[c], reply[c].packet)]
        BY <1>8 DEF WritePacket
      <3> QED
        BY <3>3, <3>4
    <2>2. stage' \in [Conns -> Stages] /\ open' \in [Conns -> BOOLEAN]
      <3>1. \/ stage' = [stage EXCEPT ![c] = "pinging"]
            \/ stage' = [stage EXCEPT ![c] = "returned"]
        BY <1>8 DEF WritePacket, Return
      <3>2. open' = open \/ open' = [open EXCEPT ![c] = ~reply[c].close]
        BY <1>8 DEF WritePacket, Return
      <3> QED
        BY <3>1, <3>2
    <2>3. Replying'
      <3>1. \E s \in {"pinging", "returned"} : stage' = [stage EXCEPT ![c] = s]
        BY <1>8 DEF WritePacket, Return
      <3>2. stage[c] = "answering" /\ reply' = reply
        BY <1>8 DEF WritePacket
      <3>3. reply[c].packet \in {"status", "default status", "empty"}
        BY <3>2
      <3>4. \A k \in Conns \ {c} : stage'[k] = stage[k]
        BY <3>1
      <3>5. stage'[c] \in {"pinging", "returned"}
        BY <3>1
      <3> QED
        BY <3>2, <3>3, <3>4, <3>5
    <2>4. UNCHANGED <<catalog, loop, claims, crashed, clientVars, swallowed, deadline, dialing,
                      reply>>
      BY <1>8 DEF WritePacket
    <2> QED
      BY <2>1, <2>2, <2>3, <2>4
  <1>9. CASE Pong(c)
    <2>1. answers' \in [Conns -> Seq(Packets)]
      <3>1. answers[c] \in Seq(Packets) /\ "pong" \in Packets
        BY DEF Packets
      <3>2. Append(answers[c], "pong") \in Seq(Packets)
        BY <3>1, AppendProperties
      <3>3. answers' = [answers EXCEPT ![c] = Append(answers[c], "pong")]
        BY <1>9 DEF Pong
      <3> QED
        BY <3>2, <3>3
    <2>2. open' \in [Conns -> BOOLEAN] /\ stage' \in [Conns -> Stages]
      BY <1>9 DEF Pong, Return
    <2>3. Replying'
      BY <1>9 DEF Pong, Return
    <2> QED
      BY <1>9, <2>1, <2>2, <2>3 DEF Pong, Return
  <1>10. CASE SendFails(c)
    BY <1>10 DEF SendFails, Return, Replies
  <1>11. CASE Unclaim(c)
    BY <1>11, TypesLoop
  <1> QED
    BY <1>1, <1>2, <1>3, <1>4, <1>5, <1>6, <1>7, <1>8, <1>9, <1>10, <1>11 DEF Serve
LEMMA TypesStep == Types /\ Replying /\ [Next]_vars => Types' /\ Replying'
  <1> SUFFICES ASSUME Types, Replying, [Next]_vars PROVE Types' /\ Replying'
    OBVIOUS
  <1>1. CASE UNCHANGED vars
    BY <1>1 DEF Types, Replying, vars, clientVars, connVars
  <1>2. CASE ListenerCloses
    <2>1. stage' = stage /\ reply' = reply
      BY <1>2 DEF ListenerCloses, connVars
    <2>2. Replying'
      BY <2>1 DEF Replying
    <2> QED
      BY <1>2, <2>2 DEF ListenerCloses, Types, clientVars, connVars
  <1>3. ASSUME NEW c \in Conns,
               \/ Client(c) \/ Accept(c) \/ Claim(c) \/ CreateConn(c) \/ Collect(c)
        PROVE  Types' /\ Replying'
    BY <1>3, TypesLoop
  <1>4. ASSUME NEW c \in Conns, Serve(c) PROVE Types' /\ Replying'
    BY <1>4, TypesServe
  <1> QED
    BY <1>1, <1>2, <1>3, <1>4 DEF Next

-----------------------------------------------------------------------------
(* The semaphore: only Claim starts a run and only Unclaim ends one.        *)

\* A step that moves no connection into or out of its run moves no claim.
LEMMA SameRunning ==
    ASSUME Claimed, claims' = claims,
           \A c \in Conns : stage'[c] \in Running <=> stage[c] \in Running
    PROVE  Claimed'
  <1>1. RunningConns' = RunningConns
    BY DEF RunningConns
  <1> QED
    BY <1>1 DEF Claimed

LEMMA RunningFinite == IsFiniteSet(RunningConns) /\ RunningConns \subseteq Conns
  BY SpeedyAssumption, FS_Subset DEF RunningConns

LEMMA ClaimStarts ==
    ASSUME Types, Claimed, NEW c \in Conns, Claim(c)
    PROVE  Claimed'
  <1>1. RunningConns' = RunningConns \cup {c} /\ c \notin RunningConns
    BY DEF Claim, RunningConns, Running, Types
  <1>2. Cardinality(RunningConns \cup {c}) = Cardinality(RunningConns) + 1
    BY <1>1, RunningFinite, FS_AddElement
  <1>3. Cardinality(RunningConns) \in Nat
    BY RunningFinite, FS_CardinalityType
  <1> QED
    BY <1>1, <1>2, <1>3, SpeedyAssumption DEF Claim, Claimed

LEMMA UnclaimEnds ==
    ASSUME Types, Claimed, NEW c \in Conns, Unclaim(c)
    PROVE  Claimed'
  <1>1. RunningConns' = RunningConns \ {c} /\ c \in RunningConns
    BY DEF Unclaim, RunningConns, Running, Types
  <1>2. Cardinality(RunningConns \ {c}) = Cardinality(RunningConns) - 1
    BY <1>1, RunningFinite, FS_RemoveElement
  <1>3. Cardinality(RunningConns) \in Nat
    BY RunningFinite, FS_CardinalityType
  <1> QED
    BY <1>1, <1>2, <1>3, SpeedyAssumption DEF Unclaim, Claimed

\* Every other step of a run keeps it running.
LEMMA ServeKeepsRunning ==
    ASSUME Types, Replying, NEW c \in Conns, Serve(c), ~Unclaim(c)
    PROVE  /\ claims' = claims
           /\ \A d \in Conns : stage'[d] \in Running <=> stage[d] \in Running
  <1>1. ASSUME NEW s \in Running, stage[c] \in Running, stage' = [stage EXCEPT ![c] = s]
        PROVE  \A d \in Conns : stage'[d] \in Running <=> stage[d] \in Running
    BY <1>1 DEF Types
  <1>2. claims' = claims
    <2>1. ASSUME NEW allowed \in BOOLEAN, ProcessServer(c, allowed) PROVE claims' = claims
      BY <2>1, ProcessServerCases
    <2> QED
      BY <2>1 DEF Serve, ReadHandshake, HandshakePanics, ReadSecond, SecondPanics, ReadFails,
                  LookupPanics, Crash, ServerFound, NoServerFound, WritePacket, Pong, SendFails
  <1>3. stage' = stage \/ (stage[c] \in Running /\ \E s \in Running : stage' = [stage EXCEPT ![c] = s])
    <2>1. ASSUME NEW r \in Requests, ReadHandshake(c, r)
          PROVE  stage[c] \in Running /\ \E s \in Running : stage' = [stage EXCEPT ![c] = s]
      BY <2>1 DEF ReadHandshake, Running
    <2>2. ASSUME NEW allowed \in BOOLEAN, ProcessServer(c, allowed)
          PROVE  stage[c] \in Running /\ \E s \in Running : stage' = [stage EXCEPT ![c] = s]
      BY <2>2, ProcessServerCases DEF Respond, CloseAtOnce, Running
    <2>3. CASE ReadSecond(c)
      BY <2>3 DEF ReadSecond, Running
    <2>4. CASE ReadFails(c)
      BY <2>4 DEF ReadFails, Running
    <2>5. CASE LookupPanics(c) \/ SecondPanics(c) \/ (\E r \in Requests : HandshakePanics(c, r))
      BY <2>5 DEF LookupPanics, SecondPanics, HandshakePanics, Crash
    <2>6. CASE ServerFound(c)
      BY <2>6 DEF ServerFound, Running
    <2>7. CASE NoServerFound(c)
      BY <2>7 DEF NoServerFound, Respond, CloseAtOnce, Running
    <2>8. CASE WritePacket(c)
      BY <2>8 DEF WritePacket, Return, Running
    <2>9. CASE Pong(c)
      BY <2>9 DEF Pong, Return, Running
    <2>10. CASE SendFails(c)
      BY <2>10 DEF SendFails, Return, Running
    <2> QED
      BY <2>1, <2>2, <2>3, <2>4, <2>5, <2>6, <2>7, <2>8, <2>9, <2>10 DEF Serve
  <1> QED
    BY <1>1, <1>2, <1>3

LEMMA ClaimedStep == Types /\ Replying /\ Claimed /\ [Next]_vars => Claimed'
  <1> SUFFICES ASSUME Types, Replying, Claimed, [Next]_vars PROVE Claimed'
    OBVIOUS
  <1>1. CASE UNCHANGED vars \/ ListenerCloses
    <2>1. claims' = claims /\ stage' = stage
      BY <1>1 DEF vars, ListenerCloses
    <2> QED
      BY <2>1, SameRunning
  <1>2. ASSUME NEW c \in Conns, Client(c) \/ Accept(c) \/ CreateConn(c) \/ Collect(c)
        PROVE  Claimed'
    <2>1. claims' = claims
      BY <1>2 DEF Client, Connect, ClientStops, Accept, CreateConn, Collect
    <2>2. \A d \in Conns : stage'[d] \in Running <=> stage[d] \in Running
      BY <1>2 DEF Client, Connect, ClientStops, Accept, CreateConn, Collect, Types, Running
    <2> QED
      BY <2>1, <2>2, SameRunning
  <1>3. ASSUME NEW c \in Conns, Claim(c) PROVE Claimed'
    BY <1>3, ClaimStarts
  <1>4. ASSUME NEW c \in Conns, Serve(c) PROVE Claimed'
    BY <1>4, UnclaimEnds, ServeKeepsRunning, SameRunning
  <1> QED
    BY <1>1, <1>2, <1>3, <1>4 DEF Next

\* TypeOK, in the parts the induction uses.
LEMMA TypesAreOK == Types /\ Claimed => TypeOK
  <1> SUFFICES ASSUME Types, Claimed PROVE TypeOK
    OBVIOUS
  <1>1. claims \in 0..Cardinality(Conns)
    <2>1. Cardinality(RunningConns) \in Nat /\ Cardinality(Conns) \in Nat
      BY RunningFinite, SpeedyAssumption, FS_CardinalityType
    <2>2. Cardinality(RunningConns) <= Cardinality(Conns)
      BY RunningFinite, SpeedyAssumption, FS_Subset
    <2> QED
      BY <2>1, <2>2 DEF Claimed
  <1>2. reply \in [Conns -> [packet: {"none", "proxy", "status", "default status", "empty"},
                             ping: BOOLEAN, close: BOOLEAN]]
    <2>1. Replies \subseteq [packet: {"none", "proxy", "status", "default status", "empty"},
                             ping: BOOLEAN, close: BOOLEAN]
      BY DEF Replies
    <2> QED
      BY <2>1 DEF Types
  <1>3. \A c \in Conns : answers[c] \in Seq({"status", "default status", "empty", "pong"})
    BY DEF Types, Packets
  <1> QED
    BY <1>1, <1>2, <1>3 DEF TypeOK, Types, Claimed, RunningConns

\* The speedy proxy's values keep their types, and the semaphore always holds one
\* claim for each goroutine that runs and never more than its capacity
\* (proxy.go 44-60).
THEOREM SpeedyTypes == Spec => []TypeOK
  <1>1. Init => Types /\ Replying /\ Claimed
    <2> SUFFICES ASSUME Init PROVE Claimed
      BY TypesInit
    <2>1. RunningConns = {}
      BY DEF Init, RunningConns, Running
    <2> QED
      BY <2>1, FS_EmptySet, SpeedyAssumption DEF Init, Claimed
  <1> QED
    BY <1>1, TypesStep, ClaimedStep, TypesAreOK, PTL DEF Spec
-----------------------------------------------------------------------------
(* Runs.  What a run writes is settled by what it has read, so an invariant *)
(* of one connection at a time carries it from Accept to the end of the run.*)

Early == {"absent", "backlog", "accepted", "handshake", "second", "lookup", "deciding"}
Sent == {"status", "default status", "empty"}
Over == {"returned", "done", "collected"}

\* The packet to send is the one ProcessRequest names.
Meant(c) ==
    \E allowed \in BOOLEAN :
        IF reply[c].packet = "empty"
        THEN ProcessRequest(request[c], allowed) = "verify"
        ELSE ProcessRequest(request[c], allowed) = reply[c].packet

ReadSoFar(c) ==
    /\ stage[c] = "second" => request[c] \in Requests /\ request[c].type \notin {"other", "negative host"}
    /\ stage[c] \in {"lookup", "deciding"} =>
          request[c] \in [type: {"status", "login"}, addr: Addresses] /\ ~deadline[c]
    /\ stage[c] = "deciding" => Find(request[c].addr) # NoServer

SentSoFar(c) ==
    /\ stage[c] \in Early => answers[c] = <<>> /\ reply[c] = Unknown
    /\ stage[c] = "answering" => reply[c].packet \in Sent /\ answers[c] = <<>>
    /\ stage[c] = "pinging" =>
          reply[c].packet \in {"status", "default status"} /\ answers[c] = <<reply[c].packet>>
    /\ reply[c].packet \in Sent => Meant(c)
    /\ answers[c] # <<>> =>
          \/ reply[c].packet \in Sent /\ answers[c] = <<reply[c].packet>>
          \/ /\ reply[c].packet \in {"status", "default status"}
             /\ answers[c] = <<reply[c].packet, "pong">>

LeftSoFar(c) ==
    /\ stage[c] \in Over /\ open[c] =>
          reply[c] = Unknown \/ reply[c].packet \in {"proxy", "default status"}
    /\ reply[c].packet = "proxy" => stage[c] \in Over /\ ~deadline[c]

RunInv(c) == ReadSoFar(c) /\ SentSoFar(c) /\ LeftSoFar(c)

\* The run of another connection is not touched.
LEMMA OtherRuns ==
    ASSUME NEW d, RunInv(d), catalog' = catalog,
           stage'[d] = stage[d], request'[d] = request[d], reply'[d] = reply[d],
           answers'[d] = answers[d], open'[d] = open[d], deadline'[d] = deadline[d]
    PROVE  RunInv(d)'
  <1>1. Meant(d) => Meant(d)'
    BY DEF Meant, ProcessRequest, Find
  <1>2. ReadSoFar(d)'
    BY DEF RunInv, ReadSoFar, Find
  <1>3. SentSoFar(d)'
    BY <1>1 DEF RunInv, SentSoFar
  <1>4. LeftSoFar(d)'
    BY DEF RunInv, LeftSoFar
  <1> QED
    BY <1>2, <1>3, <1>4 DEF RunInv

LEMMA RunInit == Init => \A c \in Conns : RunInv(c)
  <1> SUFFICES ASSUME Init, NEW c \in Conns PROVE RunInv(c)
    OBVIOUS
  <1>1. stage[c] = "absent" /\ reply[c] = Unknown /\ answers[c] = <<>>
    BY DEF Init
  <1> QED
    BY <1>1 DEF RunInv, ReadSoFar, SentSoFar, LeftSoFar, Early, Sent, Over, Unknown

\* Reading.
LEMMA RunReads ==
    ASSUME Types, NEW c \in Conns, RunInv(c),
           \/ Client(c) \/ Accept(c) \/ Claim(c) \/ CreateConn(c) \/ Collect(c)
           \/ (\E r \in Requests : ReadHandshake(c, r) \/ HandshakePanics(c, r))
           \/ ReadSecond(c) \/ SecondPanics(c) \/ ReadFails(c)
           \/ LookupPanics(c) \/ ServerFound(c) \/ Unclaim(c)
    PROVE  RunInv(c)'
  <1> USE DEF Types, clientVars, connVars
  <1> DEFINE Same == reply'[c] = reply[c] /\ answers'[c] = answers[c] /\ catalog' = catalog
  <1>1. ASSUME Same, stage[c] \in Early, stage'[c] \in Early \cup Over, ReadSoFar(c)'
        PROVE  RunInv(c)'
    <2>1. reply'[c] = Unknown /\ answers'[c] = <<>>
      BY <1>1 DEF RunInv, SentSoFar
    <2>2. SentSoFar(c)'
      BY <1>1, <2>1 DEF SentSoFar, Early, Sent, Over, Unknown
    <2>3. LeftSoFar(c)'
      BY <2>1 DEF LeftSoFar, Unknown
    <2> QED
      BY <1>1, <2>2, <2>3 DEF RunInv
  <1>2. ASSUME Same, request'[c] = request[c], deadline'[c] = deadline[c],
               open'[c] = open[c] \/ ~open'[c],
               stage'[c] = stage[c] \/ (stage[c] \in Over /\ stage'[c] \in Over)
        PROVE  RunInv(c)'
    <2>1. Meant(c) => Meant(c)'
      BY <1>2 DEF Meant, ProcessRequest, Find
    <2>2. ReadSoFar(c)'
      BY <1>2 DEF RunInv, ReadSoFar, Find, Over
    <2>3. SentSoFar(c)'
      BY <1>2, <2>1 DEF RunInv, SentSoFar, Early, Over
    <2>4. LeftSoFar(c)'
      BY <1>2 DEF RunInv, LeftSoFar
    <2> QED
      BY <2>2, <2>3, <2>4 DEF RunInv
  <1>3. CASE \/ (\E how \in {"silent", "gone"} : ClientStops(c, how))
             \/ CreateConn(c) \/ Collect(c) \/ LookupPanics(c) \/ SecondPanics(c) \/ Unclaim(c)
    BY <1>2, <1>3 DEF ClientStops, CreateConn, Collect, LookupPanics, SecondPanics, Crash, Unclaim, Over
  <1>4. CASE Connect(c) \/ Accept(c) \/ Claim(c)
    BY <1>1, <1>4 DEF Connect, Accept, Claim, Early, ReadSoFar
  <1>5. ASSUME NEW r \in Requests, ReadHandshake(c, r) \/ HandshakePanics(c, r)
        PROVE  RunInv(c)'
    <2>1. CASE ReadHandshake(c, r)
      <3>1. ReadSoFar(c)'
        BY <2>1 DEF ReadHandshake, RunInv, ReadSoFar, Over
      <3> QED
        BY <1>1, <2>1, <3>1 DEF ReadHandshake, Early, Over
    <2>2. CASE HandshakePanics(c, r)
      <3>1. ReadSoFar(c)'
        BY <2>2 DEF HandshakePanics, Crash, RunInv, ReadSoFar, Over
      <3> QED
        BY <1>1, <2>2, <3>1 DEF HandshakePanics, Crash, Early, Over
    <2> QED
      BY <1>5, <2>1, <2>2
  <1>6. CASE ReadSecond(c)
    <2>1. ReadSoFar(c)'
      <3>1. /\ stage'[c] = IF request[c].type = "malformed login" THEN "returned" ELSE "lookup"
            /\ request' = request /\ ~deadline'[c]
        BY <1>6 DEF ReadSecond
      <3>2. /\ request[c] \in Requests
            /\ request[c].type \notin {"other", "negative host", "negative name"}
        BY <1>6 DEF ReadSecond, RunInv, ReadSoFar
      <3>3. request[c].type # "malformed login" =>
               request[c] \in [type: {"status", "login"}, addr: Addresses]
        BY <3>2 DEF Requests
      <3> QED
        BY <3>1, <3>3 DEF ReadSoFar
    <2> QED
      BY <1>1, <1>6, <2>1 DEF ReadSecond, Early, Over
  <1>7. CASE ReadFails(c)
    BY <1>1, <1>7 DEF ReadFails, Early, Over, ReadSoFar
  <1>8. CASE ServerFound(c)
    <2>1. ReadSoFar(c)'
      BY <1>8 DEF ServerFound, RunInv, ReadSoFar, Find
    <2> QED
      BY <1>1, <1>8, <2>1 DEF ServerFound, Early
  <1> QED
    BY <1>3, <1>4, <1>5, <1>6, <1>7, <1>8 DEF Client

\* Deciding.
LEMMA RunDecides ==
    ASSUME Types, NEW c \in Conns, RunInv(c),
           NoServerFound(c) \/ (\E allowed \in BOOLEAN : ProcessServer(c, allowed))
    PROVE  RunInv(c)'
  <1> USE DEF Types, clientVars, connVars
  <1>1. /\ UNCHANGED <<catalog, request, answers>>
        /\ stage[c] \in {"lookup", "deciding"} /\ answers[c] = <<>> /\ ~deadline[c]
    BY ProcessServerCases DEF NoServerFound, RunInv, ReadSoFar, SentSoFar, Early
  <1>2. ASSUME NEW packet \in Sent, NEW ping \in BOOLEAN, NEW close \in BOOLEAN,
               Respond(c, packet, ping, close),
               \E allowed \in BOOLEAN : IF packet = "empty"
                                        THEN ProcessRequest(request[c], allowed) = "verify"
                                        ELSE ProcessRequest(request[c], allowed) = packet
        PROVE  RunInv(c)'
    <2>1. stage'[c] = "answering" /\ reply'[c].packet = packet
      BY <1>2 DEF Respond
    <2>2. Meant(c)'
      BY <1>1, <1>2, <2>1 DEF Meant, ProcessRequest, Find
    <2> QED
      BY <1>1, <2>1, <2>2
         DEF RunInv, ReadSoFar, SentSoFar, LeftSoFar, Early, Sent, Over
  <1>3. ASSUME CloseAtOnce(c) PROVE RunInv(c)'
    <2>1. stage'[c] = "returned" /\ reply'[c].packet = "none" /\ ~open'[c]
      BY <1>3 DEF CloseAtOnce
    <2> QED
      BY <1>1, <2>1 DEF RunInv, ReadSoFar, SentSoFar, LeftSoFar, Early, Sent, Over
  <1>4. CASE NoServerFound(c)
    BY <1>2, <1>3, <1>4 DEF NoServerFound, ProcessRequest, Sent
  <1>5. ASSUME NEW allowed \in BOOLEAN, ProcessServer(c, allowed) PROVE RunInv(c)'
    <2>1. Find(request[c].addr) # NoServer
      BY <1>5, ProcessServerCases DEF RunInv, ReadSoFar
    <2>2. CASE /\ stage' = [stage EXCEPT ![c] = "returned"]
               /\ reply' = [reply EXCEPT ![c].packet = "proxy"]
               /\ UNCHANGED <<open, deadline>>
      <3>1. stage'[c] = "returned" /\ ~deadline'[c]
        BY <1>1, <2>2
      <3>2. reply'[c].packet = "proxy"
        <4>1. reply[c] = Unknown
          BY <1>1 DEF RunInv, SentSoFar, Early
        <4> QED
          BY <2>2, <4>1, ReplyProxied
      <3> QED
        BY <1>1, <3>1, <3>2 DEF RunInv, ReadSoFar, SentSoFar, LeftSoFar, Early, Sent, Over
    <2>3. CASE /\ ConnAction(Find(request[c].addr).api, request[c].type, allowed) = "STATUS"
               /\ Respond(c, "status", TRUE, TRUE)
      BY <1>2, <2>1, <2>3 DEF ProcessRequest, Sent
    <2>4. CASE /\ ConnAction(Find(request[c].addr).api, request[c].type, allowed) = "VERIFY_CONN"
               /\ Respond(c, "empty", FALSE, TRUE)
      BY <1>2, <2>1, <2>4 DEF ProcessRequest, Sent
    <2> QED
      BY <1>3, <1>5, <2>2, <2>3, <2>4, ProcessServerCases
  <1> QED
    BY <1>4, <1>5

\* What the six replies have in common: a ping follows a status, and only the
\* default status leaves the connection open.
LEMMA ReplyShapes ==
    ASSUME NEW r \in Replies, r.packet \in Sent
    PROVE  /\ r.ping => r.packet \in {"status", "default status"}
           /\ ~r.close => r.packet = "default status"
  <1>1. CASE r = [packet |-> "status", ping |-> TRUE, close |-> TRUE]
    BY <1>1
  <1>2. CASE r = [packet |-> "default status", ping |-> TRUE, close |-> FALSE]
    BY <1>2
  <1>3. CASE r = [packet |-> "empty", ping |-> FALSE, close |-> TRUE]
    <2>1. r.ping = FALSE /\ r.close = TRUE
      BY <1>3
    <2> QED
      BY <2>1
  <1>4. \/ r = [packet |-> "status", ping |-> TRUE, close |-> TRUE]
        \/ r = [packet |-> "default status", ping |-> TRUE, close |-> FALSE]
        \/ r = [packet |-> "empty", ping |-> FALSE, close |-> TRUE]
    <2>1. ASSUME NEW ping, NEW close, NEW packet \in {"none", "proxy"},
                 r = [packet |-> packet, ping |-> ping, close |-> close]
          PROVE  FALSE
      BY <2>1 DEF Sent
    <2> QED
      BY <2>1 DEF Replies
  <1> QED
    BY <1>1, <1>2, <1>3, <1>4

LEMMA AppendSecond ==
    ASSUME NEW a, NEW b
    PROVE  Append(<<a>>, b) = <<a, b>>
  <1> DEFINE S == {a, b}
  <1>1. <<a>> \in Seq(S) /\ <<a, b>> \in Seq(S)
    OBVIOUS
  <1>2. /\ Append(<<a>>, b) \in Seq(S) /\ Len(Append(<<a>>, b)) = 2
        /\ Append(<<a>>, b)[1] = a /\ Append(<<a>>, b)[2] = b
    <2>1. Len(<<a>>) = 1 /\ <<a>>[1] = a
      OBVIOUS
    <2>2. b \in S
      OBVIOUS
    <2> HIDE DEF S
    <2> QED
      BY <1>1, <2>1, <2>2, AppendProperties
  <1>3. Len(<<a, b>>) = 2 /\ <<a, b>>[1] = a /\ <<a, b>>[2] = b
    OBVIOUS
  <1>4. \A i \in 1..Len(Append(<<a>>, b)) : Append(<<a>>, b)[i] = <<a, b>>[i]
    <2>1. \A i \in 1..2 : i = 1 \/ i = 2
      OBVIOUS
    <2>2. \A i \in 1..2 : Append(<<a>>, b)[i] = <<a, b>>[i]
      BY <1>2, <1>3, <2>1
    <2> QED
      BY <1>2, <2>2
  <1> HIDE DEF S
  <1> QED
    BY <1>1, <1>2, <1>3, <1>4, SeqEqual

\* Sending.
LEMMA RunSends ==
    ASSUME Types, NEW c \in Conns, RunInv(c), WritePacket(c) \/ Pong(c) \/ SendFails(c)
    PROVE  RunInv(c)'
  <1> USE DEF Types, clientVars
  <1>1. /\ UNCHANGED <<catalog, request, reply, deadline>>
        /\ stage[c] \in {"answering", "pinging"} /\ stage'[c] \in {"pinging", "returned"}
    BY DEF WritePacket, Pong, SendFails, Return
  <1>2. reply[c].packet \in Sent /\ Meant(c) /\ reply[c] \in Replies
    BY <1>1 DEF RunInv, SentSoFar, Sent
  <1>3. Meant(c)'
    BY <1>1, <1>2 DEF Meant, ProcessRequest, Find
  <1>4. stage'[c] = "returned" => open'[c] = ~reply[c].close
    BY <1>1 DEF WritePacket, Pong, SendFails, Return
  <1>5. ReadSoFar(c)' /\ LeftSoFar(c)'
    <2>1. ~reply[c].close => reply[c].packet = "default status"
      BY <1>2, ReplyShapes
    <2> QED
      BY <1>1, <1>2, <1>4, <2>1 DEF ReadSoFar, LeftSoFar, Over, Sent
  <1>6. ASSUME \/ answers'[c] = <<>>
               \/ answers'[c] = <<reply[c].packet>>
               \/ /\ answers'[c] = <<reply[c].packet, "pong">>
                  /\ reply[c].packet \in {"status", "default status"},
               stage'[c] = "pinging" =>
                  /\ answers'[c] = <<reply[c].packet>>
                  /\ reply[c].packet \in {"status", "default status"}
        PROVE  RunInv(c)'
    <2>1. reply'[c] = reply[c] /\ stage'[c] \in {"pinging", "returned"}
      BY <1>1
    <2> HIDE DEF Types
    <2>2. SentSoFar(c)'
      BY <1>2, <1>3, <1>6, <2>1 DEF SentSoFar, Early
    <2> QED
      BY <1>5, <2>2 DEF RunInv
  <1>7. CASE WritePacket(c)
    <2>1. answers'[c] = <<reply[c].packet>>
      BY <1>7 DEF WritePacket, RunInv, SentSoFar
    <2>2. stage'[c] = "pinging" => reply[c].packet \in {"status", "default status"}
      <3>1. reply[c].ping => reply[c].packet \in {"status", "default status"}
        BY <1>2, ReplyShapes
      <3> QED
        BY <1>7, <3>1 DEF WritePacket, Return
    <2> QED
      BY <1>6, <2>1, <2>2
  <1>8. CASE Pong(c)
    <2>1. answers'[c] = <<reply[c].packet, "pong">> /\ stage'[c] = "returned"
      <3>1. answers[c] = <<reply[c].packet>>
        BY <1>8 DEF Pong, RunInv, SentSoFar
      <3>2. answers'[c] = Append(answers[c], "pong") /\ stage'[c] = "returned"
        BY <1>8 DEF Pong, Return
      <3> HIDE DEF Types
      <3> QED
        BY <3>1, <3>2, AppendSecond
    <2>2. reply[c].packet \in {"status", "default status"}
      BY <1>8 DEF Pong, RunInv, SentSoFar
    <2> QED
      BY <1>6, <2>1, <2>2
  <1>9. CASE SendFails(c)
    <2>1. answers'[c] = answers[c] /\ stage'[c] = "returned"
      BY <1>9 DEF SendFails, Return
    <2>2. \/ answers[c] = <<>> \/ answers[c] = <<reply[c].packet>>
      BY <1>1 DEF RunInv, SentSoFar
    <2> QED
      BY <1>6, <2>1, <2>2
  <1> QED
    BY <1>7, <1>8, <1>9

\* No step of one connection changes what another's run has done.
LEMMA RunsApart ==
    ASSUME Types, NEW c \in Conns, NEW d \in Conns, c # d, RunInv(d),
           Client(c) \/ Accept(c) \/ Claim(c) \/ Serve(c) \/ CreateConn(c) \/ Collect(c)
    PROVE  RunInv(d)'
  <1> USE DEF Types, clientVars, connVars
  <1> DEFINE Kept == /\ catalog' = catalog
                     /\ stage'[d] = stage[d] /\ request'[d] = request[d]
                     /\ reply'[d] = reply[d] /\ answers'[d] = answers[d]
                     /\ open'[d] = open[d] /\ deadline'[d] = deadline[d]
  <1>1. CASE Client(c) \/ Accept(c) \/ Claim(c) \/ CreateConn(c) \/ Collect(c) \/ Unclaim(c)
    <2>1. Kept
      BY <1>1 DEF Client, Connect, ClientStops, Accept, Claim, CreateConn, Collect, Unclaim
    <2> QED
      BY <2>1, OtherRuns
  <1>2. CASE \/ (\E r \in Requests : ReadHandshake(c, r) \/ HandshakePanics(c, r))
             \/ ReadSecond(c) \/ SecondPanics(c) \/ ReadFails(c)
             \/ LookupPanics(c) \/ ServerFound(c)
    <2>1. Kept
      BY <1>2 DEF ReadHandshake, HandshakePanics, ReadSecond, SecondPanics, ReadFails,
                  LookupPanics, Crash, ServerFound
    <2> QED
      BY <2>1, OtherRuns
  <1>3. CASE NoServerFound(c)
    <2>1. Kept
      BY <1>3 DEF NoServerFound, Respond, CloseAtOnce
    <2> QED
      BY <2>1, OtherRuns
  <1>4. ASSUME NEW allowed \in BOOLEAN, ProcessServer(c, allowed) PROVE RunInv(d)'
    <2>1. Kept
      BY <1>4, ProcessServerCases DEF Respond, CloseAtOnce
    <2> QED
      BY <2>1, OtherRuns
  <1>5. CASE WritePacket(c) \/ Pong(c) \/ SendFails(c)
    <2>1. Kept
      BY <1>5 DEF WritePacket, Pong, SendFails, Return
    <2> QED
      BY <2>1, OtherRuns
  <1> QED
    BY <1>1, <1>2, <1>3, <1>4, <1>5 DEF Serve

LEMMA RunStep ==
    Types /\ (\A c \in Conns : RunInv(c)) /\ [Next]_vars => (\A c \in Conns : RunInv(c))'
  <1> SUFFICES ASSUME Types, \A c \in Conns : RunInv(c), [Next]_vars, NEW d \in Conns
               PROVE  RunInv(d)'
    OBVIOUS
  <1>1. CASE UNCHANGED vars \/ ListenerCloses
    BY <1>1, OtherRuns DEF vars, ListenerCloses, clientVars, connVars
  <1>2. ASSUME NEW c \in Conns,
               Client(c) \/ Accept(c) \/ Claim(c) \/ Serve(c) \/ CreateConn(c) \/ Collect(c)
        PROVE  RunInv(d)'
    <2>1. CASE c # d
      BY <1>2, <2>1, RunsApart
    <2>2. CASE c = d
      BY <1>2, <2>2, RunReads, RunDecides, RunSends DEF Serve
    <2> QED
      BY <2>1, <2>2
  <1> QED
    BY <1>1, <1>2 DEF Next

LEMMA PanicStep == Types /\ ~crashed /\ [Next]_vars => PanicsExplained'
  <1> SUFFICES ASSUME Types, ~crashed, Next, crashed' PROVE PanicsExplained'
    BY DEF PanicsExplained, vars
  <1>1. ~ListenerCloses
    BY DEF ListenerCloses
  <1>2. ASSUME NEW c \in Conns, Client(c) \/ Accept(c) \/ Claim(c) \/ CreateConn(c) \/ Collect(c)
        PROVE  FALSE
    BY <1>2 DEF Client, Connect, ClientStops, Accept, Claim, CreateConn, Collect
  <1>3. ASSUME NEW c \in Conns, Serve(c) PROVE PanicsExplained'
    <2>1. ASSUME NEW allowed \in BOOLEAN, ProcessServer(c, allowed) PROVE FALSE
      BY <2>1, ProcessServerCases
    <2>2. ASSUME NEW r \in Requests, HandshakePanics(c, r) PROVE PanicsExplained'
      BY <2>2 DEF HandshakePanics, PanicsExplained, Types
    <2>3. CASE SecondPanics(c)
      BY <2>3 DEF SecondPanics, PanicsExplained, clientVars
    <2>4. CASE LookupPanics(c)
      BY <2>4 DEF LookupPanics, Crash, PanicsExplained
    <2> QED
      BY <1>3, <2>1, <2>2, <2>3, <2>4
         DEF Serve, ReadHandshake, ReadSecond, ReadFails, ServerFound, NoServerFound,
             WritePacket, Pong, SendFails, Unclaim
  <1> QED
    BY <1>1, <1>2, <1>3 DEF Next

\* A process that has ended stays as it is.
LEMMA PanicInv == Types /\ PanicsExplained /\ [Next]_vars => PanicsExplained'
  <1>1. crashed /\ PanicsExplained /\ [Next]_vars => PanicsExplained'
    BY DEF Next, PanicsExplained, vars, clientVars
  <1> QED
    BY <1>1, PanicStep

\* The invariant of the runs says what AnswersAsProcessRequest does.
LEMMA AnswersAreMeant == (\A c \in Conns : RunInv(c)) => AnswersAsProcessRequest
  <1> SUFFICES ASSUME NEW c \in Conns, RunInv(c), answers[c] # <<>>
               PROVE  \E allowed \in BOOLEAN :
                         LET packet == ProcessRequest(request[c], allowed)
                         IN  CASE packet \in {"status", "default status"} ->
                                     answers[c] \in {<<packet>>, <<packet, "pong">>}
                               [] packet = "verify" -> answers[c] = <<"empty">>
                               [] OTHER -> FALSE
    BY DEF AnswersAsProcessRequest
  <1>1. PICK allowed \in BOOLEAN :
           IF reply[c].packet = "empty"
           THEN ProcessRequest(request[c], allowed) = "verify"
           ELSE ProcessRequest(request[c], allowed) = reply[c].packet
    BY DEF RunInv, SentSoFar, Sent, Meant
  <1> QED
    BY <1>1 DEF RunInv, SentSoFar, Sent

\* Whatever clients send and whenever they stop, a run writes the packet
\* ProcessRequest names once, closes what it should, lifts the deadline of a
\* proxied connection and ends the process only without a catalog or on a string
\* of negative length (basic.go 24-160).
THEOREM RunsEndAsPromised == Spec => []RunsEndWell
  <1>1. Init => Types /\ Replying /\ (\A c \in Conns : RunInv(c)) /\ PanicsExplained
    BY TypesInit, RunInit DEF Init, PanicsExplained
  <1>2. Types /\ (\A c \in Conns : RunInv(c)) /\ PanicsExplained => RunsEndWell
    <2> SUFFICES ASSUME \A c \in Conns : RunInv(c), PanicsExplained PROVE RunsEndWell
      OBVIOUS
    <2>1. ClosedWhenDone
      BY DEF ClosedWhenDone, RunInv, LeftSoFar, Over
    <2>2. NoDeadlineOnProxied
      BY DEF NoDeadlineOnProxied, RunInv, LeftSoFar
    <2> QED
      BY <2>1, <2>2, AnswersAreMeant DEF RunsEndWell
  <1> QED
    BY <1>1, <1>2, TypesStep, RunStep, PanicInv, PTL DEF Spec
=============================================================================
