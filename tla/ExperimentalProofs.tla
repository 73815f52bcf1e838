------------------------- MODULE ExperimentalProofs -------------------------
(***************************************************************************)
(* What the experimental proxy keeps for any datagrams, addresses,         *)
(* connections and configuration files, although its goroutines share one  *)
(* buffer and one map without a lock.  The invariant has a part for each   *)
(* half: Bedrock, where it says what a goroutine that has met no other one *)
(* finds in the buffer and in the map, and Java, whose loop is busy with   *)
(* one connection.                                                         *)
(***************************************************************************)
EXTENDS Experimental, FiniteSetTheorems, TLAPS

-----------------------------------------------------------------------------
(* Run and its configuration.                                               *)

StartInv ==
    /\ [files |-> files, clients |-> clients] \in Cases
    /\ run \in {"configs", "listen", "up", "failed"} /\ crashed \in BOOLEAN
    /\ serving \subseteq DOMAIN files
    /\ run \in {"listen", "up"} => \A f \in FilesOf("bedrock") : Good(f)
    /\ run = "up" => serving = FilesOf("bedrock") /\ \A f \in FilesOf("java") : Good(f)
    /\ serving \subseteq FilesOf("bedrock")
    /\ run = "failed" => Unreadable \/ \E f \in FilesOf("bedrock") \cup FilesOf("java") : ~Good(f)

-----------------------------------------------------------------------------
(* Bedrock.                                                                 *)

Busy(d) == serve[d] \notin Idle
Records == [conn : Datagrams, data : Contents]

BedrockTypes ==
    /\ buf \in [DOMAIN files -> Contents]
    /\ serve \in [Datagrams -> Idle \cup {"start", "ping", "pong", "lookup", "dial", "store", "write"}]
    /\ upstream \in [IPs -> Datagrams \cup {None}]
    /\ sentOn \in [Datagrams -> Records \cup {None}]
    /\ pong \in [Datagrams -> Contents]
    /\ replier \in [Datagrams -> {"none", "running", "ended"}]
    /\ disturbed \subseteq Datagrams /\ contended \subseteq IPs
    /\ \A d \in Datagrams : serve[d] # "absent" => To[d] \in DOMAIN files
    /\ \A d \in Datagrams : serve[d] = "write" => sentOn[d] \in Records

\* Two goroutines that share a buffer, or an IP, have been noted.
Met ==
    \A d, e \in Datagrams :
        d # e /\ Busy(d) /\ Busy(e) =>
            /\ To[d] = To[e] => d \in disturbed
            /\ IP(d) = IP(e) => IP(d) \in contended

\* What a goroutine that met no other in its buffer has done so far.
Alone(d) ==
    d \notin disturbed =>
        /\ Busy(d) => buf[To[d]] = IF serve[d] = "pong" THEN <<"pong", d>> ELSE d
        /\ serve[d] \in {"ping", "pong"} => d \in Pings
        /\ serve[d] \in {"lookup", "dial", "store", "write"} => d \notin Pings
        /\ serve[d] \in {"absent", "start", "ping", "lookup", "dial", "store", "write"} =>
              pong[d] = None
        /\ serve[d] = "pong" => pong[d] = d /\ d \notin Short
        /\ serve[d] \in {"absent", "start", "ping", "pong", "lookup", "dial", "store"} =>
              sentOn[d] = None
        /\ serve[d] = "done" =>
              IF d \in Pings THEN sentOn[d] = None /\ pong[d] = IF d \in Short THEN None ELSE d
              ELSE pong[d] = None /\ sentOn[d] \in Records /\ sentOn[d].data = d

\* The map holds connections of their own IP whose replies are, or were, read.
MapHolds ==
    /\ \A ip \in IPs :
          upstream[ip] # None => IP(upstream[ip]) = ip /\ replier[upstream[ip]] # "none"
    /\ \A d \in Datagrams :
          sentOn[d] # None \/ serve[d] = "write" =>
              IP(sentOn[d].conn) = IP(d) /\ replier[sentOn[d].conn] # "none"
    /\ \A d \in Datagrams :
          serve[d] \in {"dial", "store"} /\ IP(d) \notin contended => upstream[IP(d)] = None

BedrockInv == BedrockTypes /\ Met /\ (\A d \in Datagrams : Alone(d)) /\ MapHolds

-----------------------------------------------------------------------------
(* Java.                                                                    *)

Served == {c \in Conns : conn[c] \in {"reading", "connecting", "no_server", "proxied"}}

JavaInv ==
    /\ javaLoop \in {"none", "accept", "busy", "failed"}
    /\ conn \in [Conns -> {"absent", "backlog", "reading", "connecting", "no_server", "proxied",
                            "dropped", "done"}]
    /\ hs \in [Conns -> Pieces]
    /\ gone \subseteq Conns \X Sides /\ shut \subseteq Conns \X Sides /\ pipe \subseteq Conns \X Sides
    /\ run \in {"configs", "listen"} => javaLoop = "none"
    /\ javaLoop = "busy" => \E c \in Conns : Served = {c}
    /\ javaLoop # "busy" => Served = {}
    /\ \A c \in Conns : <<c, "client">> \in pipe => conn[c] = "proxied"

-----------------------------------------------------------------------------

LEMMA IPType == \A d \in Datagrams : IP(d) \in IPs
  BY ExperimentalAssumption DEF IP

LEMMA ContentsHeld ==
    /\ None \in Contents /\ Mixed \in Contents /\ Datagrams \subseteq Contents
    /\ \A d \in Datagrams : <<"pong", d>> \in Contents
  BY DEF Contents

LEMMA StartInit == Init => StartInv
  <1> SUFFICES ASSUME Init PROVE StartInv
    OBVIOUS
  <1>1. PICK k \in Cases : files = k.files /\ clients = k.clients
    BY DEF Init
  <1>2. [files |-> files, clients |-> clients] = k
    BY <1>1, ExperimentalAssumption
  <1> QED
    BY <1>2 DEF Init, StartInv

LEMMA BedrockInit == Init => BedrockInv
  <1> SUFFICES ASSUME Init PROVE BedrockInv
    OBVIOUS
  <1>1. BedrockTypes
    <2>1. buf \in [DOMAIN files -> Contents]
      BY ContentsHeld DEF Init
    <2> QED
      BY <2>1, ContentsHeld DEF Init, BedrockTypes, Idle
  <1>2. Met
    BY DEF Init, Met, Busy, Idle
  <1>3. \A d \in Datagrams : Alone(d)
    BY DEF Init, Alone, Busy, Idle
  <1>4. MapHolds
    BY DEF Init, MapHolds
  <1> QED
    BY <1>1, <1>2, <1>3, <1>4 DEF BedrockInv

LEMMA JavaInit == Init => JavaInv
  BY DEF Init, JavaInv, Pieces, Served

RunStep ==
    \/ ReadBedrockConfigs \/ ReadJavaConfigs \/ ListenFails \/ ListenPacketFails
    \/ \E f \in DOMAIN files : CreateBedrockListener(f)

\* Run's own steps.
LEMMA RunSteps ==
    ASSUME StartInv, BedrockInv, JavaInv, RunStep
    PROVE  StartInv' /\ BedrockInv' /\ JavaInv'
  <1> USE DEF RunStep, ReadBedrockConfigs, ReadJavaConfigs, ListenFails, ListenPacketFails,
              CreateBedrockListener
  <1>1. UNCHANGED <<files, clients, bedrockVars, conn, hs, gone, shut, pipe>>
    BY DEF startVars, javaVars
  <1>2. BedrockInv'
    BY <1>1 DEF bedrockVars, BedrockInv, BedrockTypes, Met, Alone, MapHolds, Busy
  <1>3. StartInv'
    <2>1. /\ FilesOf("bedrock")' = FilesOf("bedrock") /\ FilesOf("java")' = FilesOf("java")
          /\ Unreadable' = Unreadable /\ \A f : Good(f)' = Good(f)
      BY <1>1 DEF FilesOf, Unreadable, Good, Loads
    <2>2. crashed' \in BOOLEAN
      BY DEF StartInv, startVars, Crash
    <2>3. serving' \subseteq FilesOf("bedrock") /\ FilesOf("bedrock") \subseteq DOMAIN files
      BY DEF StartInv, startVars, FilesOf, Unserved
    <2>4. \/ run' = run
          \/ run' = "listen" /\ \A f \in FilesOf("bedrock") : Good(f)
          \/ run' = "failed" /\ (Unreadable \/ \E f \in FilesOf("bedrock") \cup FilesOf("java") : ~Good(f))
          \/ run = "listen" /\ run' = "up" /\ serving' = FilesOf("bedrock")
             /\ \A f \in FilesOf("java") : Good(f)
      BY DEF StartInv, startVars, Unserved
    <2>5. run = "up" => serving' = serving
      BY DEF StartInv, startVars
    <2> QED
      BY <1>1, <2>1, <2>2, <2>3, <2>4, <2>5 DEF StartInv
  <1>4. javaLoop' = "busy" <=> javaLoop = "busy"
    BY DEF javaVars, JavaInv
  <1>5. JavaInv'
    BY <1>1, <1>4 DEF startVars, javaVars, JavaInv, Served
  <1> QED
    BY <1>2, <1>3, <1>5

\* A step of one half leaves the other half and Run alone.
LEMMA StartKept ==
    ASSUME StartInv, UNCHANGED startVars, crashed' \in BOOLEAN
    PROVE  StartInv'
  BY DEF StartInv, startVars, FilesOf, Good, Loads, Unreadable

LEMMA BedrockKept ==
    ASSUME BedrockInv, UNCHANGED <<files, bedrockVars>>
    PROVE  BedrockInv'
  BY DEF bedrockVars, BedrockInv, BedrockTypes, Met, Alone, MapHolds, Busy

LEMMA JavaKept ==
    ASSUME JavaInv, UNCHANGED <<run, javaVars>>
    PROVE  JavaInv'
  BY DEF javaVars, JavaInv, Served

LEMMA ReadFromInv ==
    ASSUME StartInv, BedrockInv, NEW d \in Datagrams, ReadFrom(d)
    PROVE  BedrockInv'
  <1> USE DEF BedrockInv, BedrockTypes
  <1>1. /\ To[d] \in DOMAIN files /\ files' = files /\ serve[d] = "absent"
        /\ serve' = [serve EXCEPT ![d] = "start"] /\ buf' = [buf EXCEPT ![To[d]] = d]
        /\ UNCHANGED <<upstream, sentOn, pong, replier>>
    BY DEF ReadFrom, Step, StartInv, startVars
  <1>2. /\ disturbed \subseteq disturbed' /\ disturbed' \subseteq Datagrams
        /\ contended \subseteq contended' /\ contended' \subseteq IPs
    BY IPType DEF ReadFrom, Serving
  <1>3. \A e \in Datagrams : Busy(e) /\ To[e] = To[d] => e \in disturbed' /\ d \in disturbed'
    <2> SUFFICES ASSUME NEW e \in Datagrams, Busy(e), To[e] = To[d]
                 PROVE  e \in disturbed' /\ d \in disturbed'
      OBVIOUS
    <2>1. e \in Serving(To[d])
      BY DEF Serving, Busy
    <2> QED
      BY <2>1 DEF ReadFrom
  <1>4. \A e \in Datagrams : Busy(e) /\ IP(e) = IP(d) => IP(d) \in contended'
    BY DEF ReadFrom, Busy
  <1>5. BedrockTypes'
    <2>1. buf' \in [DOMAIN files -> Contents]
      BY <1>1, ContentsHeld
    <2> QED
      BY <1>1, <1>2, <2>1
  <1>6. \A e \in Datagrams : e # d => serve'[e] = serve[e] /\ (Busy(e)' <=> Busy(e))
    BY <1>1 DEF Busy
  <1>7. Met'
    BY <1>2, <1>3, <1>4, <1>6 DEF Met
  <1>8. ASSUME NEW e \in Datagrams PROVE Alone(e)'
    <2>1. CASE e = d
      <3>1. serve'[d] = "start" /\ buf'[To[d]] = d
        BY <1>1
      <3>2. d \notin disturbed => pong[d] = None /\ sentOn[d] = None
        BY <1>1 DEF Alone
      <3> QED
        BY <1>1, <1>2, <2>1, <3>1, <3>2 DEF Alone
    <2>2. CASE e # d
      <3>1. Busy(e) /\ e \notin disturbed' => To[e] # To[d]
        BY <1>3
      <3>2. Busy(e) /\ e \notin disturbed' => buf'[To[e]] = buf[To[e]]
        BY <1>1, <3>1 DEF Busy, Idle
      <3> QED
        BY <1>1, <1>2, <1>6, <2>2, <3>2 DEF Alone
    <2> QED
      BY <2>1, <2>2
  <1>9. MapHolds'
    BY <1>1, <1>2 DEF MapHolds
  <1> QED
    BY <1>5, <1>7, <1>8, <1>9

\* A goroutine's step changes its own record and its own loop's buffer, so it
\* cannot touch one that has met no other there.
OwnStep(d) ==
    /\ Busy(d)
    /\ UNCHANGED <<files, disturbed, contended>>
    /\ \A e \in Datagrams \ {d} :
          serve'[e] = serve[e] /\ sentOn'[e] = sentOn[e] /\ pong'[e] = pong[e]
    /\ \A f \in DOMAIN files : f # To[d] => buf'[f] = buf[f]

LEMMA OthersAlone ==
    ASSUME BedrockInv, NEW d \in Datagrams, OwnStep(d), BedrockTypes', Alone(d)', MapHolds'
    PROVE  BedrockInv'
  <1>1. \A e \in Datagrams : Busy(e)' => Busy(e)
    BY DEF OwnStep, Busy
  <1>2. Met'
    BY <1>1 DEF OwnStep, BedrockInv, Met
  <1>3. ASSUME NEW e \in Datagrams, e # d PROVE Alone(e)'
    <2>1. Busy(e)' /\ e \notin disturbed' => To[e] # To[d] /\ To[e] \in DOMAIN files
      <3>1. Busy(e) => serve[e] # "absent"
        BY DEF Busy, Idle
      <3> QED
        BY <1>1, <1>3, <3>1 DEF OwnStep, BedrockInv, BedrockTypes, Met
    <2>2. Busy(e)' /\ e \notin disturbed' => buf'[To[e]] = buf[To[e]]
      BY <2>1 DEF OwnStep
    <2>3. serve'[e] = serve[e] /\ sentOn'[e] = sentOn[e] /\ pong'[e] = pong[e]
          /\ disturbed' = disturbed /\ Alone(e)
      BY <1>3 DEF OwnStep, BedrockInv
    <2> QED
      BY <2>2, <2>3 DEF Alone, Busy
  <1> QED
    BY <1>2, <1>3 DEF BedrockInv

\* What a goroutine may see is of the right type and, met by nobody, its own.
LEMMA SeenType ==
    ASSUME BedrockInv, NEW d \in Datagrams, Busy(d), NEW seen \in Seen(d)
    PROVE  /\ seen \in Contents
           /\ d \notin disturbed => seen = IF serve[d] = "pong" THEN <<"pong", d>> ELSE d
  <1>1. To[d] \in DOMAIN files
    BY DEF BedrockInv, BedrockTypes, Busy, Idle
  <1>2. seen = buf[To[d]] \/ (d \in disturbed /\ seen = Mixed)
    BY DEF Seen
  <1>3. seen \in Contents
    BY <1>1, <1>2, ContentsHeld DEF BedrockInv, BedrockTypes
  <1>4. ASSUME d \notin disturbed PROVE seen = IF serve[d] = "pong" THEN <<"pong", d>> ELSE d
    <2>1. Alone(d) /\ seen = buf[To[d]]
      BY <1>2, <1>4 DEF BedrockInv
    <2> QED
      BY <1>4, <2>1, Zenon DEF Alone
  <1> QED
    BY <1>3, <1>4

LEMMA ReadIdInv ==
    ASSUME BedrockInv, NEW d \in Datagrams, ReadId(d)
    PROVE  BedrockInv'
  <1> USE DEF BedrockInv
  <1>1. /\ UNCHANGED <<startVars, buf, upstream, sentOn, pong, replier, disturbed, contended>>
        /\ serve[d] = "start"
    BY DEF ReadId
  <1>2. PICK seen \in Seen(d) :
           \/ seen \in Pings \cup {Mixed} /\ Step(d, "start", "ping")
           \/ seen \notin Pings /\ Step(d, "start", "lookup")
    BY DEF ReadId
  <1>3. OwnStep(d)
    BY <1>1, <1>2 DEF OwnStep, Busy, Idle, Step, BedrockTypes, startVars
  <1>4. BedrockTypes'
    BY <1>1, <1>2 DEF BedrockTypes, Step, startVars
  <1>5. d \notin disturbed => seen = d
    BY <1>1, SeenType DEF Busy, Idle
  <1>6. Alone(d)'
    <2>1. \/ serve'[d] = "ping" /\ (d \notin disturbed => d \in Pings)
          \/ serve'[d] = "lookup" /\ (d \notin disturbed => d \notin Pings)
      BY <1>2, <1>5, ExperimentalAssumption DEF Step, BedrockTypes
    <2>2. Alone(d) /\ Busy(d)
      BY <1>1 DEF Busy, Idle
    <2> QED
      BY <1>1, <2>1, <2>2 DEF Alone, Busy, Idle
  <1>7. MapHolds'
    BY <1>1, <1>2 DEF MapHolds, Step, BedrockTypes
  <1> QED
    BY <1>3, <1>4, <1>6, <1>7, OthersAlone

LEMMA PingUnreadableInv ==
    ASSUME BedrockInv, NEW d \in Datagrams, PingUnreadable(d)
    PROVE  BedrockInv'
  <1> USE DEF BedrockInv
  <1>1. /\ UNCHANGED <<startVars, buf, upstream, sentOn, pong, replier, disturbed, contended>>
        /\ serve[d] = "ping" /\ serve' = [serve EXCEPT ![d] = "done"] /\ d \in Short
    BY DEF PingUnreadable, Step
  <1>2. OwnStep(d)
    BY <1>1 DEF OwnStep, Busy, Idle, BedrockTypes, startVars
  <1>3. BedrockTypes'
    BY <1>1 DEF BedrockTypes, startVars, Idle
  <1>4. Alone(d)'
    <2>1. serve'[d] = "done"
      BY <1>1 DEF BedrockTypes
    <2> QED
      BY <1>1, <2>1 DEF Alone, Busy, Idle
  <1>5. MapHolds'
    BY <1>1 DEF MapHolds, BedrockTypes
  <1> QED
    BY <1>2, <1>3, <1>4, <1>5, OthersAlone

LEMMA WritePongInv ==
    ASSUME BedrockInv, NEW d \in Datagrams, WritePong(d)
    PROVE  BedrockInv'
  <1> USE DEF BedrockInv
  <1>1. /\ UNCHANGED <<startVars, upstream, sentOn, replier, disturbed, contended>>
        /\ serve[d] = "ping" /\ serve' = [serve EXCEPT ![d] = "pong"]
        /\ buf' = [buf EXCEPT ![To[d]] = <<"pong", d>>] /\ d \notin Short
    BY DEF WritePong, Step
  <1>2. PICK seen \in Seen(d) : pong' = [pong EXCEPT ![d] = seen]
    BY DEF WritePong
  <1>3. Busy(d) /\ To[d] \in DOMAIN files
    BY <1>1 DEF Busy, Idle, BedrockTypes
  <1>4. seen \in Contents /\ (d \notin disturbed => seen = d)
    BY <1>1, <1>3, SeenType
  <1>5. OwnStep(d)
    BY <1>1, <1>2, <1>3 DEF OwnStep, BedrockTypes, startVars
  <1>6. BedrockTypes'
    <2>1. buf' \in [DOMAIN files -> Contents] /\ pong' \in [Datagrams -> Contents]
      BY <1>1, <1>2, <1>4, ContentsHeld DEF BedrockTypes
    <2> QED
      BY <1>1, <2>1 DEF BedrockTypes, startVars
  <1>7. Alone(d)'
    <2>1. serve'[d] = "pong" /\ buf'[To[d]] = <<"pong", d>> /\ pong'[d] = seen
      BY <1>1, <1>2, <1>3 DEF BedrockTypes
    <2> QED
      BY <1>1, <1>4, <2>1 DEF Alone
  <1>8. MapHolds'
    BY <1>1 DEF MapHolds, BedrockTypes
  <1> QED
    BY <1>5, <1>6, <1>7, <1>8, OthersAlone

LEMMA SendPongInv ==
    ASSUME BedrockInv, NEW d \in Datagrams, SendPong(d)
    PROVE  BedrockInv'
  <1> USE DEF BedrockInv
  <1>1. /\ UNCHANGED <<startVars, buf, upstream, sentOn, replier, disturbed, contended>>
        /\ serve[d] = "pong" /\ serve' = [serve EXCEPT ![d] = "done"]
    BY DEF SendPong, Step
  <1>2. PICK seen \in Seen(d) :
           pong' = [pong EXCEPT ![d] = IF seen = <<"pong", d>> THEN pong[d] ELSE Mixed]
    BY DEF SendPong
  <1>3. Busy(d)
    BY <1>1 DEF Busy, Idle
  <1>4. d \notin disturbed => seen = <<"pong", d>>
    BY <1>1, <1>3, SeenType
  <1>5. OwnStep(d)
    BY <1>1, <1>2, <1>3 DEF OwnStep, BedrockTypes, startVars
  <1>6. BedrockTypes'
    <2>1. pong' \in [Datagrams -> Contents]
      BY <1>2, ContentsHeld DEF BedrockTypes
    <2> QED
      BY <1>1, <2>1 DEF BedrockTypes, startVars, Idle
  <1>7. Alone(d)'
    <2>1. serve'[d] = "done" /\ (d \notin disturbed => pong'[d] = pong[d])
      BY <1>1, <1>2, <1>4 DEF BedrockTypes
    <2> QED
      BY <1>1, <2>1 DEF Alone, Busy, Idle
  <1>8. MapHolds'
    BY <1>1 DEF MapHolds, BedrockTypes
  <1> QED
    BY <1>5, <1>6, <1>7, <1>8, OthersAlone

LEMMA LookupInv ==
    ASSUME BedrockInv, NEW d \in Datagrams, Lookup(d)
    PROVE  BedrockInv'
  <1> USE DEF BedrockInv
  <1> DEFINE u == upstream[IP(d)]
  <1>1. /\ UNCHANGED <<startVars, buf, upstream, pong, replier, disturbed, contended>>
        /\ serve[d] = "lookup"
        /\ serve' = [serve EXCEPT ![d] = IF u = None THEN "dial" ELSE "write"]
        /\ sentOn' = [sentOn EXCEPT ![d] = IF u = None THEN None ELSE [conn |-> u, data |-> None]]
    BY DEF Lookup, Find, Step
  <1>2. u \in Datagrams \cup {None} /\ IP(d) \in IPs
    BY IPType DEF BedrockTypes
  <1>3. u # None => [conn |-> u, data |-> None] \in Records
    BY <1>2, ContentsHeld DEF Records
  <1>4. Busy(d)
    BY <1>1 DEF Busy, Idle
  <1> HIDE DEF u
  <1>5. OwnStep(d)
    BY <1>1, <1>4 DEF OwnStep, BedrockTypes, startVars
  <1>6. BedrockTypes'
    <2>1. sentOn' \in [Datagrams -> Records \cup {None}]
      BY <1>1, <1>3 DEF BedrockTypes
    <2> QED
      BY <1>1, <1>3, <2>1 DEF BedrockTypes, startVars
  <1>7. Alone(d)'
    <2>1. \/ serve'[d] = "dial" /\ sentOn'[d] = None
          \/ serve'[d] = "write"
      BY <1>1 DEF BedrockTypes
    <2> QED
      BY <1>1, <1>4, <2>1 DEF Alone, Busy, Idle
  <1>8. MapHolds'
    <2>1. \A e \in Datagrams : sentOn'[e] # None \/ serve'[e] = "write" =>
             IP(sentOn'[e].conn) = IP(e) /\ replier[sentOn'[e].conn] # "none"
      <3>1. u # None => IP(u) = IP(d) /\ replier[u] # "none"
        BY <1>2 DEF MapHolds, u
      <3> QED
        BY <1>1, <3>1 DEF MapHolds, BedrockTypes
    <2>2. \A e \in Datagrams : serve'[e] \in {"dial", "store"} /\ IP(e) \notin contended
             => upstream[IP(e)] = None
      BY <1>1 DEF MapHolds, BedrockTypes, u
    <2> QED
      BY <1>1, <2>1, <2>2 DEF MapHolds
  <1> QED
    BY <1>5, <1>6, <1>7, <1>8, OthersAlone

LEMMA DialInv ==
    ASSUME BedrockInv, NEW d \in Datagrams, Dial(d)
    PROVE  BedrockInv'
  <1> USE DEF BedrockInv
  <1>1. /\ UNCHANGED <<startVars, buf, upstream, sentOn, pong, replier, disturbed, contended>>
        /\ serve[d] = "dial" /\ serve' = [serve EXCEPT ![d] = "store"]
    BY DEF Dial, Step
  <1>2. OwnStep(d)
    BY <1>1 DEF OwnStep, Busy, Idle, BedrockTypes, startVars
  <1>3. BedrockTypes'
    BY <1>1 DEF BedrockTypes, startVars
  <1>4. Alone(d)'
    <2>1. serve'[d] = "store" /\ Busy(d)
      BY <1>1 DEF BedrockTypes, Busy, Idle
    <2> QED
      BY <1>1, <2>1 DEF Alone, Busy, Idle
  <1>5. MapHolds'
    BY <1>1 DEF MapHolds, BedrockTypes
  <1> QED
    BY <1>2, <1>3, <1>4, <1>5, OthersAlone

LEMMA StoreInv ==
    ASSUME BedrockInv, NEW d \in Datagrams, Store(d)
    PROVE  BedrockInv'
  <1> USE DEF BedrockInv
  <1>1. /\ UNCHANGED <<startVars, buf, pong, disturbed, contended>>
        /\ serve[d] = "store" /\ serve' = [serve EXCEPT ![d] = "write"]
        /\ upstream' = [upstream EXCEPT ![IP(d)] = d]
        /\ sentOn' = [sentOn EXCEPT ![d] = [conn |-> d, data |-> None]]
        /\ replier' = [replier EXCEPT ![d] = "running"]
    BY DEF Store, Step
  <1>2. [conn |-> d, data |-> None] \in Records /\ IP(d) \in IPs
    BY ContentsHeld, IPType DEF Records
  <1>3. OwnStep(d)
    BY <1>1 DEF OwnStep, Busy, Idle, BedrockTypes, startVars
  <1>4. BedrockTypes'
    BY <1>1, <1>2 DEF BedrockTypes, startVars
  <1>5. Alone(d)'
    <2>1. serve'[d] = "write" /\ Busy(d)
      BY <1>1 DEF BedrockTypes, Busy, Idle
    <2> QED
      BY <1>1, <2>1 DEF Alone, Busy, Idle
  <1>6. MapHolds'
    <2>1. \A e \in Datagrams : replier'[e] # "none" \/ replier'[e] = replier[e]
      BY <1>1 DEF BedrockTypes
    <2>2. \A ip \in IPs : upstream'[ip] # None =>
             IP(upstream'[ip]) = ip /\ replier'[upstream'[ip]] # "none"
      BY <1>1, <2>1 DEF MapHolds, BedrockTypes
    <2>3. \A e \in Datagrams : sentOn'[e] # None \/ serve'[e] = "write" =>
             IP(sentOn'[e].conn) = IP(e) /\ replier'[sentOn'[e].conn] # "none"
      <3>1. sentOn'[d] = [conn |-> d, data |-> None] /\ replier'[d] # "none"
        BY <1>1 DEF BedrockTypes
      <3>2. ASSUME NEW e \in Datagrams, e # d, sentOn'[e] # None \/ serve'[e] = "write"
            PROVE  IP(sentOn'[e].conn) = IP(e) /\ replier'[sentOn'[e].conn] # "none"
        <4>1. sentOn'[e] = sentOn[e] /\ serve'[e] = serve[e] /\ sentOn[e].conn \in Datagrams
          BY <1>1, <3>2 DEF BedrockTypes, Records
        <4> QED
          BY <2>1, <3>2, <4>1 DEF MapHolds
      <3> QED
        BY <3>1, <3>2
    <2>4. \A e \in Datagrams : serve'[e] \in {"dial", "store"} /\ IP(e) \notin contended
             => upstream'[IP(e)] = None
      <3> SUFFICES ASSUME NEW e \in Datagrams, serve'[e] \in {"dial", "store"},
                          IP(e) \notin contended
                   PROVE  upstream'[IP(e)] = None
        OBVIOUS
      <3>1. e # d /\ serve[e] = serve'[e]
        BY <1>1 DEF BedrockTypes
      <3>2. Busy(e) /\ Busy(d)
        BY <1>1, <3>1 DEF Busy, Idle
      <3>3. IP(e) # IP(d)
        BY <3>1, <3>2 DEF Met
      <3> QED
        BY <1>1, <3>1, <3>3, IPType DEF MapHolds, BedrockTypes
    <2> QED
      BY <1>1, <2>2, <2>3, <2>4 DEF MapHolds
  <1> QED
    BY <1>3, <1>4, <1>5, <1>6, OthersAlone

LEMMA ForwardInv ==
    ASSUME BedrockInv, NEW d \in Datagrams, Forward(d)
    PROVE  BedrockInv'
  <1> USE DEF BedrockInv
  <1>1. /\ UNCHANGED <<startVars, buf, upstream, pong, replier, disturbed, contended>>
        /\ serve[d] = "write" /\ serve' = [serve EXCEPT ![d] = "done"]
    BY DEF Forward, Step
  <1>2. PICK seen \in Seen(d) : sentOn' = [sentOn EXCEPT ![d].data = seen]
    BY DEF Forward
  <1>3. Busy(d) /\ sentOn[d] \in Records
    BY <1>1 DEF Busy, Idle, BedrockTypes
  <1>4. seen \in Contents /\ (d \notin disturbed => seen = d)
    BY <1>1, <1>3, SeenType
  <1>5. /\ sentOn'[d] \in Records /\ sentOn'[d].data = seen /\ sentOn'[d].conn = sentOn[d].conn
        /\ \A e \in Datagrams : e # d => sentOn'[e] = sentOn[e]
    BY <1>2, <1>3, <1>4 DEF BedrockTypes, Records
  <1>6. OwnStep(d)
    BY <1>1, <1>3, <1>5 DEF OwnStep, BedrockTypes, startVars
  <1>7. BedrockTypes'
    <2>1. sentOn' \in [Datagrams -> Records \cup {None}]
      BY <1>2, <1>5 DEF BedrockTypes
    <2> QED
      BY <1>1, <1>5, <2>1 DEF BedrockTypes, startVars, Idle
  <1>8. Alone(d)'
    <2>1. serve'[d] = "done"
      BY <1>1 DEF BedrockTypes
    <2> QED
      BY <1>1, <1>4, <1>5, <2>1 DEF Alone, Busy, Idle
  <1>9. MapHolds'
    <2>1. IP(sentOn'[d].conn) = IP(d) /\ replier[sentOn'[d].conn] # "none"
      BY <1>1, <1>5 DEF MapHolds
    <2> QED
      BY <1>1, <1>5, <2>1 DEF MapHolds, BedrockTypes
  <1> QED
    BY <1>6, <1>7, <1>8, <1>9, OthersAlone

LEMMA ReplyEndsInv ==
    ASSUME BedrockInv, NEW d \in Datagrams, ReplyEnds(d)
    PROVE  BedrockInv'
  <1>1. /\ UNCHANGED <<files, buf, serve, upstream, sentOn, pong, disturbed, contended>>
        /\ replier' = [replier EXCEPT ![d] = "ended"]
    BY DEF ReplyEnds, startVars
  <1>2. BedrockTypes' /\ Met' /\ \A e \in Datagrams : Alone(e)'
    BY <1>1 DEF BedrockInv, BedrockTypes, Met, Alone, Busy
  <1>3. \A e \in Datagrams : replier[e] # "none" => replier'[e] # "none"
    BY <1>1 DEF BedrockInv, BedrockTypes
  <1>4. \A e \in Datagrams : sentOn[e] # None \/ serve[e] = "write" => sentOn[e].conn \in Datagrams
    BY DEF BedrockInv, BedrockTypes, Records
  <1>5. \A ip \in IPs : upstream[ip] # None => upstream[ip] \in Datagrams
    BY DEF BedrockInv, BedrockTypes
  <1>6. MapHolds'
    BY <1>1, <1>3, <1>4, <1>5 DEF BedrockInv, MapHolds
  <1> QED
    BY <1>2, <1>6 DEF BedrockInv

BedrockStep(d) == ReadFrom(d) \/ Serve(d) \/ ReplyEnds(d)

LEMMA BedrockKeepsJava ==
    ASSUME NEW d, BedrockStep(d) \/ MapRace
    PROVE  UNCHANGED <<startVars, javaVars>> /\ (crashed' = crashed \/ crashed' = TRUE)
  BY DEF BedrockStep, Serve, ReadFrom, ReadId, PingUnreadable, WritePong, SendPong, Lookup, Find, Dial, DialFails,
         Store, Forward, ReplyEnds, MapRace, Crash

LEMMA BedrockSteps ==
    ASSUME StartInv, BedrockInv, JavaInv, NEW d \in Datagrams, BedrockStep(d)
    PROVE  StartInv' /\ BedrockInv' /\ JavaInv'
  <1>1. StartInv'
    BY BedrockKeepsJava, StartKept DEF StartInv
  <1>2. JavaInv'
    BY BedrockKeepsJava, JavaKept DEF startVars
  <1>3. DialFails(d) => BedrockInv'
    BY BedrockKept DEF DialFails, startVars
  <1>4. BedrockInv'
    BY <1>3, ReadFromInv, ReadIdInv, PingUnreadableInv, WritePongInv, SendPongInv, LookupInv, DialInv, StoreInv,
       ForwardInv, ReplyEndsInv DEF BedrockStep, Serve
  <1> QED
    BY <1>1, <1>2, <1>4

-----------------------------------------------------------------------------
(* Java.                                                                    *)

JavaStep ==
    \/ \E c \in Conns : Connect(c) \/ ServeConn(c)
    \/ \E c \in Conns, s \in Sides : PeerLeaves(c, s) \/ PipeWriteFails(c, s)

LEMMA JavaKeepsBedrock ==
    ASSUME JavaStep
    PROVE  UNCHANGED <<startVars, bedrockVars>> /\ (crashed' = crashed \/ crashed' = TRUE)
  BY DEF JavaStep, Connect, ServeConn, Accept, Reads, ReadPacketData, ReadFails, ConnectToServer,
         NoServer, PeerLeaves, PipeReadFails, PipeWriteFails, EndPipe, Crash

\* The connection in the loop's hands moves on, and stays in them or leaves.
LEMMA OneServed ==
    ASSUME JavaInv, NEW c \in Conns,
           conn[c] \in {"reading", "connecting", "no_server", "proxied"}
    PROVE  javaLoop = "busy" /\ Served = {c}
  BY DEF JavaInv, Served

LEMMA JavaEnters ==
    ASSUME JavaInv, NEW c \in Conns, Connect(c) \/ Accept(c)
    PROVE  JavaInv'
  <1>1. CASE Connect(c)
    <2>1. Served' = Served
      BY <1>1 DEF Connect, Stage, Served, JavaInv
    <2> QED
      BY <1>1, <2>1 DEF Connect, Stage, startVars, JavaInv
  <1>2. CASE Accept(c)
    <2>1. Served' = {c}
      BY <1>2 DEF Accept, Stage, Served, JavaInv
    <2> QED
      BY <1>2, <2>1 DEF Accept, Stage, startVars, JavaInv
  <1> QED
    BY <1>1, <1>2

LEMMA JavaMoves ==
    ASSUME JavaInv, NEW c \in Conns,
           \/ \E came \in Pieces : ReadPacketData(c, came)
           \/ ConnectToServer(c) \/ NoServer(c)
    PROVE  JavaInv'
  <1>1. conn[c] \in {"reading", "connecting"} /\ UNCHANGED <<startVars, javaLoop>>
    BY DEF ReadPacketData, ConnectToServer, NoServer, Stage
  <1>2. Served' = Served
    BY DEF ReadPacketData, ConnectToServer, NoServer, Stage, Served, JavaInv
  <1>3. hs' \in [Conns -> Pieces] /\ gone' = gone /\ shut' = shut
    BY DEF ReadPacketData, ConnectToServer, NoServer, JavaInv
  <1>4. pipe' = pipe \/ (ConnectToServer(c) /\ pipe' = pipe \cup {<<c, "client">>, <<c, "server">>})
    BY DEF ReadPacketData, ConnectToServer, NoServer
  <1>5. pipe' \subseteq Conns \X Sides
    BY <1>4 DEF JavaInv, Sides
  <1>6. \A e \in Conns : <<e, "client">> \in pipe' => conn'[e] = "proxied"
    <2> SUFFICES ASSUME NEW e \in Conns, <<e, "client">> \in pipe' PROVE conn'[e] = "proxied"
      OBVIOUS
    <2>1. CASE e = c
      <3>1. ConnectToServer(c)
        BY <1>1, <1>4, <2>1 DEF JavaInv
      <3> QED
        BY <2>1, <3>1 DEF ConnectToServer, Stage, JavaInv
    <2>2. CASE e # c
      <3>1. <<e, "client">> \in pipe
        BY <1>4, <2>2
      <3>2. conn'[e] = conn[e]
        BY <2>2 DEF ReadPacketData, ConnectToServer, NoServer, Stage, JavaInv
      <3> QED
        BY <3>1, <3>2 DEF JavaInv
    <2> QED
      BY <2>1, <2>2
  <1>7. conn' \in [Conns -> {"absent", "backlog", "reading", "connecting", "no_server",
                              "proxied", "dropped", "done"}]
    BY DEF ReadPacketData, ConnectToServer, NoServer, Stage, JavaInv
  <1> QED
    BY <1>1, <1>2, <1>3, <1>5, <1>6, <1>7 DEF startVars, JavaInv

\* Whatever ends a connection frees the loop.
LEMMA JavaFrees ==
    ASSUME JavaInv, NEW c \in Conns,
           ReadFails(c) \/ \E s \in Sides : PipeReadFails(c, s) \/ PipeWriteFails(c, s)
    PROVE  JavaInv'
  <1>1. CASE ReadFails(c)
    <2>1. conn[c] = "reading" /\ conn' = [conn EXCEPT ![c] = "dropped"]
      BY <1>1 DEF ReadFails, Stage
    <2>2. Served' = {}
      BY <2>1, OneServed DEF Served, JavaInv
    <2>3. gone' \subseteq Conns \X Sides
      BY <1>1 DEF ReadFails, JavaInv, Sides
    <2>4. run \notin {"configs", "listen"}
      BY <2>1, OneServed DEF JavaInv
    <2> QED
      BY <1>1, <2>1, <2>2, <2>3, <2>4 DEF ReadFails, startVars, JavaInv
  <1>2. ASSUME NEW s \in Sides, NEW closes \in Sides, EndPipe(c, s, closes) PROVE JavaInv'
    <2>1. pipe' = pipe \ {<<c, s>>} /\ shut' = shut \cup {<<c, closes>>}
          /\ UNCHANGED <<startVars, hs, gone>>
      BY <1>2 DEF EndPipe
    <2>2. pipe' \subseteq Conns \X Sides /\ shut' \subseteq Conns \X Sides
      BY <2>1 DEF JavaInv
    <2>3. CASE s = "client"
      <3>1. conn[c] = "proxied" /\ conn' = [conn EXCEPT ![c] = "done"] /\ javaLoop' = "accept"
        BY <1>2, <2>3 DEF EndPipe, Stage
      <3>2. Served' = {}
        BY <3>1, OneServed DEF Served, JavaInv
      <3>3. run \notin {"configs", "listen"}
        BY <3>1, OneServed DEF JavaInv
      <3>4. \A e \in Conns : <<e, "client">> \in pipe' => conn'[e] = "proxied"
        BY <2>1, <2>3, <3>1 DEF JavaInv
      <3> QED
        BY <2>1, <2>2, <3>1, <3>2, <3>3, <3>4 DEF startVars, JavaInv
    <2>4. CASE s # "client"
      <3>1. UNCHANGED <<javaLoop, conn>>
        BY <1>2, <2>4 DEF EndPipe
      <3>2. Served' = Served
        BY <3>1 DEF Served
      <3> QED
        BY <2>1, <2>2, <3>1, <3>2 DEF startVars, JavaInv
    <2> QED
      BY <2>3, <2>4
  <1>3. \A s \in Sides : Other(s) \in Sides
    BY DEF Other, Sides
  <1> QED
    BY <1>1, <1>2, <1>3 DEF PipeReadFails, PipeWriteFails

LEMMA JavaSteps ==
    ASSUME StartInv, BedrockInv, JavaInv, JavaStep
    PROVE  StartInv' /\ BedrockInv' /\ JavaInv'
  <1>1. StartInv'
    BY JavaKeepsBedrock, StartKept DEF StartInv
  <1>2. BedrockInv'
    BY JavaKeepsBedrock, BedrockKept DEF startVars
  <1>3. ASSUME NEW c \in Conns, NEW s \in Sides, PeerLeaves(c, s) PROVE JavaInv'
    <2>1. gone' \subseteq Conns \X Sides /\ Served' = Served
      BY <1>3 DEF PeerLeaves, JavaInv, Served
    <2> QED
      BY <1>3, <2>1 DEF PeerLeaves, startVars, JavaInv
  <1>4. JavaInv'
    BY <1>3, JavaEnters, JavaMoves, JavaFrees DEF JavaStep, ServeConn, Reads, Pieces
  <1> QED
    BY <1>1, <1>2, <1>4

-----------------------------------------------------------------------------

AllInv == StartInv /\ BedrockInv /\ JavaInv

LEMMA AllStep == AllInv /\ [Next]_vars => AllInv'
  <1> SUFFICES ASSUME AllInv, [Next]_vars PROVE AllInv'
    OBVIOUS
  <1> USE DEF AllInv
  <1>1. CASE UNCHANGED vars
    BY <1>1, StartKept, BedrockKept, JavaKept DEF vars, startVars, StartInv
  <1>2. CASE RunStep
    BY <1>2, RunSteps
  <1>3. ASSUME NEW d \in Datagrams, BedrockStep(d) PROVE AllInv'
    BY <1>3, BedrockSteps
  <1>4. CASE MapRace
    BY <1>4, BedrockKeepsJava, StartKept, BedrockKept, JavaKept DEF MapRace, startVars, StartInv
  <1>5. CASE JavaStep
    BY <1>5, JavaSteps
  <1> QED
    BY <1>1, <1>2, <1>3, <1>4, <1>5 DEF Next, RunStep, BedrockStep, JavaStep

LEMMA AllInit == Init => AllInv
  BY StartInit, BedrockInit, JavaInit DEF AllInv

\* The experimental proxy's values keep their types; its Java loop is busy with
\* exactly one connection, and Run serves every file of its directory or has
\* failed for a bad one or an unreadable directory (server.go 25-49, 133-140).
THEOREM ExperimentalTypes == Spec => []TypeOK
  <1>1. AllInv => TypeOK
    <2> SUFFICES ASSUME AllInv PROVE TypeOK
      OBVIOUS
    <2>1. javaLoop = "busy" <=>
             Cardinality({c \in Conns : conn[c] \in {"reading", "connecting", "no_server", "proxied"}}) = 1
      <3>1. javaLoop = "busy" => Cardinality(Served) = 1
        BY FS_Singleton DEF AllInv, JavaInv
      <3>2. javaLoop # "busy" => Cardinality(Served) = 0
        BY FS_EmptySet DEF AllInv, JavaInv
      <3> QED
        BY <3>1, <3>2 DEF Served
    <2>2. sentOn \in [Datagrams -> [conn : Datagrams, data : Contents] \cup {None}]
      BY DEF AllInv, BedrockInv, BedrockTypes, Records
    <2> QED
      BY <2>1, <2>2 DEF AllInv, StartInv, BedrockInv, BedrockTypes, JavaInv, TypeOK
  <1> QED
    BY <1>1, AllInit, AllStep, PTL DEF Spec

\* A datagram that met no other one in the loop's buffer is passed on as it came;
\* as a ping it is answered with its own time, or with nothing when it is too short,
\* however many goroutines there are (server.go 71-77, 114-125).
THEOREM PacketsStayIntact == Spec => []PacketsIntact
  <1>1. AllInv => PacketsIntact
    BY DEF AllInv, BedrockInv, Alone, PacketsIntact
  <1> QED
    BY <1>1, AllInit, AllStep, PTL DEF Spec

\* Whatever goroutines race for the map, what an IP sends goes over a connection
\* that this IP opened and for whose replies a goroutine was started, which may have
\* ended with a failed Read (server.go 92-107).
THEOREM RepliesFindTheirIP == Spec => []AnswersToSameIP
  <1>1. AllInv => AnswersToSameIP
    BY DEF AllInv, BedrockInv, MapHolds, AnswersToSameIP
  <1> QED
    BY <1>1, AllInit, AllStep, PTL DEF Spec

\* An IP keeps its connection as long as its datagrams are served one at a time
\* (server.go 92-95).
THEOREM UpstreamIsKept == Spec => KeptUpstream
  <1>1. AllInv /\ [Next]_vars =>
           [\A ip \in IPs :
              upstream[ip] # None /\ ip \notin contended => upstream'[ip] = upstream[ip]]_vars
    <2> SUFFICES ASSUME AllInv, Next, NEW ip \in IPs, upstream[ip] # None, ip \notin contended
                 PROVE  upstream'[ip] = upstream[ip]
      OBVIOUS
    <2>1. ASSUME NEW d \in Datagrams, BedrockStep(d) PROVE upstream'[ip] = upstream[ip]
      <3>1. CASE Store(d)
        <4>1. IP(d) # ip
          BY <3>1 DEF Store, Step, AllInv, BedrockInv, MapHolds
        <4> QED
          BY <3>1, <4>1 DEF Store, AllInv, BedrockInv, BedrockTypes
      <3>2. CASE ~Store(d)
        BY <2>1, <3>2 DEF BedrockStep, Serve, ReadFrom, ReadId, PingUnreadable, WritePong, SendPong, Lookup, Find,
                          Dial, DialFails, Forward, ReplyEnds, bedrockVars
      <3> QED
        BY <3>1, <3>2
    <2>2. CASE JavaStep \/ MapRace \/ RunStep
      BY <2>2, JavaKeepsBedrock
         DEF MapRace, RunStep, ReadBedrockConfigs, ReadJavaConfigs, ListenFails, ListenPacketFails,
             CreateBedrockListener, bedrockVars
    <2> QED
      BY <2>1, <2>2 DEF Next, RunStep, BedrockStep, JavaStep
  <1> QED
    BY <1>1, AllInit, AllStep, PTL DEF Spec, KeptUpstream
=============================================================================
