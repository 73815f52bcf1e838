---------------------------- MODULE Experimental ----------------------------
(***************************************************************************)
(* The experimental proxy (src/server.go, src/config.go): one process with *)
(* a UDP loop for each Bedrock file and one TCP loop for all Java files.   *)
(*                                                                         *)
(* Bedrock: every datagram is served by a goroutine of its own, which      *)
(* looks at the loop's one buffer (server.go:71) while the loop may        *)
(* already read the next datagram into it, and at one map of upstream      *)
(* connections by IP (server.go:19), without a lock.  A datagram stands    *)
(* for the goroutine that serves it; an upstream connection is named by    *)
(* the datagram that opened it.                                            *)
(*                                                                         *)
(* Java: connections are served one after the other, and a failure is      *)
(* noticed when the nil connection it left is used.  Not here: a file      *)
(* whose listenTo is the proxy's own address, as Servers holds listenTo    *)
(* and not proxyTo (server.go:45): the proxy then waits for itself.        *)
(***************************************************************************)
EXTENDS FiniteSets, Naturals

CONSTANTS
    Datagrams, Ports, IPs,    \* clients: an address is an IP and a port
    From,                     \* Datagrams -> IPs \X Ports
    To,                       \* Datagrams -> the Bedrock file it is sent to
    Pings,                    \* datagrams with the number of an unconnected ping
    Short,                    \* datagrams with too few bytes for one
    Conns,                    \* Java connections
    Cases,                    \* configuration files and who sends something
    None, Mixed, Trimmed

\* config.go: what tells a file's fate.  The walk itself fails at an unreadable
\* entry: the directory, when it is missing, or one in it.
FileTypes == [kind : {"bedrock", "java", "main", "other", "unreadable"}, valid : BOOLEAN,
              listenTo : {"none", "no_port", "odd_port", "port"}, proxyTo : BOOLEAN]

ASSUME ExperimentalAssumption ==
    /\ IsFiniteSet(Datagrams) /\ IsFiniteSet(Conns)
    /\ From \in [Datagrams -> IPs \X Ports]
    /\ Pings \subseteq Datagrams /\ Short \subseteq Datagrams
    /\ \A k \in Cases : /\ k = [files |-> k.files, clients |-> k.clients]
                       /\ k.clients \subseteq Datagrams \cup Conns
                       /\ \A f \in DOMAIN k.files : k.files[f] \in FileTypes
    /\ None \notin Datagrams /\ Mixed \notin Datagrams

IP(d) == From[d][1]

VARIABLES
    files,      \* the configuration directory
    clients,    \* the datagrams and connections that come
    run,        \* of Run: "configs", "listen", "up", "failed" (it returned an error)
    serving,    \* the Bedrock files with a loop
    javaLoop,   \* the TCP loop: "none", "accept", "busy", "failed"
    crashed,
    \* Bedrock
    buf,        \* what each loop's buffer holds: a datagram, or <<"pong", d>>
    serve,      \* how far each datagram's goroutine is
    upstream,   \* connections: IP -> the datagram that opened it
    sentOn,     \* for each datagram passed on, its connection and what was sent
    pong,       \* for each ping, whose time the pong had
    replier,    \* of each connection, the goroutine that writes replies to the
                \* address of the datagram that opened it
    disturbed,  \* (history) datagrams served while their buffer was in use
    contended,  \* (history) IPs with two datagrams served at the same time
    \* Java
    conn,       \* how far each connection is
    hs,         \* what came in of its handshake with the first Read
    gone,       \* peers that closed their end
    shut,       \* ends the proxy has closed
    pipe        \* the running pipes, by the side they read

startVars == <<files, clients, run, serving>>
bedrockVars == <<buf, serve, upstream, sentOn, pong, replier, disturbed, contended>>
javaVars == <<javaLoop, conn, hs, gone, shut, pipe>>
vars == <<startVars, crashed, bedrockVars, javaVars>>

Sides == {"client", "server"}
Other(s) == IF s = "client" THEN "server" ELSE "client"

Init ==
    /\ \E k \in Cases : files = k.files /\ clients = k.clients
    /\ run = "configs" /\ serving = {} /\ javaLoop = "none" /\ crashed = FALSE
    /\ buf = [f \in DOMAIN files |-> None]
    /\ serve = [d \in Datagrams |-> "absent"]
    /\ upstream = [ip \in IPs |-> None]
    /\ sentOn = [d \in Datagrams |-> None] /\ pong = [d \in Datagrams |-> None]
    /\ replier = [d \in Datagrams |-> "none"] /\ disturbed = {} /\ contended = {}
    /\ conn = [c \in Conns |-> "absent"] /\ hs = [c \in Conns |-> "none"]
    /\ gone = {} /\ shut = {} /\ pipe = {}

-----------------------------------------------------------------------------
(* Run.                                                                     *)

Alive == ~crashed /\ run # "failed"

Crash == crashed' = TRUE

\* ReadBedrockConfigs, ReadJavaConfigs: the files of a kind; one bad file fails all.
FilesOf(kind) == {f \in DOMAIN files : files[f].kind = kind}
Loads(f) == files[f].valid /\ files[f].listenTo # "none" /\ files[f].proxyTo
Good(f) == Loads(f) /\ (files[f].kind = "bedrock" => files[f].listenTo = "port")

\* LoadBedrockServerConfig takes what follows the first ':' of listenTo.
LoadPanics(f) == files[f].kind = "bedrock" /\ Loads(f) /\ files[f].listenTo = "no_port"

Unreadable == FilesOf("unreadable") # {}

ReadBedrockConfigs ==
    /\ Alive /\ run = "configs"
    /\ \/ /\ ~Unreadable /\ \A f \in FilesOf("bedrock") : Good(f)
          /\ run' = "listen" /\ UNCHANGED crashed
       \/ /\ Unreadable \/ \E f \in FilesOf("bedrock") : ~Good(f) /\ ~LoadPanics(f)
          /\ run' = "failed" /\ UNCHANGED crashed
       \/ /\ ~Unreadable /\ \E f \in FilesOf("bedrock") : LoadPanics(f)
          /\ Crash /\ UNCHANGED run
    /\ UNCHANGED <<files, clients, serving, bedrockVars, javaVars>>

Unserved == FilesOf("bedrock") \ serving

\* A socket, and a goroutine that serves it while the next one is opened.
CreateBedrockListener(f) ==
    /\ Alive /\ run = "listen" /\ f \in Unserved
    /\ serving' = serving \cup {f}
    /\ UNCHANGED <<files, clients, run, crashed, bedrockVars, javaVars>>

\* The address is taken, or none: log.Panicf.
ListenPacketFails ==
    /\ Alive /\ run = "listen" /\ Unserved # {} /\ Crash
    /\ UNCHANGED <<startVars, bedrockVars, javaVars>>

\* The Bedrock loops run already; the process ends with Run (cmd/main.go:62).
ReadJavaConfigs ==
    /\ Alive /\ run = "listen" /\ Unserved = {}
    /\ IF \A f \in FilesOf("java") : Good(f)
       THEN run' = "up" /\ javaLoop' = "accept"
       ELSE run' = "failed" /\ UNCHANGED javaLoop
    /\ UNCHANGED <<files, clients, serving, crashed, bedrockVars, conn, hs, gone, shut, pipe>>

\* net.Listen fails and nobody looks at the error; Bedrock goes on alone.
ListenFails ==
    /\ Alive /\ run = "up" /\ javaLoop = "accept" /\ \A c \in Conns : conn[c] = "absent"
    /\ javaLoop' = "failed"
    /\ UNCHANGED <<startVars, crashed, bedrockVars, conn, hs, gone, shut, pipe>>

-----------------------------------------------------------------------------
(* Bedrock.                                                                 *)

Idle == {"absent", "done"}
Serving(f) == {d \in Datagrams : To[d] = f /\ serve[d] \notin Idle}

Step(d, from, to) == serve[d] = from /\ serve' = [serve EXCEPT ![d] = to]

\* ReadFrom overwrites the buffer and starts a goroutine.
ReadFrom(d) ==
    LET f == To[d]
    IN  /\ Alive /\ d \in clients /\ f \in serving
        /\ Step(d, "absent", "start")
        /\ buf' = [buf EXCEPT ![f] = d]
        /\ disturbed' = IF Serving(f) = {} THEN disturbed
                        ELSE disturbed \cup Serving(f) \cup {d}
        /\ contended' = IF \E e \in Datagrams : serve[e] \notin Idle /\ IP(e) = IP(d)
                        THEN contended \cup {IP(d)} ELSE contended
        /\ UNCHANGED <<startVars, crashed, upstream, sentOn, pong, replier, javaVars>>

\* What d's goroutine may see in the buffer: a copy in the middle of another.
Seen(d) == {buf[To[d]]} \cup (IF d \in disturbed THEN {Mixed} ELSE {})

\* serve: the number of the packet decides.
ReadId(d) ==
    /\ Alive /\ serve[d] = "start"
    /\ \E seen \in Seen(d) :
          \/ seen \in Pings \cup {Mixed} /\ Step(d, "start", "ping")
          \/ seen \notin Pings /\ Step(d, "start", "lookup")
    /\ UNCHANGED <<startVars, crashed, buf, upstream, sentOn, pong, replier, disturbed,
                   contended, javaVars>>

\* handleUnconnectedPing: pk.Read finds too few bytes; the error goes nowhere.
PingUnreadable(d) ==
    /\ Alive /\ d \in Short /\ Step(d, "ping", "done")
    /\ UNCHANGED <<startVars, crashed, buf, upstream, sentOn, pong, replier, disturbed, contended,
                   javaVars>>

\* The ping is read; the pong is written over it ...
WritePong(d) ==
    /\ Alive /\ d \notin Short /\ Step(d, "ping", "pong")
    /\ \E seen \in Seen(d) : pong' = [pong EXCEPT ![d] = seen]
    /\ buf' = [buf EXCEPT ![To[d]] = <<"pong", d>>]
    /\ UNCHANGED <<startVars, crashed, upstream, sentOn, replier, disturbed, contended, javaVars>>

\* ... and sent from there.
SendPong(d) ==
    /\ Alive /\ Step(d, "pong", "done")
    /\ \E seen \in Seen(d) :
          pong' = [pong EXCEPT ![d] = IF seen = <<"pong", d>> THEN @ ELSE Mixed]
    /\ UNCHANGED <<startVars, crashed, buf, upstream, sentOn, replier, disturbed, contended, javaVars>>

\* connections[ip], read.
Find(d, u) ==
    /\ Alive /\ Step(d, "lookup", IF u = None THEN "dial" ELSE "write")
    /\ sentOn' = [sentOn EXCEPT ![d] = IF u = None THEN None ELSE [conn |-> u, data |-> None]]
    /\ UNCHANGED <<startVars, crashed, buf, upstream, pong, replier, disturbed, contended,
                   javaVars>>

\* Mutation: the key is the port.
Lookup_ByPort(d) ==
    \E e \in Datagrams :
        /\ From[e][2] = From[d][2]
        /\ Find(d, upstream[IP(e)])

\* Mutation: the map is not asked.
Lookup_Never(d) == Find(d, None)

Lookup(d) == Find(d, upstream[IP(d)])

Dial(d) ==
    /\ Alive /\ Step(d, "dial", "store")
    /\ UNCHANGED <<startVars, crashed, buf, upstream, sentOn, pong, replier, disturbed,
                   contended, javaVars>>

\* The error is dropped; the nil connection's first Read ends the process.
DialFails(d) ==
    /\ Alive /\ serve[d] = "dial" /\ Crash
    /\ UNCHANGED <<startVars, bedrockVars, javaVars>>

\* connections[ip], written; the reply goroutine starts.
Store(d) ==
    /\ Alive /\ Step(d, "store", "write")
    /\ upstream' = [upstream EXCEPT ![IP(d)] = d]
    /\ sentOn' = [sentOn EXCEPT ![d] = [conn |-> d, data |-> None]]
    /\ replier' = [replier EXCEPT ![d] = "running"]
    /\ UNCHANGED <<startVars, crashed, buf, pong, disturbed, contended, javaVars>>

\* The runtime may notice a read or write of the map during a write.
MapRace ==
    /\ Alive
    /\ \E d, e \in Datagrams : d # e /\ serve[d] = "store" /\ serve[e] \in {"lookup", "store"}
    /\ Crash
    /\ UNCHANGED <<startVars, bedrockVars, javaVars>>

\* Mutation: what is left of the bytes after the number.
Forward_Rest(d) ==
    /\ Alive /\ Step(d, "write", "done")
    /\ sentOn' = [sentOn EXCEPT ![d].data = Trimmed]
    /\ UNCHANGED <<startVars, crashed, buf, upstream, pong, replier, disturbed, contended,
                   javaVars>>

Forward(d) ==
    /\ Alive /\ Step(d, "write", "done")
    /\ \E seen \in Seen(d) : sentOn' = [sentOn EXCEPT ![d].data = seen]
    /\ UNCHANGED <<startVars, crashed, buf, upstream, pong, replier, disturbed, contended,
                   javaVars>>

\* serverConn.Read fails (nobody listens there): the goroutine ends and the
\* connection stays in the map.
ReplyEnds(d) ==
    /\ Alive /\ replier[d] = "running"
    /\ replier' = [replier EXCEPT ![d] = "ended"]
    /\ UNCHANGED <<startVars, crashed, buf, serve, upstream, sentOn, pong, disturbed, contended,
                   javaVars>>

Serve(d) ==
    \/ ReadId(d) \/ PingUnreadable(d) \/ WritePong(d) \/ SendPong(d) \/ Lookup(d) \/ Dial(d) \/ DialFails(d)
    \/ Store(d) \/ Forward(d)

-----------------------------------------------------------------------------
(* Java.                                                                    *)

Stage(c, from, to) == conn[c] = from /\ conn' = [conn EXCEPT ![c] = to]

Connect(c) ==
    /\ Alive /\ c \in clients /\ javaLoop \in {"accept", "busy"}
    /\ Stage(c, "absent", "backlog")
    /\ UNCHANGED <<startVars, crashed, bedrockVars, javaLoop, hs, gone, shut, pipe>>

\* Mutation: a goroutine of its own for each connection.
Accept_Go(c) ==
    /\ Alive /\ javaLoop \in {"accept", "busy"} /\ Stage(c, "backlog", "reading")
    /\ javaLoop' = "busy"
    /\ UNCHANGED <<startVars, crashed, bedrockVars, hs, gone, shut, pipe>>

Accept(c) ==
    /\ Alive /\ javaLoop = "accept" /\ Stage(c, "backlog", "reading")
    /\ javaLoop' = "busy"
    /\ UNCHANGED <<startVars, crashed, bedrockVars, hs, gone, shut, pipe>>

\* ReadPacketData: one Read.  A client may name a listed domain or another, send
\* the handshake in one piece or two, or leave before it (a length of zero).
\* What is missing reads as zeros.
ReadPacketData(c, came) ==
    /\ Alive /\ Stage(c, "reading", "connecting")
    /\ hs' = [hs EXCEPT ![c] = came]
    /\ UNCHANGED <<startVars, crashed, bedrockVars, javaLoop, gone, shut, pipe>>

\* Mutation: the loop ends with the error.
ReadFails_EndsLoop(c) ==
    /\ Alive /\ Stage(c, "reading", "dropped")
    /\ javaLoop' = "failed" /\ gone' = gone \cup {<<c, "client">>}
    /\ UNCHANGED <<startVars, crashed, bedrockVars, hs, shut, pipe>>

\* The client leaves after the length: the error is logged, conn is not closed.
ReadFails(c) ==
    /\ Alive /\ Stage(c, "reading", "dropped")
    /\ javaLoop' = "accept" /\ gone' = gone \cup {<<c, "client">>}
    /\ UNCHANGED <<startVars, crashed, bedrockVars, hs, shut, pipe>>

\* ServerAddress: the address as it was read is a listed domain.
Listed(c) == hs[c] \in {"whole", "cut_after_address"}

ConnectToServer(c) ==
    /\ Alive /\ Listed(c) /\ Stage(c, "connecting", "proxied")
    /\ pipe' = pipe \cup {<<c, "client">>, <<c, "server">>}
    /\ UNCHANGED <<startVars, crashed, bedrockVars, javaLoop, hs, gone, shut>>

\* Not listed, or nobody listens there: pipe reads from a nil connection.  (Or the
\* length of the address is negative: ReadString panics before.)
NoServer(c) ==
    /\ Alive /\ Stage(c, "connecting", "no_server") /\ Crash
    /\ UNCHANGED <<startVars, bedrockVars, javaLoop, hs, gone, shut, pipe>>

PeerLeaves(c, s) ==
    /\ Alive /\ conn[c] = "proxied" /\ <<c, s>> \notin gone
    /\ gone' = gone \cup {<<c, s>>}
    /\ UNCHANGED <<startVars, crashed, bedrockVars, javaLoop, conn, hs, shut, pipe>>

\* The pipe that reads side s ends and closes the given one; the loop itself runs
\* the pipe that reads the client.
EndPipe(c, s, closes) ==
    /\ Alive /\ <<c, s>> \in pipe
    /\ pipe' = pipe \ {<<c, s>>} /\ shut' = shut \cup {<<c, closes>>}
    /\ IF s = "client" THEN javaLoop' = "accept" /\ Stage(c, "proxied", "done")
       ELSE UNCHANGED <<javaLoop, conn>>
    /\ UNCHANGED <<startVars, crashed, bedrockVars, hs, gone>>

PipeReadFails(c, s) == <<c, s>> \in gone \cup shut /\ EndPipe(c, s, Other(s))

PipeWriteFails(c, s) == <<c, Other(s)>> \in gone \cup shut /\ EndPipe(c, s, Other(s))

Reads(c) ==
    \/ \E came \in {"whole", "cut_in_address", "cut_after_address", "unlisted", "nothing"} :
          ReadPacketData(c, came)
    \/ ReadFails(c)

ServeConn(c) ==
    \/ Accept(c) \/ Reads(c) \/ ConnectToServer(c) \/ NoServer(c)
    \/ \E s \in Sides : PipeReadFails(c, s)

-----------------------------------------------------------------------------

Next ==
    \/ ReadBedrockConfigs \/ ReadJavaConfigs \/ ListenFails \/ ListenPacketFails
    \/ \E f \in DOMAIN files : CreateBedrockListener(f)
    \/ \E d \in Datagrams : ReadFrom(d) \/ Serve(d) \/ ReplyEnds(d)
    \/ MapRace
    \/ \E c \in Conns : Connect(c) \/ ServeConn(c)
    \/ \E c \in Conns, s \in Sides : PeerLeaves(c, s) \/ PipeWriteFails(c, s)

Spec == Init /\ [][Next]_vars

\* The process runs its goroutines.  Nobody makes a client send or leave: it faces
\* no deadline.
FairSpec ==
    /\ Spec
    /\ \A d \in Datagrams : WF_vars(Serve(d))
    /\ \A c \in Conns : WF_vars(Accept(c)) /\ WF_vars(ConnectToServer(c) \/ NoServer(c))
    /\ \A c \in Conns, s \in Sides : WF_vars(PipeReadFails(c, s))

-----------------------------------------------------------------------------

Pieces == {"none", "whole", "cut_in_address", "cut_after_address", "unlisted", "nothing"}
Contents == Datagrams \cup {None, Mixed, Trimmed} \cup ({"pong"} \X Datagrams)

\* Type invariant; the Java loop is busy with exactly one connection, a proxy that
\* is up serves every file of its directory, and one that returned an error had a
\* bad file or an unreadable directory (server.go 25-49, 133-140).
TypeOK ==
    /\ [files |-> files, clients |-> clients] \in Cases /\ run \in {"configs", "listen", "up", "failed"}
    /\ serving \subseteq DOMAIN files
    /\ javaLoop \in {"none", "accept", "busy", "failed"} /\ crashed \in BOOLEAN
    /\ buf \in [DOMAIN files -> Contents]
    /\ serve \in [Datagrams -> Idle \cup {"start", "ping", "pong", "lookup", "dial", "store", "write"}]
    /\ upstream \in [IPs -> Datagrams \cup {None}]
    /\ sentOn \in [Datagrams -> [conn : Datagrams, data : Contents] \cup {None}]
    /\ pong \in [Datagrams -> Contents]
    /\ replier \in [Datagrams -> {"none", "running", "ended"}]
    /\ disturbed \subseteq Datagrams /\ contended \subseteq IPs
    /\ conn \in [Conns -> {"absent", "backlog", "reading", "connecting", "no_server", "proxied",
                            "dropped", "done"}]
    /\ hs \in [Conns -> Pieces]
    /\ gone \subseteq Conns \X Sides /\ shut \subseteq Conns \X Sides /\ pipe \subseteq Conns \X Sides
    /\ javaLoop = "busy" <=>
          Cardinality({c \in Conns : conn[c] \in {"reading", "connecting", "no_server", "proxied"}}) = 1
    /\ run = "up" => /\ serving = FilesOf("bedrock")
                     /\ \A f \in FilesOf("bedrock") \cup FilesOf("java") : Good(f)
    /\ run = "failed" => Unreadable \/ \E f \in FilesOf("bedrock") \cup FilesOf("java") : ~Good(f)

\* server.go:71-77, 114-125: of the datagrams that no other one met in the loop's
\* buffer, a ping that can be read is answered with its own time, one that cannot
\* is neither answered nor passed on, and any other is passed on as it came.
PacketsIntact ==
    \A d \in Datagrams :
        serve[d] = "done" /\ d \notin disturbed =>
            IF d \in Pings THEN sentOn[d] = None /\ pong[d] = IF d \in Short THEN None ELSE d
            ELSE pong[d] = None /\ sentOn[d].data = d

\* server.go:92-107: whatever goroutines race, what an IP sends goes over a
\* connection that this IP opened, and a goroutine was started that writes its
\* replies to that IP.  It need not run any more: a failed Read ends it for good,
\* while the connection stays in the map.
AnswersToSameIP ==
    \A d \in Datagrams :
        sentOn[d] # None => IP(sentOn[d].conn) = IP(d) /\ replier[sentOn[d].conn] # "none"

\* server.go:92-95: an IP keeps its connection, and with it its session on the
\* server, as long as its datagrams are served one at a time; also a connection
\* whose replies nobody reads any more.
KeptUpstream ==
    [][\A ip \in IPs : upstream[ip] # None /\ ip \notin contended => upstream'[ip] = upstream[ip]]_vars

\* In the loop's hands with a client that sends no handshake, or with two peers
\* that stay.
Holds(c) ==
    \/ conn[c] = "reading"
    \/ conn[c] = "proxied" /\ {<<c, s>> : s \in Sides} \cap gone = {}

\* server.go:133-140: a connection that waits is accepted, however those before it
\* end and fail, unless the process ends, or one of them never sends its handshake
\* or never ends: the loop waits for that one, and nothing else can keep it.
BacklogServed ==
    \A c \in Conns :
        conn[c] = "backlog" ~> (conn[c] # "backlog" \/ ~Alive \/ \E e \in Conns : []Holds(e))

=============================================================================
