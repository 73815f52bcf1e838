---------------------------- MODULE SpeedyProxy ----------------------------
(***************************************************************************)
(* The speedy mode (proxy.go): one accept loop, a semaphore, and for every *)
(* connection a goroutine that runs FullRun (basic.go) on the catalog the  *)
(* loop had when it accepted, with APIServer (server.go) as the server.    *)
(* The catalog is loaded once, by Start, and an error of that load is      *)
(* ignored.                                                                *)
(*                                                                         *)
(* ServerToAPIConfig builds online servers without status cache or limiter *)
(* only; ApiConfigs may hold every configuration NewAPIServer takes, so    *)
(* that each branch of ConnAction and ProcessServer is taken.  What the    *)
(* limiter answers is left open here (BotFilter has its rules, for one     *)
(* caller at a time).  A client talks, at any pace, until it falls silent  *)
(* or leaves; a packet it may have sent is read or not read yet.           *)
(***************************************************************************)
EXTENDS Naturals, Sequences, FiniteSets

CONSTANTS
    Conns,         \* connections followed (a bound)
    Slots,         \* capacity of maxConnParallelProcessing
    Addresses,     \* domains, as a file writes them or a client asks for them
    Lower,         \* strings.ToLower on them
    Files,         \* what cfgReader returns: [domains, api]
    NoServer,
    NilCatalog

ApiConfigs == [isOnline: BOOLEAN, useStatusCache: BOOLEAN, limitBots: BOOLEAN]

ASSUME SpeedyAssumption ==
    /\ IsFiniteSet(Conns)
    /\ Slots \in Nat \ {0}
    /\ Lower \in [Addresses -> Addresses]
    /\ \A f \in Files : f.domains \subseteq Addresses /\ f.api \in ApiConfigs
    /\ NoServer \notin Files

\* What a client may ask for.  The others are not understood: an unknown next
\* state, a login that does not parse, and a handshake or a login whose string
\* has a negative length, on which ReadNBytes panics.
Requests ==
    [type: {"status", "login"}, addr: Addresses]
        \cup [type: {"other", "malformed login", "negative host", "negative name"}, addr: {"any"}]

NoRequest == [type |-> "none", addr |-> "any"]

VARIABLES
    catalog,    \* p.serverCatalog
    loop,       \* the accept loop
    claims,     \* what is in maxConnParallelProcessing
    crashed,    \* a panic or fatal error has ended the process
    stage,      \* where each connection is
    request,    \* what its client asks for
    client,     \* what its client does
    swallowed,  \* a ping was taken by the buffered reader of ReadStuff
    open,       \* the proxy has not closed the connection
    deadline,   \* the connection has a deadline
    dialing,    \* ProxyConnection is about to call CreateConn
    reply,      \* what FullRun has decided on
    answers     \* packets written to the client

clientVars == <<request, client>>
connVars == <<swallowed, open, deadline, dialing, reply, answers>>
vars == <<catalog, loop, claims, crashed, stage, clientVars, connVars>>

Unknown == [packet |-> "none", ping |-> FALSE, close |-> FALSE]

(* ReloadServerCatalog: a domain that two files list goes to the later one. *)
Catalogs ==
    {servers \in [Addresses -> Files \cup {NoServer}] :
        \A a \in Addresses :
            LET listing == {f \in Files : a \in f.domains}
            IN  IF listing = {} THEN servers[a] = NoServer ELSE servers[a] \in listing}

Init ==
    /\ catalog \in Catalogs \cup {NilCatalog}
    /\ loop = "accepting" /\ claims = 0 /\ crashed = FALSE
    /\ stage = [c \in Conns |-> "absent"]
    /\ request = [c \in Conns |-> NoRequest]
    /\ client = [c \in Conns |-> "talking"]
    /\ swallowed = [c \in Conns |-> FALSE]
    /\ open = [c \in Conns |-> TRUE]
    /\ deadline = [c \in Conns |-> FALSE]
    /\ dialing = [c \in Conns |-> FALSE]
    /\ reply = [c \in Conns |-> Unknown]
    /\ answers = [c \in Conns |-> <<>>]

Find(addr) == catalog[Lower[addr]]

-----------------------------------------------------------------------------
(* Clients.                                                                 *)

Connect(c) ==
    /\ stage[c] = "absent" /\ loop # "stopped"
    /\ stage' = [stage EXCEPT ![c] = "backlog"]
    /\ UNCHANGED <<catalog, loop, claims, crashed, clientVars, connVars>>

\* What it does after its run is over makes no difference.
ClientStops(c, how) ==
    /\ stage[c] \notin {"absent", "done", "collected"}
    /\ client[c] # "gone" /\ client[c] # how
    /\ client' = [client EXCEPT ![c] = how]
    /\ UNCHANGED <<catalog, loop, claims, crashed, stage, request, connVars>>

-----------------------------------------------------------------------------
(* The accept loop.  Only one connection is between Accept and the claim.   *)

Accept(c) ==
    /\ loop = "accepting"
    /\ stage[c] = "backlog"
    /\ loop' = "claiming"
    /\ stage' = [stage EXCEPT ![c] = "accepted"]
    /\ UNCHANGED <<catalog, claims, crashed, clientVars, connVars>>

\* The goroutine's first act is ReadStuff's SetDeadline.
Claim(c) ==
    /\ stage[c] = "accepted"
    /\ claims < Slots
    /\ claims' = claims + 1
    /\ loop' = "accepting"
    /\ stage' = [stage EXCEPT ![c] = "handshake"]
    /\ deadline' = [deadline EXCEPT ![c] = TRUE]
    /\ UNCHANGED <<catalog, crashed, clientVars, swallowed, open, dialing, reply, answers>>

ListenerCloses ==
    /\ loop = "accepting"
    /\ loop' = "stopped"
    /\ UNCHANGED <<catalog, claims, crashed, stage, clientVars, connVars>>

\* Mutation: a run that returns early keeps its claim.
Unclaim_ErrorsKeep(c) ==
    /\ stage[c] = "returned"
    /\ claims' = IF reply[c] = Unknown THEN claims ELSE claims - 1
    /\ stage' = [stage EXCEPT ![c] = "done"]
    /\ UNCHANGED <<catalog, loop, crashed, clientVars, connVars>>

Unclaim(c) ==
    /\ stage[c] = "returned"
    /\ claims' = claims - 1
    /\ stage' = [stage EXCEPT ![c] = "done"]
    /\ UNCHANGED <<catalog, loop, crashed, clientVars, connVars>>

-----------------------------------------------------------------------------
(* ReadStuff.                                                               *)

Crash ==
    /\ crashed' = TRUE
    /\ UNCHANGED <<catalog, loop, claims, stage, connVars>>

\* What the handshake asks for is settled when it is read.
ReadHandshake(c, r) ==
    /\ stage[c] = "handshake" /\ client[c] = "talking"
    /\ r.type # "negative host"
    /\ request' = [request EXCEPT ![c] = r]
    /\ stage' = [stage EXCEPT ![c] = IF r.type = "other" THEN "returned" ELSE "second"]
    /\ UNCHANGED <<catalog, loop, claims, crashed, client, connVars>>

HandshakePanics(c, r) ==
    /\ stage[c] = "handshake" /\ client[c] = "talking"
    /\ r.type = "negative host"
    /\ request' = [request EXCEPT ![c] = r]
    /\ Crash
    /\ UNCHANGED client

ReadSecond(c) ==
    /\ stage[c] = "second" /\ client[c] = "talking"
    /\ request[c].type # "negative name"
    /\ deadline' = [deadline EXCEPT ![c] = FALSE]
    /\ \E early \in {FALSE, request[c].type = "status"} : swallowed' = [swallowed EXCEPT ![c] = early]
    /\ stage' = [stage EXCEPT
          ![c] = IF request[c].type = "malformed login" THEN "returned" ELSE "lookup"]
    /\ UNCHANGED <<catalog, loop, claims, crashed, clientVars, open, dialing, reply, answers>>

SecondPanics(c) ==
    /\ stage[c] = "second" /\ client[c] = "talking"
    /\ request[c].type = "negative name"
    /\ Crash
    /\ UNCHANGED clientVars

\* Too slow, or the client has left.  The connection is not closed.
ReadFails(c) ==
    /\ stage[c] \in {"handshake", "second"}
    /\ deadline[c] \/ client[c] = "gone"
    /\ stage' = [stage EXCEPT ![c] = "returned"]
    /\ UNCHANGED <<catalog, loop, claims, crashed, clientVars, connVars>>

-----------------------------------------------------------------------------
(* FullRun after ReadStuff.                                                 *)

LookupPanics(c) ==
    /\ stage[c] = "lookup" /\ catalog = NilCatalog
    /\ Crash
    /\ UNCHANGED clientVars

ServerFound(c) ==
    /\ stage[c] = "lookup" /\ catalog # NilCatalog
    /\ Find(request[c].addr) # NoServer
    /\ stage' = [stage EXCEPT ![c] = "deciding"]
    /\ UNCHANGED <<catalog, loop, claims, crashed, clientVars, connVars>>

\* Mutation: SendResponse does not bound its read.
Respond_NoDeadline(c, packet, ping, close) ==
    /\ stage' = [stage EXCEPT ![c] = "answering"]
    /\ reply' = [reply EXCEPT ![c] = [packet |-> packet, ping |-> ping, close |-> close]]
    /\ UNCHANGED <<open, dialing, deadline>>

\* SendResponse first sets a deadline.
Respond(c, packet, ping, close) ==
    /\ stage' = [stage EXCEPT ![c] = "answering"]
    /\ reply' = [reply EXCEPT ![c] = [packet |-> packet, ping |-> ping, close |-> close]]
    /\ deadline' = [deadline EXCEPT ![c] = TRUE]
    /\ UNCHANGED <<open, dialing>>

CloseAtOnce(c) ==
    /\ stage' = [stage EXCEPT ![c] = "returned"]
    /\ reply' = [reply EXCEPT ![c] = [packet |-> "none", ping |-> FALSE, close |-> TRUE]]
    /\ open' = [open EXCEPT ![c] = FALSE]
    /\ UNCHANGED <<deadline, dialing>>

\* Mutation: every unknown domain gets the default status, a login too.
NoServerFound_AnyType(c) ==
    /\ stage[c] = "lookup" /\ catalog # NilCatalog
    /\ Find(request[c].addr) = NoServer
    /\ Respond(c, "default status", TRUE, FALSE)
    /\ UNCHANGED <<catalog, loop, claims, crashed, clientVars, swallowed, answers>>

\* The default status goes out on a connection nobody closes afterwards.
NoServerFound(c) ==
    /\ stage[c] = "lookup" /\ catalog # NilCatalog
    /\ Find(request[c].addr) = NoServer
    /\ IF request[c].type = "status"
       THEN Respond(c, "default status", TRUE, FALSE)
       ELSE CloseAtOnce(c)
    /\ UNCHANGED <<catalog, loop, claims, crashed, clientVars, swallowed, answers>>

\* APIServer.ConnAction; the limiter lets every status request pass.
ConnAction(api, type, allowed) ==
    CASE api.limitBots /\ ~allowed -> "VERIFY_CONN"
      [] ~api.isOnline -> IF type = "status" THEN "STATUS" ELSE "CLOSE"
      [] type = "status" /\ api.useStatusCache -> "STATUS"
      [] OTHER -> "PROXY"

\* A proxied connection gets a goroutine of its own, so the semaphore bounds
\* the processing and not the proxied connections.  VERIFY_CONN is answered
\* with a packet nobody filled in.
ProcessServer(c, allowed) ==
    LET action == ConnAction(Find(request[c].addr).api, request[c].type, allowed)
    IN  /\ stage[c] = "deciding"
        /\ request[c].type = "status" => allowed
        /\ CASE action = "PROXY" ->
                  /\ stage' = [stage EXCEPT ![c] = "returned"]
                  /\ dialing' = [dialing EXCEPT ![c] = TRUE]
                  /\ reply' = [reply EXCEPT ![c].packet = "proxy"]
                  /\ UNCHANGED <<open, deadline>>
             [] action = "STATUS" -> Respond(c, "status", TRUE, TRUE)
             [] action = "VERIFY_CONN" -> Respond(c, "empty", FALSE, TRUE)
             [] action = "CLOSE" -> CloseAtOnce(c)
        /\ UNCHANGED <<catalog, loop, claims, crashed, clientVars, swallowed, answers>>

\* proxyTo is never set, so the dial fails and the client is left alone.
CreateConn(c) ==
    /\ dialing[c]
    /\ dialing' = [dialing EXCEPT ![c] = FALSE]
    /\ UNCHANGED <<catalog, loop, claims, crashed, stage, clientVars, swallowed, open, deadline, reply, answers>>

-----------------------------------------------------------------------------
(* SendResponse.                                                            *)

\* The deferred Close of ProcessServer runs when SendResponse has returned.
Return(c) ==
    /\ stage' = [stage EXCEPT ![c] = "returned"]
    /\ open' = [open EXCEPT ![c] = ~reply[c].close]

WritePacket(c) ==
    /\ stage[c] = "answering"
    /\ answers' = [answers EXCEPT ![c] = Append(@, reply[c].packet)]
    /\ IF reply[c].ping
       THEN stage' = [stage EXCEPT ![c] = "pinging"] /\ UNCHANGED open
       ELSE Return(c)
    /\ UNCHANGED <<catalog, loop, claims, crashed, clientVars, swallowed, deadline, dialing, reply>>

Pong(c) ==
    /\ stage[c] = "pinging" /\ client[c] = "talking" /\ ~swallowed[c]
    /\ answers' = [answers EXCEPT ![c] = Append(@, "pong")]
    /\ Return(c)
    /\ UNCHANGED <<catalog, loop, claims, crashed, clientVars, swallowed, deadline, dialing, reply>>

SendFails(c) ==
    /\ stage[c] \in {"answering", "pinging"}
    /\ deadline[c] \/ client[c] = "gone"
    /\ Return(c)
    /\ UNCHANGED <<catalog, loop, claims, crashed, clientVars, swallowed, deadline, dialing, reply, answers>>

-----------------------------------------------------------------------------
(* A connection no goroutine refers to is closed when the runtime collects  *)
(* it.                                                                      *)
Collect(c) ==
    /\ stage[c] = "done" /\ open[c] /\ ~dialing[c]
    /\ stage' = [stage EXCEPT ![c] = "collected"]
    /\ open' = [open EXCEPT ![c] = FALSE]
    /\ UNCHANGED <<catalog, loop, claims, crashed, clientVars, swallowed, deadline, dialing, reply, answers>>

Serve(c) ==
    \/ (\E r \in Requests : ReadHandshake(c, r) \/ HandshakePanics(c, r))
    \/ ReadSecond(c) \/ SecondPanics(c) \/ ReadFails(c)
    \/ LookupPanics(c) \/ ServerFound(c) \/ NoServerFound(c)
    \/ \E allowed \in BOOLEAN : ProcessServer(c, allowed)
    \/ WritePacket(c) \/ Pong(c) \/ SendFails(c)
    \/ Unclaim(c)

Client(c) == Connect(c) \/ (\E how \in {"silent", "gone"} : ClientStops(c, how))

Next ==
    /\ ~crashed
    /\ \/ ListenerCloses
       \/ \E c \in Conns :
             Client(c) \/ Accept(c) \/ Claim(c) \/ Serve(c) \/ CreateConn(c) \/ Collect(c)

Spec == Init /\ [][Next]_vars

(* The loop and the goroutines run; a deadline that is set passes, which is *)
(* what makes ReadFails and SendFails part of what is bound to happen.      *)
(* Nothing is assumed of clients, of the listener or of the runtime.        *)
FairSpec ==
    /\ Spec
    /\ WF_vars(~crashed /\ \E c \in Conns : Accept(c) \/ Claim(c))
    /\ \A c \in Conns : WF_vars(~crashed /\ Serve(c))

-----------------------------------------------------------------------------
(* Properties.                                                              *)

Stages == {"absent", "backlog", "accepted", "handshake", "second", "lookup", "deciding",
           "answering", "pinging", "returned", "done", "collected"}
Running == {"handshake", "second", "lookup", "deciding", "answering", "pinging", "returned"}

\* Types of what the loop and the goroutines hold; the semaphore holds one claim
\* for each goroutine that runs, however its run ends, and never more than its
\* capacity (proxy.go 44-60).
TypeOK ==
    /\ catalog \in Catalogs \cup {NilCatalog}
    /\ loop \in {"accepting", "claiming", "stopped"}
    /\ claims \in 0..Cardinality(Conns) /\ crashed \in BOOLEAN
    /\ stage \in [Conns -> Stages]
    /\ request \in [Conns -> Requests \cup {NoRequest}]
    /\ client \in [Conns -> {"talking", "silent", "gone"}]
    /\ \A f \in {swallowed, open, deadline, dialing} : f \in [Conns -> BOOLEAN]
    /\ reply \in [Conns -> [packet: {"none", "proxy", "status", "default status", "empty"},
                            ping: BOOLEAN, close: BOOLEAN]]
    /\ \A c \in Conns : answers[c] \in Seq({"status", "default status", "empty", "pong"})
    /\ claims = Cardinality({c \in Conns : stage[c] \in Running})
    /\ claims <= Slots

\* ProcessRequest (basic.go 24-43), which decides without a connection: the
\* packet a request is to be answered with.
ProcessRequest(r, allowed) ==
    IF Find(r.addr) = NoServer
    THEN IF r.type = "status" THEN "default status" ELSE "none"
    ELSE CASE ConnAction(Find(r.addr).api, r.type, allowed) = "STATUS" -> "status"
           [] ConnAction(Find(r.addr).api, r.type, allowed) = "VERIFY_CONN" -> "verify"
           [] OTHER -> "none"

\* FullRun writes the packet ProcessRequest names, once and followed by at most
\* one pong after a status, and nothing to anyone else; a login to be verified
\* gets an empty packet in its place (basic.go 24-43 against 121-160).
AnswersAsProcessRequest ==
    \A c \in Conns :
        answers[c] # <<>> =>
            \E allowed \in BOOLEAN :
                LET packet == ProcessRequest(request[c], allowed)
                IN  CASE packet \in {"status", "default status"} ->
                            answers[c] \in {<<packet>>, <<packet, "pong">>}
                      [] packet = "verify" -> answers[c] = <<"empty">>
                      [] OTHER -> FALSE

\* When a run is over its connection is closed, except when the request could
\* not be read, was handed to a proxy goroutine, or got the default status
\* (basic.go 121-160): no other path forgets to close.
ClosedWhenDone ==
    \A c \in Conns :
        stage[c] = "done" /\ open[c] =>
            \/ reply[c] = Unknown
            \/ reply[c].packet \in {"proxy", "default status"}

\* The deadline that bounded the reading is off when a connection is proxied, or
\* players would be cut off after five seconds (basic.go 46 and 74).
NoDeadlineOnProxied ==
    \A c \in Conns : reply[c].packet = "proxy" => ~deadline[c]

\* A process ends only because its catalog was never loaded or because a client
\* has sent a string of negative length: whatever else clients send and however
\* they stop, no answer is decided from a lookup that failed or an action that
\* has no packet (proxy.go 32, basic.go 57 and 85, 121-160).
PanicsExplained ==
    crashed =>
        \/ catalog = NilCatalog
        \/ \E c \in Conns : request[c].type \in {"negative host", "negative name"}

\* What FullRun leaves behind, whatever clients send and whenever they stop.
RunsEndWell ==
    AnswersAsProcessRequest /\ ClosedWhenDone /\ NoDeadlineOnProxied /\ PanicsExplained

\* A client that waits to be served is, even when every slot is taken by a client
\* that has fallen silent (proxy.go 44, basic.go 46 and 101).
BacklogServed ==
    \A c \in Conns :
        stage[c] \in {"backlog", "accepted"} ~>
            stage[c] \notin {"backlog", "accepted"} \/ crashed \/ loop = "stopped"
=============================================================================
