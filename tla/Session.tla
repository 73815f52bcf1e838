------------------------------ MODULE Session ------------------------------
(***************************************************************************)
(* One client connection in worker mode, from the worker that takes it     *)
(* (worker/worker.go, ProcessConnection) through ProcessServer and the     *)
(* goroutine it starts (basic.go) to the two pipes between client and      *)
(* server, with what the backend (worker/backend.go) answers on the way.   *)
(*                                                                         *)
(* A TCP connection is what its peer has sent and whether either end has   *)
(* closed it; a packet or a read's worth of bytes is a count.  A pipe is   *)
(* named for the side it reads from.  Other clients act on this one only   *)
(* through the state agent, whose answer may be renewed or go stale at any *)
(* time.  Not here: a server that accepts and stays silent, which holds    *)
(* the whole backend up (status_cache.go:67).                              *)
(***************************************************************************)
EXTENDS Naturals

CONSTANTS
    Client, Server,
    CacheStatus,         \* cfg.CacheStatus: the backend has a status cache
    RealIP,              \* cfg.OldRealIp or NewRealIP: it has an HsModifier
    SendProxyProtocol,   \* cfg.SendProxyProtocol
    MaxSent              \* how much each peer sends (a bound)

Sides == {Client, Server}
Other(s) == IF s = Client THEN Server ELSE Client

ASSUME SessionAssumption ==
    /\ Client # Server
    /\ CacheStatus \in BOOLEAN /\ RealIP \in BOOLEAN /\ SendProxyProtocol \in BOOLEAN
    /\ MaxSent \in Nat

VARIABLES
    stage,      \* how far the connection has come
    kind,       \* the type of its request
    deadline,   \* the client connection has a deadline
    up,         \* the server accepts connections
    known,      \* the state agent's answer
    fresh,      \* ... is not older than its cooldown
    sent,       \* by each peer
    taken,      \* ... and read from its connection by the proxy
    hand,       \* in a pipe's buffer
    delivered,  \* written to the other peer's connection
    gone,       \* the peer has closed its end
    closed,     \* the proxy has closed its end
    pipe        \* what each pipe does

backendVars == <<up, known, fresh>>
relayVars == <<sent, taken, hand, delivered, gone, closed, pipe>>
vars == <<stage, kind, deadline, backendVars, relayVars>>

Init ==
    /\ stage = "reading" /\ kind = "none" /\ deadline = TRUE
    /\ up \in BOOLEAN
    /\ known = "unknown" /\ fresh = FALSE
    /\ sent = [s \in Sides |-> 0] /\ taken = [s \in Sides |-> 0]
    /\ hand = [s \in Sides |-> 0] /\ delivered = [s \in Sides |-> 0]
    /\ gone = [s \in Sides |-> FALSE] /\ closed = [s \in Sides |-> FALSE]
    /\ pipe = [s \in Sides |-> "none"]

-----------------------------------------------------------------------------
(* The peers.  A client may send at any time, a server once it is reached.  *)

Reached(s) == s = Client \/ stage = "proxied"

PeerSends(s) ==
    /\ Reached(s) /\ ~gone[s] /\ ~closed[s]
    /\ sent[s] < MaxSent
    /\ sent' = [sent EXCEPT ![s] = @ + 1]
    /\ UNCHANGED <<stage, kind, deadline, backendVars, taken, hand, delivered, gone, closed, pipe>>

PeerLeaves(s) ==
    /\ Reached(s) /\ ~gone[s]
    /\ gone' = [gone EXCEPT ![s] = TRUE]
    /\ UNCHANGED <<stage, kind, deadline, backendVars, sent, taken, hand, delivered, closed, pipe>>

ServerGoesUpOrDown ==
    /\ up' = ~up
    /\ UNCHANGED <<stage, kind, deadline, known, fresh, relayVars>>

CooldownEnds ==
    /\ fresh
    /\ fresh' = FALSE
    /\ UNCHANGED <<stage, kind, deadline, up, known, relayVars>>

-----------------------------------------------------------------------------
(* The worker: ReadConnection, Find.                                        *)

\* Mutation: the deadline is not taken off the connection.
ReadRequest_KeepsDeadline(type, n) ==
    /\ stage = "reading"
    /\ n \in 2..sent[Client]
    /\ stage' = "looking" /\ kind' = type
    /\ taken' = [taken EXCEPT ![Client] = n]
    /\ UNCHANGED <<deadline, backendVars, sent, hand, delivered, gone, closed, pipe>>

\* Two packets are parsed; the buffered reader may have taken more.
ReadRequest(type, n) ==
    /\ stage = "reading"
    /\ n \in 2..sent[Client]
    /\ stage' = "looking" /\ kind' = type /\ deadline' = FALSE
    /\ taken' = [taken EXCEPT ![Client] = n]
    /\ UNCHANGED <<backendVars, sent, hand, delivered, gone, closed, pipe>>

\* Too slow, closed, not a handshake, or a malformed login after the deadline is
\* off: the worker logs it and goes on; nobody closes the connection.
ReadFails ==
    /\ stage = "reading"
    /\ stage' = "dropped" /\ deadline' \in BOOLEAN
    /\ UNCHANGED <<kind, backendVars, relayVars>>

\* A string of negative length panics in either packet's parser, and a worker's
\* goroutine does not recover: the process ends.
ReadPanics ==
    /\ stage = "reading" /\ sent[Client] > 0
    /\ stage' = "panicked" /\ deadline' \in BOOLEAN
    /\ UNCHANGED <<kind, backendVars, relayVars>>

ServerFound ==
    /\ stage = "looking"
    /\ stage' = "asking"
    /\ UNCHANGED <<kind, deadline, backendVars, relayVars>>

NoServerFound ==
    /\ stage = "looking"
    /\ stage' = "dropped"
    /\ UNCHANGED <<kind, deadline, backendVars, relayVars>>

-----------------------------------------------------------------------------
(* The backend.  McServerState.State probes when its answer is stale;       *)
(* HandleRequest then decides.  A status cache that fails gives the offline *)
(* status, a status packet all the same; the limiter refuses logins only, and   *)
(* none gets here.                                                          *)

Probe ==
    /\ known' = IF fresh THEN known ELSE IF up THEN "online" ELSE "offline"
    /\ fresh' = TRUE
    /\ UNCHANGED up

Answer(type, state) ==
    IF state = "offline"
    THEN IF type = "status" THEN "SendStatus" ELSE "Disconnect"
    ELSE IF CacheStatus /\ type = "status" THEN "SendStatus" ELSE "Proxy"

\* BackendServer.HandleRequest sends {Type: mc.Status} whatever it was given,
\* without an address, on which HsModifier.Modify panics.
Asked == Answer("status", known')
Panics == RealIP /\ Asked = "Proxy"

\* Both answers it can get, Proxy and SendStatus, become PROXY; ProcessServer
\* starts ProxyConnection and the worker is done.
ConnAction ==
    /\ stage = "asking"
    /\ Probe
    /\ stage' = IF Panics THEN "panicked" ELSE "accepted"
    /\ UNCHANGED <<kind, deadline, relayVars>>

\* CreateConn asks again and goes on only with Proxy.
CreateConn ==
    /\ stage = "accepted"
    /\ Probe
    /\ stage' = IF Panics THEN "panicked"
                ELSE IF Asked = "Proxy" THEN "dialing" ELSE "dropped"
    /\ UNCHANGED <<kind, deadline, relayVars>>

Dial ==
    /\ stage = "dialing" /\ up
    /\ stage' = "proxied"
    /\ pipe' = [s \in Sides |-> "read"]
    /\ UNCHANGED <<kind, deadline, backendVars, sent, taken, hand, delivered, gone, closed>>

\* The dial fails, or the write of the PROXY header after it (its source address
\* is the missing one; what the library makes of that is left open).
DialFails ==
    /\ stage = "dialing"
    /\ ~up \/ SendProxyProtocol
    /\ stage' = "dropped"
    /\ UNCHANGED <<kind, deadline, backendVars, relayVars>>

-----------------------------------------------------------------------------
(* The pipes: read from s, write to the other side, and when either fails   *)
(* close the other side.                                                    *)

Expires(s) == s = Client /\ deadline

Read(s, n) ==
    /\ pipe[s] = "read" /\ ~closed[s]
    /\ n \in 1..(sent[s] - taken[s])
    /\ taken' = [taken EXCEPT ![s] = @ + n]
    /\ hand' = [hand EXCEPT ![s] = n]
    /\ pipe' = [pipe EXCEPT ![s] = "write"]
    /\ UNCHANGED <<stage, kind, deadline, backendVars, sent, delivered, gone, closed>>

\* Mutation: a peer that has left is not read to the end.
ReadEnds_Unread(s) ==
    /\ pipe[s] = "read"
    /\ closed[s] \/ Expires(s) \/ gone[s]
    /\ pipe' = [pipe EXCEPT ![s] = "over"]
    /\ UNCHANGED <<stage, kind, deadline, backendVars, sent, taken, hand, delivered, gone, closed>>

ReadEnds(s) ==
    /\ pipe[s] = "read"
    /\ closed[s] \/ Expires(s) \/ (gone[s] /\ taken[s] = sent[s])
    /\ pipe' = [pipe EXCEPT ![s] = "over"]
    /\ UNCHANGED <<stage, kind, deadline, backendVars, sent, taken, hand, delivered, gone, closed>>

Write(s) ==
    /\ pipe[s] = "write" /\ ~closed[Other(s)]
    /\ delivered' = [delivered EXCEPT ![s] = @ + hand[s]]
    /\ hand' = [hand EXCEPT ![s] = 0]
    /\ pipe' = [pipe EXCEPT ![s] = "read"]
    /\ UNCHANGED <<stage, kind, deadline, backendVars, sent, taken, gone, closed>>

WriteFails(s) ==
    /\ pipe[s] = "write"
    /\ closed[Other(s)] \/ Expires(Other(s)) \/ gone[Other(s)]
    /\ pipe' = [pipe EXCEPT ![s] = "over"]
    /\ UNCHANGED <<stage, kind, deadline, backendVars, sent, taken, hand, delivered, gone, closed>>

\* Mutation: a pipe closes the connection it read from.
CloseOther_Own(s) ==
    /\ pipe[s] = "over"
    /\ closed' = [closed EXCEPT ![s] = TRUE]
    /\ pipe' = [pipe EXCEPT ![s] = "done"]
    /\ UNCHANGED <<stage, kind, deadline, backendVars, sent, taken, hand, delivered, gone>>

CloseOther(s) ==
    /\ pipe[s] = "over"
    /\ closed' = [closed EXCEPT ![Other(s)] = TRUE]
    /\ pipe' = [pipe EXCEPT ![s] = "done"]
    /\ UNCHANGED <<stage, kind, deadline, backendVars, sent, taken, hand, delivered, gone>>

Reads(s) == \E n \in 1..MaxSent : Read(s, n)
Moves(s) == Reads(s) \/ ReadEnds(s) \/ Write(s) \/ WriteFails(s) \/ CloseOther(s)

Environment ==
    \/ \E s \in Sides : PeerSends(s) \/ PeerLeaves(s)
    \/ ServerGoesUpOrDown
    \/ CooldownEnds

Handling ==
    \/ \E type \in {"status", "login"}, n \in 2..MaxSent : ReadRequest(type, n)
    \/ ReadFails \/ ReadPanics
    \/ ServerFound \/ NoServerFound
    \/ ConnAction \/ CreateConn \/ Dial \/ DialFails

Next == Environment \/ Handling \/ \E s \in Sides : Moves(s)

Spec == Init /\ [][Next]_vars

(* The pipes are goroutines that run.  That a write ends, one way or the    *)
(* other, takes a peer that reads or leaves.                                *)
FairSpec == Spec /\ \A s \in Sides : WF_vars(Moves(s))

-----------------------------------------------------------------------------
(* Properties.                                                              *)

\* Types of what one connection's goroutines hold.
TypeOK ==
    /\ stage \in {"reading", "looking", "asking", "accepted", "dialing",
                  "proxied", "dropped", "panicked"}
    /\ kind \in {"none", "status", "login"}
    /\ deadline \in BOOLEAN /\ up \in BOOLEAN /\ fresh \in BOOLEAN
    /\ known \in {"unknown", "online", "offline"}
    /\ sent \in [Sides -> 0..MaxSent] /\ taken \in [Sides -> 0..MaxSent]
    /\ hand \in [Sides -> 0..MaxSent] /\ delivered \in [Sides -> 0..MaxSent]
    /\ gone \in [Sides -> BOOLEAN] /\ closed \in [Sides -> BOOLEAN]
    /\ pipe \in [Sides -> {"none", "read", "write", "over", "done"}]

\* The proxy never cuts off two peers that both stay: it closes a proxied
\* connection only after a peer has left (the deadline of ReadConnection, worker.go
\* 146 and 170, must not outlive it; pipe, basic.go 181).
NoSpuriousClose ==
    (\E s \in Sides : closed[s]) => \E s \in Sides : gone[s]

\* Last words: when the pipe from s is the first to give up while the other peer
\* is still there, everything s sent has been written to that peer (basic.go
\* 168-176: the last packet of a server that kicks a player).
LastWords ==
    [][\A s \in Sides :
          LET o == Other(s)
          IN  closed'[o] /\ ~closed[o] /\ ~gone[o] /\ pipe[o] \in {"read", "write"} =>
                  taken[s] = sent[s] /\ hand[s] = 0]_vars

\* Once a peer of a proxied connection has left, both connections get closed:
\* no half-open pair stays (the tests "Closing client will close server" and
\* "Closing server will close client").
EndTogether ==
    \A s \in Sides :
        stage = "proxied" /\ gone[s] ~> \A t \in Sides : closed[t]

\* The test "can proxy connection": the server gets the client's handshake and
\* second packet before anything else.
NothingSwallowed ==
    stage = "proxied" /\ pipe[Client] = "read" => delivered[Client] = taken[Client]
=============================================================================
