--------------------------- MODULE MCExperimental ---------------------------
(* Two clients with an address each; one uses a second port, the other also   *)
(* sends a ping that is too short.                                            *)
EXTENDS Experimental, TLC

CONSTANTS d1, d2, d3, d4, ip1, ip2, p1, p2, c1, c2

MCFrom == d1 :> <<ip1, p1>> @@ d2 :> <<ip1, p2>> @@ d3 :> <<ip2, p2>> @@ d4 :> <<ip2, p2>>
MCTo == d1 :> "be" @@ d2 :> "be" @@ d3 :> "be" @@ d4 :> "be"

File(kind, valid, listenTo, proxyTo) ==
    [kind |-> kind, valid |-> valid, listenTo |-> listenTo, proxyTo |-> proxyTo]

Bedrock == "be" :> File("bedrock", TRUE, "port", TRUE)
Java == "java" :> File("java", TRUE, "port", TRUE)
Main == "main" :> File("main", TRUE, "port", FALSE)
Good2 == Bedrock @@ Java @@ Main

Missing == "dir" :> File("unreadable", FALSE, "none", FALSE)

\* Three datagrams; two connections; two datagrams and a connection; a datagram and
\* a short ping; a bad Java file; Bedrock files that fail, or panic; no directory.
MCCases ==
    {[files |-> Bedrock, clients |-> {d1, d2, d3}],
     [files |-> Java, clients |-> Conns],
     [files |-> Good2, clients |-> {d1, d3, c1}],
     [files |-> Bedrock, clients |-> {d2, d4}],
     [files |-> Bedrock @@ "java" :> File("java", TRUE, "port", FALSE), clients |-> {d1, d3}],
     [files |-> Java @@ "be" :> File("bedrock", TRUE, "odd_port", TRUE), clients |-> Conns],
     [files |-> Java @@ "be" :> File("bedrock", TRUE, "no_port", TRUE), clients |-> Conns],
     [files |-> Missing, clients |-> Conns]}
=============================================================================
