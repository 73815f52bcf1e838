--------------------------- MODULE MCBackendLoop ---------------------------
(* Instances of BackendLoop for TLC: a file over five edits, which move the *)
(* server, rename the backend, and switch the PROXY protocol, the cache,    *)
(* either RealIP and the limiter on and off.                                *)
EXTENDS BackendLoop, TLC

CONSTANTS n1, n2, t1, t2

Plain(name, proxyTo) ==
    [name |-> name, domain |-> n2, proxyTo |-> proxyTo,
     oldRealIP |-> FALSE, newRealIP |-> FALSE, sendProxyProtocol |-> FALSE,
     cacheStatus |-> FALSE, limited |-> FALSE]

Edits ==
    {Plain(n1, t1),
     [Plain(NoName, t2) EXCEPT !.limited = TRUE],
     [Plain(n1, t2) EXCEPT !.sendProxyProtocol = TRUE],
     [Plain(NoName, t1) EXCEPT !.cacheStatus = TRUE, !.oldRealIP = TRUE],
     [Plain(n1, t2) EXCEPT !.newRealIP = TRUE, !.sendProxyProtocol = TRUE]}
=============================================================================
