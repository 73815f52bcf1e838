---------------------------- MODULE GracePeriod ----------------------------
(* What RemoveBackend promises a backend's owner (worker_manager.go 65-83   *)
(* and the comment at backend_manager.go:87), with no maps, channels or     *)
(* queues: once a backend is withdrawn from the catalog and every reader    *)
(* that had found it has let go of it, it may be closed, and not before.    *)
EXTENDS FiniteSets

CONSTANTS Readers, Resources, None

VARIABLES
    published,  \* resources a reader may find
    live,       \* resources in service
    holds       \* what each reader has found and not let go of

vars == <<published, live, holds>>

Init ==
    /\ published = {}
    /\ live = {}
    /\ holds = [p \in Readers |-> None]

Publish(r) ==
    /\ r \notin live
    /\ live' = live \cup {r}
    /\ published' = published \cup {r}
    /\ UNCHANGED holds

Withdraw(r) ==
    /\ r \in published
    /\ published' = published \ {r}
    /\ UNCHANGED <<live, holds>>

Acquire(p, r) ==
    /\ holds[p] = None
    /\ r \in published
    /\ holds' = [holds EXCEPT ![p] = r]
    /\ UNCHANGED <<published, live>>

Release(p) ==
    /\ holds[p] # None
    /\ holds' = [holds EXCEPT ![p] = None]
    /\ UNCHANGED <<published, live>>

Retire(r) ==
    /\ r \in live \ published
    /\ \A p \in Readers : holds[p] # r
    /\ live' = live \ {r}
    /\ UNCHANGED <<published, holds>>

Next ==
    \/ \E r \in Resources : Publish(r) \/ Withdraw(r) \/ Retire(r)
    \/ \E p \in Readers, r \in Resources : Acquire(p, r)
    \/ \E p \in Readers : Release(p)

Spec == Init /\ [][Next]_vars
=============================================================================
