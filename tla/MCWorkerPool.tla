---------------------------- MODULE MCWorkerPool ----------------------------
(* Instances of WorkerPool for TLC.                                         *)
EXTENDS WorkerPool, TLC

CONSTANTS f1, f2, d1, d2, D2

\* D2 is d2 written with capitals.
LowerCase(d) == IF d = D2 THEN d2 ELSE d

AllLayouts == {cfgSet \in [Ids -> Config \cup {NoConfig}] : VerifyConfigs(cfgSet)}

\* f2 takes over d2 from f1, and lists it a second time with capitals.
DomainsOf == f1 :> {d1, d2} @@ f2 :> {d2, D2}

FixedLayouts ==
    {cfgSet \in AllLayouts :
        \A id \in Present(cfgSet) : cfgSet[id].domains = DomainsOf[id]}

Symmetry == Permutations(Backends) \cup Permutations(Goroutines)
=============================================================================
