-------------------------- MODULE WorkerPoolProofs --------------------------
(* Theorems about the worker mode.  BackendManager comes first, for any      *)
(* files, domains, settings, backend instances and config sets; WorkerPool,  *)
(* which extends it and whose proofs rest on these, follows, for any number  *)
(* of workers, goroutines and requests in flight.                            *)
EXTENDS WorkerPool, TLAPS

-----------------------------------------------------------------------------
(* The inductive invariant: types, what each value of pc says about the id  *)
(* in hand, which files the loops have dealt with, and the ownership of the *)
(* running backends.                                                        *)

InHand ==
    /\ pc \in {"idle", "loading"} <=> current = NoId
    /\ pc = "closing" => cfgs[current] = NoConfig
    /\ pc \in {"dropping", "applying"} =>
          target[current] # NoConfig /\ cfgs[current] # NoConfig
    /\ \A id \in Ids : id # current =>
          (cfgs[id] = NoConfig <=> backends[id] = NoBackend)
    /\ current \in Ids => backends[current] # NoBackend

Visited ==
    /\ pc = "idle" => todo = {}
    /\ \A id \in Ids : id \notin todo => (cfgs[id] = NoConfig <=> target[id] = NoConfig)
    /\ pc = "closing" => current \notin todo

Inv == TypeOK /\ InHand /\ Visited /\ BackendsTracked

LEMMA InvInit == Init => Inv
  <1> SUFFICES ASSUME Init PROVE Inv
    OBVIOUS
  <1>1. TypeOK
    BY DEF Init, TypeOK
  <1>2. InHand /\ Visited
    BY MissingKeysAssumption DEF Init, InHand, Visited
  <1>3. BackendsTracked
    BY DEF Init, BackendsTracked, BackendsInUse
  <1> QED
    BY <1>1, <1>2, <1>3 DEF Inv

LEMMA BeginUpdateInv == Inv /\ BeginUpdate => Inv'
  <1> SUFFICES ASSUME Inv, BeginUpdate PROVE Inv'
    OBVIOUS
  <1>1. TypeOK'
    BY LayoutsAssumption DEF Inv, TypeOK, BeginUpdate, Present
  <1>2. InHand'
    BY MissingKeysAssumption DEF Inv, InHand, TypeOK, BeginUpdate
  <1>3. Visited'
    BY DEF Inv, TypeOK, BeginUpdate, Visited, Present
  <1>4. BackendsTracked'
    BY DEF Inv, BackendsTracked, BackendsInUse, BeginUpdate
  <1> QED
    BY <1>1, <1>2, <1>3, <1>4 DEF Inv

LEMMA RemoveConfigInv ==
    ASSUME NEW id \in Ids, Inv, RemoveConfig(id) PROVE Inv'
  <1>1. TypeOK'
    BY DEF Inv, TypeOK, RemoveConfig, RemoveBackend, ToRemove
  <1>2. InHand'
    BY MissingKeysAssumption DEF Inv, TypeOK, InHand, RemoveConfig, ToRemove
  <1>3. Visited'
    BY DEF Inv, TypeOK, Visited, RemoveConfig, ToRemove
  <1>4. BackendsTracked'
    BY DEF Inv, BackendsTracked, BackendsInUse, RemoveConfig
  <1> QED
    BY <1>1, <1>2, <1>3, <1>4 DEF Inv

LEMMA CloseBackendInv == Inv /\ CloseBackend => Inv'
  <1> SUFFICES ASSUME Inv, CloseBackend PROVE Inv'
    OBVIOUS
  <1>0. current \in Ids
    BY DEF Inv, TypeOK, InHand, CloseBackend
  <1>1. TypeOK'
    BY DEF Inv, TypeOK, CloseBackend
  <1>2. InHand'
    BY <1>0, MissingKeysAssumption DEF Inv, TypeOK, InHand, CloseBackend
  <1>3. Visited'
    BY DEF Inv, TypeOK, Visited, CloseBackend
  <1>4. BackendsTracked'
    BY <1>0, MissingKeysAssumption DEF Inv, TypeOK, BackendsTracked, BackendsInUse, CloseBackend
  <1> QED
    BY <1>1, <1>2, <1>3, <1>4 DEF Inv

LEMMA AddConfigInv ==
    ASSUME NEW id \in Ids, NEW b \in Backends, Inv, AddConfig(id, b) PROVE Inv'
  <1>0. target[id] # NoConfig /\ target[id] \in Config
    BY DEF Inv, TypeOK, AddConfig, NextToLoad, ToRemove
  <1>1. TypeOK'
    BY <1>0 DEF Inv, TypeOK, AddConfig, NextToLoad, AddBackend, Config
  <1>2. InHand'
    BY <1>0, MissingKeysAssumption DEF Inv, TypeOK, InHand, AddConfig, NextToLoad
  <1>3. Visited'
    BY <1>0 DEF Inv, TypeOK, Visited, AddConfig, NextToLoad
  <1>4. backends[id] = NoBackend /\ b \notin running
    BY MissingKeysAssumption DEF Inv, InHand, TypeOK, AddConfig, NextToLoad, Unreferenced
  <1>5. BackendsTracked'
    BY <1>4, MissingKeysAssumption DEF Inv, TypeOK, BackendsTracked, BackendsInUse, AddConfig
  <1> QED
    BY <1>1, <1>2, <1>3, <1>5 DEF Inv

LEMMA KeepConfigInv ==
    ASSUME NEW id \in Ids, Inv, KeepConfig(id) PROVE Inv'
  <1>1. TypeOK' /\ InHand' /\ BackendsTracked'
    BY DEF Inv, TypeOK, InHand, BackendsTracked, BackendsInUse, KeepConfig
  <1>2. Visited'
    BY DEF Inv, TypeOK, Visited, KeepConfig, NextToLoad
  <1> QED
    BY <1>1, <1>2 DEF Inv

LEMMA UpdateConfigInv ==
    ASSUME NEW id \in Ids, Inv, UpdateConfig(id) PROVE Inv'
  <1>0. target[id] # NoConfig /\ backends[id] \in Backends
    BY MissingKeysAssumption
       DEF Inv, TypeOK, InHand, UpdateConfig, NextToLoad, ToRemove
  <1>1. TypeOK'
    <2>1. catalog' \in [Domains -> Backends \cup {NoBackend}]
      BY <1>0 DEF Inv, TypeOK, UpdateConfig, AddBackend
    <2>2. domains' \in [Domains -> Ids \cup {NoId}]
      BY DEF Inv, TypeOK, UpdateConfig
    <2> QED
      BY <2>1, <2>2 DEF Inv, TypeOK, UpdateConfig
  <1>2. InHand'
    BY <1>0, MissingKeysAssumption DEF Inv, TypeOK, InHand, UpdateConfig, NextToLoad
  <1>3. Visited'
    BY <1>0 DEF Inv, TypeOK, Visited, UpdateConfig
  <1>4. BackendsTracked'
    BY DEF Inv, BackendsTracked, BackendsInUse, UpdateConfig
  <1> QED
    BY <1>1, <1>2, <1>3, <1>4 DEF Inv

LEMMA DropDomainsInv == Inv /\ DropDomains => Inv'
  <1> SUFFICES ASSUME Inv, DropDomains PROVE Inv'
    OBVIOUS
  <1>1. TypeOK'
    BY DEF Inv, TypeOK, DropDomains, RemoveBackend
  <1>2. InHand' /\ Visited' /\ BackendsTracked'
    BY DEF Inv, TypeOK, InHand, Visited, BackendsTracked, BackendsInUse, DropDomains
  <1> QED
    BY <1>1, <1>2 DEF Inv

LEMMA ApplySettingsInv == Inv /\ ApplySettings => Inv'
  <1> SUFFICES ASSUME Inv, ApplySettings PROVE Inv'
    OBVIOUS
  <1>0. current \in Ids /\ target[current] \in Config
    BY DEF Inv, TypeOK, InHand, ApplySettings
  <1>1. TypeOK'
    BY <1>0 DEF Inv, TypeOK, ApplySettings, Config
  <1>2. InHand'
    BY <1>0, MissingKeysAssumption DEF Inv, TypeOK, InHand, ApplySettings
  <1>3. Visited' /\ BackendsTracked'
    BY DEF Inv, TypeOK, Visited, BackendsTracked, BackendsInUse, ApplySettings
  <1> QED
    BY <1>1, <1>2, <1>3 DEF Inv

LEMMA EndUpdateInv == Inv /\ EndUpdate => Inv'
  BY DEF Inv, TypeOK, InHand, Visited, BackendsTracked, BackendsInUse, EndUpdate

\* One step per operation of the manager.
LEMMA InvStep == Inv /\ [Next]_managerVars => Inv'
  <1> SUFFICES ASSUME Inv, [Next]_managerVars PROVE Inv'
    OBVIOUS
  <1>1. CASE UNCHANGED managerVars
    BY <1>1 DEF managerVars, Inv, TypeOK, InHand, Visited, BackendsTracked, BackendsInUse
  <1>2. CASE Next
    BY <1>2, BeginUpdateInv, RemoveConfigInv, CloseBackendInv, AddConfigInv, KeepConfigInv,
       UpdateConfigInv, DropDomainsInv, ApplySettingsInv, EndUpdateInv DEF Next
  <1> QED
    BY <1>1, <1>2

LEMMA InvAlways == Spec => []Inv
  BY InvInit, InvStep, PTL DEF Spec

\* Update keeps the types of its maps (worker/backend_manager.go 26-34).
THEOREM TypeCorrect == Spec => []TypeOK
<1>1. Inv => TypeOK
  BY DEF Inv
<1> QED
  BY <1>1, InvAlways, PTL

\* Whatever the operator edits between reloads, no backend goroutine leaks and
\* no two configs share one (addConfig, removeConfig).
THEOREM NoBackendLeaks == Spec => []BackendsTracked
<1>1. Inv => BackendsTracked
  BY DEF Inv
<1> QED
  BY <1>1, InvAlways, PTL

\* After every Update the backends are those of the files just read
\* (loadAllConfigs).
THEOREM ReloadMatchesLayout == Spec => []BackendsMatchLayout
<1>1. Inv => BackendsMatchLayout
  BY MissingKeysAssumption DEF Inv, TypeOK, InHand, Visited, BackendsMatchLayout, Present
<1> QED
  BY <1>1, InvAlways, PTL

-----------------------------------------------------------------------------
(* Routes.  With FixedDomains a stored config and the file's new config     *)
(* list the same domains, so the routes are exactly those of the stored     *)
(* configs; BackendsTracked then says where they lead.                      *)

FromLayouts ==
    /\ target \in Layouts \/ \A id \in Ids : target[id] = NoConfig
    /\ \A id \in Ids : cfgs[id] # NoConfig => \E cfgSet \in Layouts : cfgSet[id] = cfgs[id]

RoutesAreCfgs ==
    /\ \A d \in Domains : catalog[d] # NoBackend =>
          \E id \in Ids : cfgs[id] # NoConfig /\ d \in cfgs[id].domains
    /\ \A id \in Ids : cfgs[id] # NoConfig =>
          \A d \in cfgs[id].domains : catalog[d] = backends[id]

RouteInv == Inv /\ FromLayouts /\ RoutesAreCfgs

\* The stored config of a file and the one just read list the same domains.
LEMMA SameDomains ==
    ASSUME FixedDomains, Inv, FromLayouts, NEW id \in Ids,
           cfgs[id] # NoConfig, target[id] # NoConfig
    PROVE  target[id].domains = cfgs[id].domains
  <1>1. target \in Layouts
    BY DEF FromLayouts
  <1>2. PICK cfgSet \in Layouts : cfgSet[id] = cfgs[id]
    BY DEF FromLayouts
  <1> QED
    BY <1>1, <1>2 DEF FixedDomains, Present

\* A file about to be added shares no domain with a stored config: whatever had
\* its domains is gone already.
LEMMA AddedIsDisjoint ==
    ASSUME FixedDomains, Inv, FromLayouts, NEW id \in Ids, NextToLoad(id),
           cfgs[id] = NoConfig, NEW other \in Ids, cfgs[other] # NoConfig
    PROVE  target[id].domains \cap cfgs[other].domains = {}
  <1>1. target[id] # NoConfig /\ target[other] # NoConfig
    BY DEF Inv, Visited, NextToLoad, ToRemove
  <1>2. target \in Layouts
    BY <1>1 DEF FromLayouts
  <1>3. target[id].domains \cap target[other].domains = {}
    BY <1>1, <1>2, LayoutsAssumption DEF VerifyConfigs, Present
  <1> QED
    BY <1>1, <1>3, SameDomains

LEMMA RouteStep == FixedDomains /\ RouteInv /\ [Next]_managerVars => RouteInv'
  <1> SUFFICES ASSUME FixedDomains, RouteInv, [Next]_managerVars
               PROVE  (FromLayouts /\ RoutesAreCfgs)'
    BY InvStep DEF RouteInv
  <1> USE DEF RouteInv
  <1>1. CASE BeginUpdate
    BY <1>1 DEF BeginUpdate, FromLayouts, RoutesAreCfgs
  <1>2. ASSUME NEW id \in Ids, RemoveConfig(id) PROVE (FromLayouts /\ RoutesAreCfgs)'
    <2>1. FromLayouts'
      BY <1>2 DEF RemoveConfig, FromLayouts, Inv, TypeOK
    <2>2. ASSUME NEW other \in Ids, cfgs'[other] # NoConfig
          PROVE  /\ other # id
                 /\ cfgs'[other] = cfgs[other]
                 /\ cfgs[id].domains \cap cfgs[other].domains = {}
      <3>1. other # id /\ cfgs'[other] = cfgs[other]
        BY <1>2, <2>2 DEF RemoveConfig, Inv, TypeOK
      <3>2. cfgs[id] # NoConfig
        BY <1>2, MissingKeysAssumption DEF RemoveConfig, Inv, TypeOK, InHand
      <3>3. backends[id] # backends[other] /\ backends[other] # NoBackend
        BY <1>2, <2>2, <3>1 DEF RemoveConfig, Inv, InHand, TypeOK, BackendsTracked
      <3> QED
        BY <2>2, <3>1, <3>2, <3>3 DEF RoutesAreCfgs
    <2>3. RoutesAreCfgs'
      BY <1>2, <2>2 DEF RemoveConfig, RemoveBackend, RoutesAreCfgs, Inv, TypeOK, Config
    <2> QED
      BY <2>1, <2>3
  <1>3. CASE CloseBackend
    <2>1. \A id \in Ids : cfgs[id] # NoConfig => backends'[id] = backends[id]
      BY <1>3 DEF CloseBackend, Inv, TypeOK, InHand
    <2> QED
      BY <1>3, <2>1 DEF CloseBackend, FromLayouts, RoutesAreCfgs
  <1>4. ASSUME NEW id \in Ids, NEW b \in Backends, AddConfig(id, b)
        PROVE  (FromLayouts /\ RoutesAreCfgs)'
    <2>1. target[id] # NoConfig /\ target \in Layouts
      BY <1>4 DEF AddConfig, NextToLoad, ToRemove, FromLayouts
    <2>2. FromLayouts'
      BY <1>4, <2>1 DEF AddConfig, FromLayouts, Inv, TypeOK
    <2>3. ASSUME NEW other \in Ids, other # id, cfgs[other] # NoConfig
          PROVE  target[id].domains \cap cfgs[other].domains = {}
      BY <1>4, <2>3, AddedIsDisjoint DEF AddConfig
    <2>4. target[id].domains \subseteq Domains
      BY <2>1 DEF Inv, TypeOK, Config
    <2>5. \A d \in Domains : catalog'[d] # NoBackend =>
             \E i \in Ids : cfgs'[i] # NoConfig /\ d \in cfgs'[i].domains
      BY <1>4, <2>1 DEF AddConfig, AddBackend, RoutesAreCfgs, Inv, TypeOK
    <2>6. ASSUME NEW i \in Ids, cfgs'[i] # NoConfig, NEW d \in cfgs'[i].domains
          PROVE  catalog'[d] = backends'[i]
      <3>1. CASE i = id
        BY <1>4, <2>4, <2>6, <3>1 DEF AddConfig, AddBackend, Inv, TypeOK
      <3>2. CASE i # id
        <4>1. cfgs[i] = cfgs'[i] /\ backends[i] = backends'[i]
          BY <1>4, <3>2 DEF AddConfig, Inv, TypeOK
        <4>2. d \in Domains /\ d \notin target[id].domains
          BY <2>3, <2>6, <3>2, <4>1 DEF Inv, TypeOK, Config
        <4> QED
          BY <1>4, <2>6, <4>1, <4>2 DEF AddConfig, AddBackend, RoutesAreCfgs
      <3> QED
        BY <3>1, <3>2
    <2> QED
      BY <2>2, <2>5, <2>6 DEF RoutesAreCfgs
  <1>5. ASSUME NEW id \in Ids, KeepConfig(id) PROVE (FromLayouts /\ RoutesAreCfgs)'
    BY <1>5 DEF KeepConfig, FromLayouts, RoutesAreCfgs
  <1>6. ASSUME NEW id \in Ids, UpdateConfig(id) PROVE (FromLayouts /\ RoutesAreCfgs)'
    <2>1. AddedDomains(id) = {}
      BY <1>6, SameDomains DEF UpdateConfig, NextToLoad, ToRemove, AddedDomains, StoredDomains
    <2>2. catalog' = catalog
      BY <1>6, <2>1 DEF UpdateConfig, AddBackend, Inv, TypeOK
    <2> QED
      BY <1>6, <2>2 DEF UpdateConfig, FromLayouts, RoutesAreCfgs
  <1>7. CASE DropDomains
    <2>1. RemovedDomains(current) = {}
      BY <1>7, SameDomains DEF DropDomains, RemovedDomains, StoredDomains, Inv, InHand, TypeOK
    <2>2. catalog' = catalog
      BY <1>7, <2>1 DEF DropDomains, RemoveBackend, Inv, TypeOK
    <2> QED
      BY <1>7, <2>2 DEF DropDomains, FromLayouts, RoutesAreCfgs
  <1>8. CASE ApplySettings
    BY <1>8 DEF ApplySettings, FromLayouts, RoutesAreCfgs
  <1>9. CASE EndUpdate
    BY <1>9 DEF EndUpdate, FromLayouts, RoutesAreCfgs
  <1>10. CASE UNCHANGED managerVars
    BY <1>10 DEF managerVars, FromLayouts, RoutesAreCfgs
  <1> QED
    BY <1>1, <1>2, <1>3, <1>4, <1>5, <1>6, <1>7, <1>8, <1>9, <1>10 DEF Next

LEMMA RouteInit == Init => RouteInv
  BY InvInit DEF Init, RouteInv, FromLayouts, RoutesAreCfgs

LEMMA RouteAlways == ASSUME FixedDomains PROVE Spec => []RouteInv
  <1>1. RouteInv /\ [Next]_managerVars => RouteInv'
    BY RouteStep
  <1> QED
    BY <1>1, RouteInit, PTL DEF Spec

\* If no file's domain list is edited while the proxy runs, a domain is never
\* routed to a closed backend, not even during a reload (removeConfig and the
\* comment at worker/backend_manager.go:87).
THEOREM NoRouteToClosed == ASSUME FixedDomains PROVE Spec => []RoutesToRunning
<1>1. RouteInv => RoutesToRunning
  BY MissingKeysAssumption DEF RouteInv, Inv, InHand, TypeOK, RoutesAreCfgs, RoutesToRunning,
         BackendsTracked, BackendsInUse
<1> QED
  BY <1>1, RouteAlways, PTL

\* Under the same condition every reload leaves each listed domain routed to the
\* backend of its file and no other domain routed (loadAllConfigs).
THEOREM ReloadRoutesExactly == ASSUME FixedDomains PROVE Spec => []RoutesMatchLayout
<1>1. RouteInv => RoutesMatchLayout
  <2> SUFFICES ASSUME RouteInv, pc = "idle", NEW d \in Domains,
                      NEW owners, owners = {id \in Present(target) : d \in target[id].domains}
               PROVE  IF owners = {} THEN catalog[d] = NoBackend
                                     ELSE \A id \in owners : catalog[d] = backends[id]
    BY DEF RoutesMatchLayout
  <2>1. \A id \in Ids : cfgs[id] # NoConfig <=> target[id] # NoConfig
    BY DEF RouteInv, Inv, Visited
  <2>2. \A id \in Present(target) : target[id].domains = cfgs[id].domains
    BY <2>1, SameDomains DEF RouteInv, Present
  <2> QED
    BY <2>1, <2>2 DEF RouteInv, RoutesAreCfgs, Present
<1> QED
  BY <1>1, RouteAlways, PTL

\* No step of a reload touches the route of a domain whose file stays, however
\* files are added, removed and edited, unless the stored list of another file
\* still has the domain (updateConfig case 3).
THEOREM ReloadKeepsRoutes == Spec => KeptRoutesStable
<1> DEFINE TargetRead == target \in Layouts \/ \A id \in Ids : target[id] = NoConfig
<1>1. Init => TargetRead
  BY DEF Init
<1>2. TargetRead /\ [Next]_managerVars => TargetRead'
  BY DEF Next, managerVars, BeginUpdate, RemoveConfig, CloseBackend, AddConfig, KeepConfig,
         UpdateConfig, DropDomains, ApplySettings, EndUpdate
<1>3. Inv /\ TargetRead /\ [Next]_managerVars =>
         [pc # "idle" =>
            \A id \in Ids, d \in Domains :
                Kept(id, d) /\ (\A other \in Ids \ {id} : d \notin StoredDomains(other))
                   => catalog'[d] = catalog[d]]_managerVars
  <2> SUFFICES ASSUME Inv, TargetRead, Next, pc # "idle",
                      NEW id \in Ids, NEW d \in Domains, Kept(id, d),
                      \A other \in Ids \ {id} : d \notin StoredDomains(other)
               PROVE  catalog'[d] = catalog[d]
    OBVIOUS
  <2>1. \A other \in Ids \ {id} : target[other] # NoConfig => d \notin target[other].domains
    BY LayoutsAssumption DEF Kept, VerifyConfigs, Present
  <2>2. CASE BeginUpdate \/ CloseBackend \/ ApplySettings \/ EndUpdate
    BY <2>2 DEF BeginUpdate, CloseBackend, ApplySettings, EndUpdate
  <2>3. ASSUME NEW i \in Ids, RemoveConfig(i) PROVE catalog'[d] = catalog[d]
    <3>1. i # id /\ cfgs[i] # NoConfig
      BY <2>3, MissingKeysAssumption DEF RemoveConfig, ToRemove, Kept, Inv, TypeOK, InHand
    <3> QED
      BY <2>3, <3>1 DEF RemoveConfig, RemoveBackend, StoredDomains
  <2>4. ASSUME NEW i \in Ids, NEW b \in Backends, AddConfig(i, b) PROVE catalog'[d] = catalog[d]
    <3>1. i # id /\ target[i] # NoConfig
      BY <2>4 DEF AddConfig, NextToLoad, ToRemove, Kept
    <3> QED
      BY <2>1, <2>4, <3>1 DEF AddConfig, AddBackend
  <2>5. ASSUME NEW i \in Ids, KeepConfig(i) PROVE catalog'[d] = catalog[d]
    BY <2>5 DEF KeepConfig
  <2>6. ASSUME NEW i \in Ids, UpdateConfig(i) PROVE catalog'[d] = catalog[d]
    <3>1. target[i] # NoConfig
      BY <2>6 DEF UpdateConfig, NextToLoad, ToRemove
    <3>2. d \notin AddedDomains(i)
      BY <2>1, <3>1 DEF AddedDomains, StoredDomains, Kept
    <3> QED
      BY <2>6, <3>2 DEF UpdateConfig, AddBackend
  <2>7. CASE DropDomains
    <3>1. d \notin RemovedDomains(current)
      BY <2>7 DEF DropDomains, RemovedDomains, StoredDomains, Kept, Inv, InHand, TypeOK
    <3> QED
      BY <2>7, <3>1 DEF DropDomains, RemoveBackend
  <2> QED
    BY <2>2, <2>3, <2>4, <2>5, <2>6, <2>7 DEF Next
<1> QED
  BY <1>1, <1>2, <1>3, InvAlways, PTL DEF Spec, KeptRoutesStable

-----------------------------------------------------------------------------
(* Owners and routes.  updateConfig clears the owner of a dropped domain    *)
(* before the catalog forgets its route, so the two maps differ for as long *)
(* as pc = "dropping", and on those domains only.                           *)

Agree(d) ==
    /\ domains[d] = NoId <=> catalog[d] = NoBackend
    /\ catalog[d] \in running => catalog[d] = backends[domains[d]]

HalfDropped(d) == pc = "dropping" /\ d \in RemovedDomains(current)

OwnersInv ==
    \A d \in Domains : IF HalfDropped(d) THEN domains[d] = NoId ELSE Agree(d)

LEMMA OwnersInit == Init => OwnersInv
  BY DEF Init, OwnersInv, Agree, HalfDropped

\* A routed domain that Agree speaks of has an owner among the files.
LEMMA OwnerOfRunning ==
    ASSUME Inv, NEW d \in Domains, Agree(d), catalog[d] \in running
    PROVE  domains[d] \in Ids /\ catalog[d] = backends[domains[d]] /\ catalog[d] # NoBackend
  BY MissingKeysAssumption DEF Inv, TypeOK, Agree

LEMMA OwnersStep == Inv /\ OwnersInv /\ [Next]_managerVars => OwnersInv'
  <1> SUFFICES ASSUME Inv, OwnersInv, [Next]_managerVars, NEW d \in Domains
               PROVE  IF HalfDropped(d)' THEN domains'[d] = NoId ELSE Agree(d)'
    BY DEF OwnersInv
  <1> USE DEF HalfDropped
  <1>1. ASSUME UNCHANGED <<domains, catalog, running, backends>>,
               pc # "dropping", pc' # "dropping"
        PROVE  Agree(d)'
    BY <1>1 DEF OwnersInv, Agree
  <1>2. CASE BeginUpdate
    BY <1>1, <1>2 DEF BeginUpdate
  <1>3. ASSUME NEW id \in Ids, RemoveConfig(id) PROVE Agree(d)'
    <2>1. Agree(d)
      BY <1>3 DEF RemoveConfig, OwnersInv
    <2>2. UNCHANGED <<backends, running>>
      BY <1>3 DEF RemoveConfig
    <2>3. CASE d \in cfgs[id].domains
      <3>1. domains'[d] = NoId /\ catalog'[d] = NoBackend
        BY <1>3, <2>3 DEF RemoveConfig, RemoveBackend
      <3> QED
        BY <2>2, <3>1, MissingKeysAssumption DEF Agree, Inv, TypeOK
    <2>4. CASE d \notin cfgs[id].domains
      <3>1. domains'[d] = domains[d] /\ catalog'[d] = catalog[d]
        BY <1>3, <2>4 DEF RemoveConfig, RemoveBackend
      <3> QED
        BY <2>1, <2>2, <3>1 DEF Agree
    <2> QED
      BY <2>3, <2>4
  <1>4. CASE CloseBackend
    <2>1. Agree(d)
      BY <1>4 DEF CloseBackend, OwnersInv
    <2>2. /\ UNCHANGED <<domains, catalog>>
          /\ running' = running \ {backends[current]}
          /\ \A id \in Ids : id # current => backends'[id] = backends[id]
      BY <1>4 DEF CloseBackend, Inv, TypeOK
    <2>3. ASSUME catalog'[d] \in running' PROVE catalog'[d] = backends'[domains'[d]]
      BY <2>1, <2>2, <2>3, OwnerOfRunning
    <2> QED
      BY <1>4, <2>1, <2>2, <2>3 DEF CloseBackend, Agree
  <1>5. ASSUME NEW id \in Ids, NEW b \in Backends, AddConfig(id, b) PROVE Agree(d)'
    <2>1. Agree(d) /\ target[id].domains \subseteq Domains
      BY <1>5 DEF AddConfig, NextToLoad, ToRemove, OwnersInv, Inv, TypeOK, Config
    <2>2. /\ domains' = [e \in Domains |-> IF e \in target[id].domains THEN id ELSE domains[e]]
          /\ catalog' = [e \in Domains |-> IF e \in target[id].domains THEN b ELSE catalog[e]]
          /\ backends' = [backends EXCEPT ![id] = b]
          /\ running' = running \cup {b}
      BY <1>5 DEF AddConfig, AddBackend
    <2>3. backends[id] = NoBackend /\ catalog[d] # b
      BY <1>5, MissingKeysAssumption
         DEF AddConfig, NextToLoad, Unreferenced, Inv, InHand, TypeOK
    <2>4. CASE d \in target[id].domains
      BY <2>2, <2>4, MissingKeysAssumption DEF Agree, Inv, TypeOK
    <2>5. CASE d \notin target[id].domains
      <3>1. domains'[d] = domains[d] /\ catalog'[d] = catalog[d]
        BY <2>2, <2>5
      <3>2. ASSUME catalog[d] \in running' PROVE catalog[d] = backends'[domains[d]]
        <4>1. catalog[d] \in running
          BY <2>2, <2>3, <3>2
        <4>2. domains[d] \in Ids /\ domains[d] # id /\ catalog[d] = backends[domains[d]]
          BY <2>1, <2>3, <4>1, OwnerOfRunning
        <4> QED
          BY <2>2, <4>2 DEF Inv, TypeOK
      <3> QED
        BY <2>1, <3>1, <3>2 DEF Agree
    <2> QED
      BY <2>4, <2>5
  <1>6. ASSUME NEW id \in Ids, KeepConfig(id) PROVE Agree(d)'
    BY <1>1, <1>6 DEF KeepConfig, NextToLoad
  <1>7. ASSUME NEW id \in Ids, UpdateConfig(id)
        PROVE  IF HalfDropped(d)' THEN domains'[d] = NoId ELSE Agree(d)'
    <2>1. Agree(d) /\ backends[id] # NoBackend
      BY <1>7, MissingKeysAssumption
         DEF UpdateConfig, NextToLoad, OwnersInv, Inv, InHand, TypeOK
    <2>2. /\ domains'[d] = IF d \in AddedDomains(id) THEN id
                           ELSE IF d \in RemovedDomains(id) THEN NoId ELSE domains[d]
          /\ catalog'[d] = IF d \in AddedDomains(id) THEN backends[id] ELSE catalog[d]
          /\ UNCHANGED <<backends, running>>
      BY <1>7 DEF UpdateConfig, AddBackend
    <2>3. HalfDropped(d)' <=> d \in RemovedDomains(id)
      BY <1>7 DEF UpdateConfig, RemovedDomains, StoredDomains
    <2>4. d \in RemovedDomains(id) => d \notin AddedDomains(id)
      BY DEF RemovedDomains, AddedDomains
    <2> QED
      BY <2>1, <2>2, <2>3, <2>4, MissingKeysAssumption DEF Agree
  <1>8. CASE DropDomains
    <2>1. CASE d \in RemovedDomains(current)
      BY <1>8, <2>1, MissingKeysAssumption
         DEF DropDomains, RemoveBackend, OwnersInv, Agree, Inv, TypeOK
    <2>2. CASE d \notin RemovedDomains(current)
      BY <1>8, <2>2 DEF DropDomains, RemoveBackend, OwnersInv, Agree
    <2>3. pc' # "dropping"
      BY <1>8 DEF DropDomains
    <2> QED
      BY <2>1, <2>2, <2>3
  <1>9. CASE ApplySettings \/ EndUpdate
    BY <1>1, <1>9 DEF ApplySettings, EndUpdate
  <1>10. CASE UNCHANGED managerVars
    BY <1>10 DEF managerVars, OwnersInv, Agree, RemovedDomains, StoredDomains
  <1>11. ASSUME NEW id \in Ids, RemoveConfig(id) \/ KeepConfig(id) PROVE pc' # "dropping"
    BY <1>11 DEF RemoveConfig, KeepConfig, NextToLoad
  <1>12. ASSUME NEW id \in Ids, NEW b \in Backends, AddConfig(id, b) PROVE pc' # "dropping"
    BY <1>12 DEF AddConfig, NextToLoad
  <1>13. BeginUpdate \/ CloseBackend \/ ApplySettings \/ EndUpdate => pc' # "dropping"
    BY DEF BeginUpdate, CloseBackend, ApplySettings, EndUpdate
  <1> QED
    BY <1>2, <1>3, <1>4, <1>5, <1>6, <1>7, <1>8, <1>9, <1>10, <1>11, <1>12, <1>13 DEF Next

\* Between reloads, and between any two files of one, manager.domains names an
\* owner for exactly the routed domains, and a route that leads to a running
\* backend leads to its owner's, whatever the operator edits (addConfig,
\* removeConfig, updateConfig).
THEOREM OwnersFollowRoutes == Spec => []OwnersAgree
<1>1. Inv /\ OwnersInv => OwnersAgree
  BY DEF OwnersInv, OwnersAgree, Agree, HalfDropped
<1> QED
  BY <1>1, OwnersInit, OwnersStep, InvAlways, PTL DEF Spec

-----------------------------------------------------------------------------
(* From here on the theorems are about WorkerPool.                          *)

\* A function stays of its type when one or two of its values are replaced.
LEMMA ExceptTwice ==
    ASSUME NEW S, NEW T, NEW f \in [S -> T], NEW x \in T, NEW y \in T, NEW a, NEW b
    PROVE  [f EXCEPT ![a] = x] \in [S -> T] /\ [f EXCEPT ![a] = x, ![b] = y] \in [S -> T]
  OBVIOUS

LEMMA PoolFacts ==
    /\ NumWorkers \in Nat /\ NumWorkers >= 1
    /\ Workers \subseteq Nat
    /\ Workers \cap Goroutines = {}
    /\ Requesters = Workers \cup Goroutines
  BY PoolAssumption DEF Workers, Requesters

-----------------------------------------------------------------------------
(* The pool only delays the manager: what holds of BackendManager holds of  *)
(* it here.                                                                 *)

LEMMA PoolStepIsManagerStep == [PoolNext]_vars => [Next]_managerVars
  <1> SUFFICES ASSUME [PoolNext]_vars PROVE [Next]_managerVars
    OBVIOUS
  <1>1. CASE Manager
    BY <1>1 DEF Manager, ManagerReads, ManagerRoutes, ManagerCloses, ManagerApplies,
                UpdateWorker, Next
  <1>2. ASSUME NEW w \in Workers, Worker(w) PROVE UNCHANGED managerVars
    BY <1>2 DEF Worker, TakeConn, ReadFails, ReadPanics, Lookup, MapRace
  <1>3. ASSUME NEW r \in Requesters, Send(r) \/ SendPanics(r) PROVE UNCHANGED managerVars
    BY <1>3 DEF Send, SendPanics
  <1>4. ASSUME NEW b \in Backends, TakeRequest(b) \/ AnswerWorker(b) \/ AnswerGoroutine(b)
        PROVE  UNCHANGED managerVars
    BY <1>4 DEF TakeRequest, AnswerWorker, AnswerGoroutine
  <1>5. CASE Ended
    BY <1>5 DEF Ended, vars
  <1>6. CASE UNCHANGED vars
    BY <1>6 DEF vars
  <1> QED
    BY <1>1, <1>2, <1>3, <1>4, <1>5, <1>6 DEF PoolNext

\* Workers, backends and goroutines never make the manager do something
\* BackendManager does not allow.
THEOREM PoolRefinesManager == PoolSpec => Spec
<1>1. PoolInit => Init
  BY DEF PoolInit
<1> QED
  BY <1>1, PoolStepIsManagerStep, PTL DEF PoolSpec, Spec

-----------------------------------------------------------------------------
(* Types of the pool.                                                       *)

LEMMA PoolTypeInit == PoolInit => PoolTypeOK
  <1> SUFFICES ASSUME PoolInit PROVE PoolTypeOK
    OBVIOUS
  <1>1. toUpdate \in 1..(NumWorkers + 1)
    BY PoolFacts DEF PoolInit
  <1>2. queue \in [Backends -> Seq(Requesters)]
    <2>1. <<>> \in Seq(Requesters)
      OBVIOUS
    <2> QED
      BY <2>1, Zenon DEF PoolInit
  <1>3. dead \in BOOLEAN
    BY Zenon DEF PoolInit
  <1> QED
    BY <1>1, <1>2, <1>3 DEF PoolInit, PoolTypeOK

LEMMA PoolTypeStep == TypeOK /\ PoolTypeOK /\ [PoolNext]_vars => PoolTypeOK'
  <1> SUFFICES ASSUME TypeOK, PoolTypeOK, [PoolNext]_vars PROVE PoolTypeOK'
    OBVIOUS
  <1> USE PoolFacts DEF PoolTypeOK
  <1>1. CASE ManagerReads
    BY <1>1 DEF ManagerReads, poolVars
  <1>2. CASE ManagerRoutes
    BY <1>2 DEF ManagerRoutes
  <1>3. CASE ManagerCloses \/ ManagerApplies
    BY <1>3 DEF ManagerCloses, ManagerApplies, poolVars
  <1>4. CASE UpdateWorker
    BY <1>4 DEF UpdateWorker, Workers
  <1>5. ASSUME NEW w \in Workers, Worker(w) PROVE PoolTypeOK'
    <2>1. CASE TakeConn(w) \/ ReadFails(w) \/ ReadPanics(w) \/ MapRace(w)
      BY <2>1 DEF TakeConn, ReadFails, ReadPanics, MapRace
    <2>2. ASSUME NEW d \in Domains, Lookup(w, d) PROVE PoolTypeOK'
      BY <2>2, ToLowerAssumption DEF Lookup, Find, TypeOK
    <2> QED
      BY <1>5, <2>1, <2>2 DEF Worker
  <1>6. ASSUME NEW r \in Requesters, Send(r) PROVE PoolTypeOK'
    <2>1. queue' \in [Backends -> Seq(Requesters)]
      BY <1>6 DEF Send, TypeOK
    <2> QED
      BY <1>6, <2>1 DEF Send
  <1>7. ASSUME NEW r \in Requesters, SendPanics(r) PROVE PoolTypeOK'
    BY <1>7 DEF SendPanics
  <1>8. ASSUME NEW b \in Backends, TakeRequest(b) PROVE PoolTypeOK'
    <2>1. Head(queue[b]) \in Requesters /\ Tail(queue[b]) \in Seq(Requesters)
      BY <1>8 DEF TakeRequest
    <2> QED
      BY <1>8, <2>1 DEF TakeRequest
  <1>9. ASSUME NEW b \in Backends, AnswerWorker(b) \/ AnswerGoroutine(b) PROVE PoolTypeOK'
    <2>1. UNCHANGED <<toUpdate, queue, dead>>
      BY <1>9 DEF AnswerWorker, AnswerGoroutine
    <2>2. serving' \in [Backends -> Requesters \cup {NoRequester}]
      <3>1. serving' = [serving EXCEPT ![b] = NoRequester]
        BY <1>9 DEF AnswerWorker, AnswerGoroutine
      <3> QED
        BY <3>1
    <2>3. phase' \in [Requesters -> {"idle", "reading", "sending", "waiting"}]
      <3>1. \E r \in Requesters : \/ phase' = [phase EXCEPT ![r] = "idle"]
                                 \/ \E g \in Requesters :
                                       phase' = [phase EXCEPT ![r] = "idle", ![g] = "sending"]
        BY <1>9 DEF AnswerWorker, AnswerGoroutine
      <3> QED
        BY <3>1
    <2>4. asked' \in [Requesters -> Backends \cup {NoBackend}]
      <3>1. \E r \in Requesters : \/ asked' = [asked EXCEPT ![r] = NoBackend]
                                 \/ \E g \in Requesters :
                                       asked' = [asked EXCEPT ![r] = NoBackend, ![g] = b]
        BY <1>9 DEF AnswerWorker, AnswerGoroutine
      <3> QED
        BY <3>1, ExceptTwice
    <2> QED
      BY <2>1, <2>2, <2>3, <2>4
  <1>10. CASE Ended \/ UNCHANGED vars
    BY <1>10 DEF Ended, vars, poolVars
  <1> QED
    BY <1>1, <1>2, <1>3, <1>4, <1>5, <1>6, <1>7, <1>8, <1>9, <1>10 DEF PoolNext, Manager

\* The pool keeps its types (worker/worker.go 57-66, worker/backend.go 124-152).
THEOREM PoolTypeCorrect == PoolSpec => []PoolTypeOK
  BY PoolTypeInit, PoolTypeStep, PoolRefinesManager, TypeCorrect, PTL DEF PoolSpec

-----------------------------------------------------------------------------
(* The grace period.  update() visits the workers one by one, each in its   *)
(* select and so holding nothing; the backend on its way out is no longer   *)
(* in the catalog, so a worker once visited cannot pick it up again.        *)

Visiting ==
    pc = "closing" => \A w \in Workers : w < toUpdate => asked[w] # backends[current]

HoldsInWork ==
    \A w \in Workers : asked[w] # NoBackend => phase[w] \in {"sending", "waiting"}

DrainInv == PoolTypeOK /\ WorkersOnRunning /\ Visiting /\ HoldsInWork

LEMMA DrainInit == PoolInit => DrainInv
  BY PoolTypeInit, PoolFacts
     DEF PoolInit, Init, DrainInv, WorkersOnRunning, Visiting, HoldsInWork

\* A backend that Find returns is running, and is not the one being closed.
LEMMA FoundIsStaying ==
    ASSUME RouteInv, NEW d \in Domains, catalog[d] # NoBackend
    PROVE  /\ catalog[d] \in running
           /\ pc = "closing" => catalog[d] # backends[current]
  <1>1. PICK id \in Ids : cfgs[id] # NoConfig /\ catalog[d] = backends[id]
    BY DEF RouteInv, RoutesAreCfgs
  <1>2. catalog[d] \in running
    BY <1>1 DEF RouteInv, Inv, BackendsTracked, BackendsInUse
  <1>3. ASSUME pc = "closing" PROVE catalog[d] # backends[current]
    <2>1. current \in Ids /\ current # id
      BY <1>1, <1>3 DEF RouteInv, Inv, InHand, TypeOK
    <2> QED
      BY <1>1, <2>1 DEF RouteInv, Inv, InHand, BackendsTracked
  <1> QED
    BY <1>2, <1>3

LEMMA DrainStep == RouteInv /\ DrainInv /\ [PoolNext]_vars => DrainInv'
  <1> SUFFICES ASSUME RouteInv, DrainInv, [PoolNext]_vars
               PROVE  (WorkersOnRunning /\ Visiting /\ HoldsInWork)'
    BY PoolTypeStep DEF DrainInv, RouteInv, Inv
  <1> USE PoolFacts DEF DrainInv, WorkersOnRunning, Visiting, HoldsInWork
  <1>1. CASE ManagerReads
    BY <1>1 DEF ManagerReads, poolVars, BeginUpdate, EndUpdate, KeepConfig
  <1>2. CASE ManagerRoutes
    <2>1. running \subseteq running'
      BY <1>2 DEF ManagerRoutes, RemoveConfig, UpdateConfig, DropDomains, AddConfig
    <2> QED
      BY <1>2, <2>1 DEF ManagerRoutes, Workers
  <1>3. CASE ManagerCloses
    <2>1. \A w \in Workers : asked[w] # backends[current]
      BY <1>3 DEF ManagerCloses, CloseBackend, UpdateDone, Workers
    <2> QED
      BY <1>3, <2>1 DEF ManagerCloses, CloseBackend, poolVars
  <1>4. CASE ManagerApplies
    BY <1>4 DEF ManagerApplies, ApplySettings, poolVars
  <1>5. CASE UpdateWorker
    <2>1. asked[toUpdate] = NoBackend
      BY <1>5 DEF UpdateWorker
    <2>2. ASSUME pc = "closing" PROVE backends[current] # NoBackend
      BY <2>2 DEF RouteInv, Inv, TypeOK, InHand
    <2>3. \A w \in Workers : w < toUpdate' => w < toUpdate \/ w = toUpdate
      BY <1>5 DEF UpdateWorker, PoolTypeOK
    <2> QED
      BY <1>5, <2>1, <2>2, <2>3 DEF UpdateWorker, managerVars
  <1>6. ASSUME NEW w \in Workers, Worker(w)
        PROVE  (WorkersOnRunning /\ Visiting /\ HoldsInWork)'
    <2>1. CASE TakeConn(w) \/ ReadFails(w) \/ ReadPanics(w) \/ MapRace(w)
      BY <2>1 DEF TakeConn, ReadFails, ReadPanics, MapRace, managerVars, PoolTypeOK
    <2>2. ASSUME NEW d \in Domains, Lookup(w, d)
          PROVE  (WorkersOnRunning /\ Visiting /\ HoldsInWork)'
      <3> DEFINE key == ToLower(d)
      <3>0. key \in Domains
        BY ToLowerAssumption
      <3>1. asked' = [asked EXCEPT ![w] = catalog[key]] /\ UNCHANGED <<managerVars, toUpdate>>
        BY <2>2 DEF Lookup, Find
      <3> HIDE DEF key
      <3>2. ASSUME pc = "closing" PROVE backends[current] # NoBackend
        BY <3>2 DEF RouteInv, Inv, TypeOK, InHand
      <3>3. WorkersOnRunning'
        BY <3>0, <3>1, FoundIsStaying DEF managerVars, PoolTypeOK
      <3>4. Visiting'
        BY <3>0, <3>1, <3>2, FoundIsStaying DEF managerVars, PoolTypeOK
      <3>5. HoldsInWork'
        BY <2>2, <3>1 DEF Lookup, Find, PoolTypeOK
      <3> QED
        BY <3>3, <3>4, <3>5
    <2> QED
      BY <1>6, <2>1, <2>2 DEF Worker
  <1>7. ASSUME NEW r \in Requesters, Send(r) \/ SendPanics(r)
        PROVE  (WorkersOnRunning /\ Visiting /\ HoldsInWork)'
    BY <1>7 DEF Send, SendPanics, managerVars, PoolTypeOK
  <1>8. ASSUME NEW b \in Backends, TakeRequest(b)
        PROVE  (WorkersOnRunning /\ Visiting /\ HoldsInWork)'
    BY <1>8 DEF TakeRequest, managerVars
  <1>9. ASSUME NEW b \in Backends, AnswerWorker(b)
        PROVE  (WorkersOnRunning /\ Visiting /\ HoldsInWork)'
    <2>1. UNCHANGED <<managerVars, toUpdate>>
      BY <1>9 DEF AnswerWorker
    <2>2. \A w \in Workers : \/ asked'[w] = asked[w] /\ phase'[w] = phase[w]
                             \/ asked'[w] = NoBackend
      BY <1>9 DEF AnswerWorker, PoolTypeOK
    <2>3. ASSUME pc = "closing" PROVE backends[current] # NoBackend
      BY <2>3 DEF RouteInv, Inv, TypeOK, InHand
    <2> QED
      BY <2>1, <2>2, <2>3 DEF managerVars
  <1>10. ASSUME NEW b \in Backends, AnswerGoroutine(b)
         PROVE  (WorkersOnRunning /\ Visiting /\ HoldsInWork)'
    BY <1>10 DEF AnswerGoroutine, managerVars, PoolTypeOK
  <1>11. CASE Ended \/ UNCHANGED vars
    BY <1>11 DEF Ended, vars, managerVars, poolVars
  <1> QED
    BY <1>1, <1>2, <1>3, <1>4, <1>5, <1>6, <1>7, <1>8, <1>9, <1>10, <1>11 DEF PoolNext, Manager

\* If no file's domain list is edited while the proxy runs, no worker ever holds
\* a closed backend, with any number of workers and whatever the manager removes:
\* RemoveBackend returns only once every worker has let go of it
\* (worker/backend_manager.go:87).
THEOREM WorkersNeverUseClosed == ASSUME FixedDomains PROVE PoolSpec => []WorkersOnRunning
<1>1. RouteInv /\ DrainInv /\ [PoolNext]_vars => DrainInv'
  BY DrainStep
<1>2. DrainInv => WorkersOnRunning
  BY DEF DrainInv
<1> QED
  BY <1>1, <1>2, DrainInit, PoolRefinesManager, RouteAlways, PTL DEF PoolSpec

-----------------------------------------------------------------------------
(* Requests.  A requester that waits is in one place only, because it asks  *)
(* one backend and sends to it once.                                        *)

Holds(q, r) == \E i \in 1..Len(q) : q[i] = r

Distinct(q) == \A i, j \in 1..Len(q) : i # j => q[i] # q[j]

\* What RequestsAccounted says of one backend, with names for its parts.
AccountedAt(b) ==
    /\ \A r \in Requesters :
          phase[r] = "waiting" /\ asked[r] = b <=> serving[b] = r \/ Holds(queue[b], r)
    /\ Distinct(queue[b])
    /\ ~Holds(queue[b], serving[b])
    /\ b \notin running => serving[b] = NoRequester

LEMMA AccountedParts == RequestsAccounted <=> \A b \in Backends : AccountedAt(b)
  BY DEF RequestsAccounted, AccountedAt, Holds, Distinct

LEMMA AppendDistinct ==
    ASSUME NEW S, NEW q \in Seq(S), NEW r \in S,
           Distinct(q), ~Holds(q, r)
    PROVE  /\ Distinct(Append(q, r))
           /\ \A x : Holds(Append(q, r), x) <=> x = r \/ Holds(q, x)
  <1>1. /\ Len(q) \in Nat /\ Len(Append(q, r)) = Len(q) + 1
        /\ \A i \in 1..Len(q) : Append(q, r)[i] = q[i]
        /\ Append(q, r)[Len(q) + 1] = r
    OBVIOUS
  <1>2. \A i : i \in 1..(Len(q) + 1) <=> i \in 1..Len(q) \/ i = Len(q) + 1
    BY <1>1
  <1> QED
    BY <1>1, <1>2 DEF Distinct, Holds

LEMMA TailDistinct ==
    ASSUME NEW S, NEW q \in Seq(S), q # <<>>, Distinct(q)
    PROVE  /\ Distinct(Tail(q))
           /\ ~Holds(Tail(q), Head(q))
           /\ \A x : Holds(q, x) <=> x = Head(q) \/ Holds(Tail(q), x)
  <1>1. /\ Len(q) \in Nat /\ Len(q) >= 1 /\ Len(Tail(q)) = Len(q) - 1
        /\ Head(q) = q[1]
        /\ \A i \in 1..Len(Tail(q)) : Tail(q)[i] = q[i + 1]
    OBVIOUS
  <1>2. \A i \in 1..Len(Tail(q)) : i + 1 \in 1..Len(q) /\ i + 1 # 1
    BY <1>1
  <1>3. \A i \in 1..Len(q) : i = 1 \/ (i - 1 \in 1..Len(Tail(q)) /\ (i - 1) + 1 = i)
    BY <1>1
  <1>4. Distinct(Tail(q))
    <2> SUFFICES ASSUME NEW i \in 1..Len(Tail(q)), NEW j \in 1..Len(Tail(q)), i # j
                 PROVE  Tail(q)[i] # Tail(q)[j]
      BY DEF Distinct
    <2>1. i + 1 # j + 1
      BY <1>1
    <2> QED
      BY <1>1, <1>2, <2>1 DEF Distinct
  <1>5. 1 \in 1..Len(q)
    BY <1>1
  <1>6. ~Holds(Tail(q), Head(q))
    BY <1>1, <1>2, <1>5 DEF Distinct, Holds
  <1>7. \A x : Holds(q, x) <=> x = Head(q) \/ Holds(Tail(q), x)
    <2> SUFFICES ASSUME NEW x PROVE Holds(q, x) <=> x = Head(q) \/ Holds(Tail(q), x)
      OBVIOUS
    <2>1. ASSUME Holds(q, x) PROVE x = Head(q) \/ Holds(Tail(q), x)
      <3>1. PICK i \in 1..Len(q) : q[i] = x
        BY <2>1 DEF Holds
      <3>2. CASE i = 1
        BY <1>1, <3>1, <3>2
      <3>3. CASE i - 1 \in 1..Len(Tail(q)) /\ (i - 1) + 1 = i
        <4>1. Tail(q)[i - 1] = x
          BY <1>1, <3>1, <3>3
        <4> QED
          BY <3>3, <4>1 DEF Holds
      <3> QED
        BY <1>3, <3>2, <3>3
    <2>2. ASSUME x = Head(q) PROVE Holds(q, x)
      BY <1>1, <1>5, <2>2 DEF Holds
    <2>3. ASSUME Holds(Tail(q), x) PROVE Holds(q, x)
      <3>1. PICK i \in 1..Len(Tail(q)) : Tail(q)[i] = x
        BY <2>3 DEF Holds
      <3>2. i + 1 \in 1..Len(q) /\ q[i + 1] = x
        BY <1>1, <1>2, <3>1
      <3> QED
        BY <3>2 DEF Holds
    <2> QED
      BY <2>1, <2>2, <2>3
  <1> QED
    BY <1>4, <1>6, <1>7

LEMMA AccountedInit == PoolInit => RequestsAccounted
  BY PoolFacts, PoolAssumption DEF PoolInit, Init, RequestsAccounted

\* A backend none of whose requesters, queue or loop a step disturbs.
LEMMA AccountedSame ==
    ASSUME NEW b \in Backends, AccountedAt(b),
           queue'[b] = queue[b], serving'[b] = serving[b],
           b \in running => b \in running' \/ serving[b] = NoRequester,
           \A r \in Requesters : phase'[r] = "waiting" /\ asked'[r] = b
                                    <=> phase[r] = "waiting" /\ asked[r] = b
    PROVE  AccountedAt(b)'
  BY DEF AccountedAt

LEMMA AccountedStep ==
    PoolTypeOK /\ TypeOK /\ InHand /\ RequestsAccounted /\ [PoolNext]_vars => RequestsAccounted'
  <1> SUFFICES ASSUME PoolTypeOK, TypeOK, InHand, RequestsAccounted, [PoolNext]_vars,
                      NEW c \in Backends
               PROVE  AccountedAt(c)'
    BY DEF RequestsAccounted, AccountedAt, Holds, Distinct
  <1> USE PoolFacts, PoolAssumption
  <1>0. \A b \in Backends : AccountedAt(b)
    BY AccountedParts
  <1>1. ASSUME UNCHANGED <<phase, asked, queue, serving>>, running \subseteq running'
        PROVE  AccountedAt(c)'
    BY <1>0, <1>1, AccountedSame
  <1>2. CASE ManagerReads \/ ManagerApplies \/ UpdateWorker
    BY <1>1, <1>2 DEF ManagerReads, ManagerApplies, UpdateWorker, BeginUpdate, EndUpdate,
                      KeepConfig, ApplySettings, poolVars, managerVars
  <1>3. CASE ManagerRoutes
    <2>1. running \subseteq running'
      BY <1>3 DEF ManagerRoutes, RemoveConfig, UpdateConfig, DropDomains, AddConfig
    <2> QED
      BY <1>1, <1>3, <2>1 DEF ManagerRoutes
  <1>4. CASE ManagerCloses
    <2>1. UNCHANGED <<phase, asked, queue, serving>>
      BY <1>4 DEF ManagerCloses, poolVars
    <2>2. c \in running => c \in running' \/ serving[c] = NoRequester
      BY <1>4 DEF ManagerCloses, CloseBackend, InSelect
    <2> QED
      BY <1>0, <2>1, <2>2, AccountedSame
  <1>5. ASSUME NEW w \in Workers, Worker(w) PROVE AccountedAt(c)'
    <2>1. UNCHANGED <<running, queue, serving>>
      BY <1>5 DEF Worker, TakeConn, ReadFails, ReadPanics, Lookup, MapRace, managerVars
    <2>2. \A r \in Requesters : /\ phase'[r] = "waiting" <=> phase[r] = "waiting"
                                /\ phase[r] = "waiting" => asked'[r] = asked[r]
      BY <1>5 DEF Worker, TakeConn, ReadFails, ReadPanics, Lookup, MapRace, PoolTypeOK
    <2> QED
      BY <1>0, <2>1, <2>2, AccountedSame
  <1>6. ASSUME NEW r \in Requesters, Send(r) PROVE AccountedAt(c)'
    <2>1. asked[r] \in Backends /\ phase[r] = "sending"
      BY <1>6 DEF Send, TypeOK
    <2>2. /\ UNCHANGED <<asked, serving, running>>
          /\ phase'[r] = "waiting"
          /\ \A x \in Requesters : x # r => phase'[x] = phase[x]
      BY <1>6 DEF Send, managerVars, PoolTypeOK
    <2>3. CASE c = asked[r]
      <3>1. queue'[c] = Append(queue[c], r)
        BY <1>6, <2>3 DEF Send, PoolTypeOK
      <3>2. serving[c] # r /\ ~Holds(queue[c], r)
        BY <1>0, <2>1 DEF AccountedAt
      <3>3. queue[c] \in Seq(Requesters)
        BY DEF PoolTypeOK
      <3>4. Distinct(queue[c])
        BY <1>0 DEF AccountedAt
      <3>5. /\ Distinct(queue'[c])
            /\ \A x : Holds(queue'[c], x) <=> x = r \/ Holds(queue[c], x)
        BY <3>1, <3>2, <3>3, <3>4, AppendDistinct
      <3> QED
        BY <1>0, <2>2, <2>3, <3>2, <3>5 DEF AccountedAt
    <2>4. CASE c # asked[r]
      <3>1. queue'[c] = queue[c]
        BY <1>6, <2>4 DEF Send, PoolTypeOK
      <3> QED
        BY <1>0, <2>1, <2>2, <2>4, <3>1, AccountedSame
    <2> QED
      BY <2>3, <2>4
  <1>7. ASSUME NEW r \in Requesters, SendPanics(r) PROVE AccountedAt(c)'
    BY <1>1, <1>7 DEF SendPanics, managerVars
  <1>8. ASSUME NEW b \in Backends, TakeRequest(b) PROVE AccountedAt(c)'
    <2>1. /\ UNCHANGED <<phase, asked, running>>
          /\ serving[b] = NoRequester /\ b \in running
          /\ queue[b] \in Seq(Requesters) /\ queue[b] # <<>>
      BY <1>8 DEF TakeRequest, InSelect, managerVars, PoolTypeOK
    <2>2. CASE c = b
      <3>1. queue'[c] = Tail(queue[c]) /\ serving'[c] = Head(queue[c])
        BY <1>8, <2>2 DEF TakeRequest, PoolTypeOK
      <3>2. Distinct(queue[c])
        BY <1>0 DEF AccountedAt
      <3>3. /\ Distinct(queue'[c])
            /\ ~Holds(queue'[c], serving'[c])
            /\ \A x : Holds(queue[c], x) <=> x = serving'[c] \/ Holds(queue'[c], x)
        BY <2>1, <2>2, <3>1, <3>2, TailDistinct
      <3> QED
        BY <1>0, <2>1, <2>2, <3>3 DEF AccountedAt
    <2>3. CASE c # b
      <3>1. queue'[c] = queue[c] /\ serving'[c] = serving[c]
        BY <1>8, <2>3 DEF TakeRequest, PoolTypeOK
      <3> QED
        BY <1>0, <2>1, <3>1, AccountedSame
    <2> QED
      BY <2>2, <2>3
  <1>9. ASSUME NEW b \in Backends, serving[b] \in Requesters,
               UNCHANGED <<queue, running>>,
               serving' = [serving EXCEPT ![b] = NoRequester],
               phase'[serving[b]] # "waiting",
               \A x \in Requesters : x # serving[b] =>
                   /\ phase'[x] = "waiting" <=> phase[x] = "waiting"
                   /\ phase[x] = "waiting" => asked'[x] = asked[x]
        PROVE  AccountedAt(c)'
    <2>1. phase[serving[b]] = "waiting" /\ asked[serving[b]] = b
      BY <1>0, <1>9 DEF AccountedAt
    <2>2. CASE c = b
      <3>1. serving'[c] = NoRequester
        BY <1>9, <2>2 DEF PoolTypeOK
      <3>2. ~Holds(queue[c], serving[b])
        BY <1>0, <1>9, <2>2 DEF AccountedAt
      <3>3. ~Holds(queue[c], NoRequester)
        <4> SUFFICES ASSUME NEW i \in 1..Len(queue[c]) PROVE queue[c][i] # NoRequester
          BY DEF Holds
        <4>1. queue[c] \in Seq(Requesters)
          BY DEF PoolTypeOK
        <4> QED
          BY <4>1
      <3> QED
        BY <1>0, <1>9, <2>1, <2>2, <3>1, <3>2, <3>3 DEF AccountedAt
    <2>3. CASE c # b
      <3>1. queue'[c] = queue[c] /\ serving'[c] = serving[c]
        BY <1>9, <2>3 DEF PoolTypeOK
      <3> QED
        BY <1>0, <1>9, <2>1, <2>3, <3>1, AccountedSame
    <2> QED
      BY <2>2, <2>3
  <1>10. ASSUME NEW b \in Backends, AnswerWorker(b) PROVE AccountedAt(c)'
    <2>1. /\ serving[b] \in Workers
          /\ UNCHANGED <<queue, running>>
          /\ serving' = [serving EXCEPT ![b] = NoRequester]
      BY <1>10 DEF AnswerWorker, managerVars
    <2>2. phase'[serving[b]] # "waiting"
      BY <1>10, <2>1 DEF AnswerWorker, PoolTypeOK
    <2>3. \A x \in Requesters : x # serving[b] =>
             /\ phase'[x] = "waiting" <=> phase[x] = "waiting"
             /\ phase[x] = "waiting" => asked'[x] = asked[x]
      BY <1>10, <2>1 DEF AnswerWorker, PoolTypeOK
    <2> QED
      BY <1>9, <2>1, <2>2, <2>3
  <1>11. ASSUME NEW b \in Backends, AnswerGoroutine(b) PROVE AccountedAt(c)'
    BY <1>9, <1>11 DEF AnswerGoroutine, managerVars, PoolTypeOK
  <1>12. CASE Ended \/ UNCHANGED vars
    BY <1>1, <1>12 DEF Ended, vars, managerVars, poolVars
  <1> QED
    BY <1>2, <1>3, <1>4, <1>5, <1>6, <1>7, <1>8, <1>10, <1>11, <1>12 DEF PoolNext, Manager

\* A backend that runs owes an answer to exactly those who wait for it, and one
\* that was closed was not in the middle of a request, for any number of
\* requesters and slots (BackendServer.HandleRequest, BackendWorker.Work).
THEOREM RequestsNeverLost == PoolSpec => []RequestsAccounted
<1>1. Inv => TypeOK /\ InHand
  BY DEF Inv
<1> QED
  BY <1>1, AccountedInit, AccountedStep, PoolTypeCorrect, PoolRefinesManager, InvAlways, PTL
     DEF PoolSpec

-----------------------------------------------------------------------------
(* The grace period as a refinement: each step of the workers and of the    *)
(* manager is a step of GracePeriod or leaves its variables alone.          *)

Published == {catalog[d] : d \in Domains} \ {NoBackend}

\* The catalog leads to exactly the backends of the stored configs: each of
\* those has a domain.
PublishedIsStored == Published = {backends[id] : id \in Present(cfgs)}

LEMMA PublishedIs == RouteInv => PublishedIsStored
  <1> SUFFICES ASSUME RouteInv PROVE PublishedIsStored
    OBVIOUS
  <1>1. ASSUME NEW id \in Present(cfgs)
        PROVE  /\ backends[id] # NoBackend
               /\ \E d \in Domains : catalog[d] = backends[id]
    <2>1. cfgs[id] # NoConfig /\ cfgs[id].domains \subseteq Domains
      BY DEF Present, RouteInv, Inv, TypeOK, Config
    <2>2. cfgs[id].domains # {}
      BY <2>1, LayoutsAssumption DEF RouteInv, FromLayouts, VerifyConfigs, Present
    <2>3. backends[id] # NoBackend
      BY <2>1, MissingKeysAssumption DEF Present, RouteInv, Inv, InHand, TypeOK
    <2> QED
      BY <2>1, <2>2, <2>3 DEF RouteInv, RoutesAreCfgs, Present
  <1>2. ASSUME NEW d \in Domains, catalog[d] # NoBackend
        PROVE  \E id \in Present(cfgs) : catalog[d] = backends[id]
    BY <1>2 DEF RouteInv, RoutesAreCfgs, Present
  <1> QED
    BY <1>1, <1>2 DEF Published, PublishedIsStored

LEMMA GraceCases ==
    /\ \A r \in Backends : Grace!Publish(r) => Grace!Next
    /\ \A r \in Backends : Grace!Withdraw(r) => Grace!Next
    /\ \A r \in Backends : Grace!Retire(r) => Grace!Next
    /\ \A w \in Workers, r \in Backends : Grace!Acquire(w, r) => Grace!Next
    /\ \A w \in Workers : Grace!Release(w) => Grace!Next
  BY Zenon DEF Grace!Next

LEMMA GraceInit == PoolInit => Grace!Init
  <1> SUFFICES ASSUME PoolInit PROVE Grace!Init
    OBVIOUS
  <1>1. {catalog[d] : d \in Domains} \ {NoBackend} = {}
    BY DEF PoolInit, Init
  <1>2. running = {} /\ \A w \in Workers : asked[w] = NoBackend
    BY PoolFacts DEF PoolInit, Init
  <1> QED
    BY <1>1, <1>2 DEF Grace!Init

\* Steps of the manager.
LEMMA GraceManager ==
    ASSUME RouteInv, DrainInv, PublishedIsStored, PublishedIsStored', Manager
    PROVE  [Grace!Next]_(Grace!vars)
  <1> USE DEF Grace!vars
  <1>0. asked' = asked
    BY DEF Manager, ManagerReads, ManagerRoutes, ManagerCloses, ManagerApplies, UpdateWorker,
           poolVars
  <1>1. ASSUME UNCHANGED <<running, backends, cfgs>> PROVE UNCHANGED Grace!vars
    <2>1. Published' = {backends'[id] : id \in Present(cfgs')}
      BY DEF PublishedIsStored, Present
    <2>2. Published' = Published
      BY <1>1, <2>1 DEF PublishedIsStored, Present
    <2> QED
      BY <1>0, <1>1, <2>2 DEF Published
  <1>2. ASSUME NEW id \in Ids, RemoveConfig(id) PROVE Grace!Next
    <2>0. PICK b \in Backends : b = backends[id]
      BY <1>2, MissingKeysAssumption DEF RemoveConfig, RouteInv, Inv, TypeOK
    <2>1. b = backends[id] /\ id \in Present(cfgs)
      BY <1>2, <2>0, MissingKeysAssumption DEF RemoveConfig, RouteInv, Inv, InHand, TypeOK, Present
    <2>2. /\ UNCHANGED <<running, backends>>
          /\ Present(cfgs') = Present(cfgs) \ {id}
      BY <1>2 DEF RemoveConfig, RouteInv, Inv, TypeOK, Present
    <2>3. \A i \in Present(cfgs) : i # id => backends[i] # b
      BY <2>1, MissingKeysAssumption DEF RouteInv, Inv, BackendsTracked, Present
    <2>4. Published' = {backends'[i] : i \in Present(cfgs')}
      BY DEF PublishedIsStored, Present
    <2>5. b \in Published /\ Published' = Published \ {b}
      BY <2>1, <2>2, <2>3, <2>4 DEF PublishedIsStored
    <2>6. Grace!Withdraw(b)
      BY <1>0, <2>2, <2>5 DEF Grace!Withdraw, Published
    <2> QED
      BY <2>1, <2>6, GraceCases
  <1>3. CASE ManagerCloses
    <2>0. PICK b \in Backends : b = backends[current]
      BY <1>3, MissingKeysAssumption
         DEF ManagerCloses, CloseBackend, RouteInv, Inv, InHand, TypeOK
    <2>1. /\ current \in Ids /\ b = backends[current] /\ cfgs[current] = NoConfig
          /\ running' = running \ {b} /\ catalog' = catalog
      BY <1>3, <2>0 DEF ManagerCloses, CloseBackend, RouteInv, Inv, InHand, TypeOK
    <2>2. b \in running
      BY <2>1, MissingKeysAssumption DEF RouteInv, Inv, BackendsTracked, BackendsInUse
    <2>3. b \notin Published
      <3>1. \A id \in Present(cfgs) : id # current
        BY <2>1 DEF Present
      <3> QED
        BY <2>1, <3>1, MissingKeysAssumption
           DEF PublishedIsStored, RouteInv, Inv, BackendsTracked, Present
    <2>4. \A w \in Workers : asked[w] # b
      BY <1>3, <2>1, PoolFacts
         DEF ManagerCloses, CloseBackend, UpdateDone, Workers, DrainInv, Visiting
    <2>5. Grace!Retire(b)
      BY <1>0, <2>1, <2>2, <2>3, <2>4 DEF Grace!Retire, Published
    <2> QED
      BY <2>1, <2>5, GraceCases
  <1>4. ASSUME NEW id \in Ids, NEW b \in Backends, AddConfig(id, b) PROVE Grace!Next
    <2>1. /\ b \notin running /\ running' = running \cup {b}
          /\ cfgs[id] = NoConfig /\ target[id] # NoConfig
          /\ cfgs' = [cfgs EXCEPT ![id] = target[id]]
          /\ backends' = [backends EXCEPT ![id] = b]
      BY <1>4 DEF AddConfig, Unreferenced, NextToLoad, ToRemove
    <2>2. /\ Present(cfgs') = Present(cfgs) \cup {id}
          /\ backends'[id] = b
          /\ \A i \in Present(cfgs) : backends'[i] = backends[i]
      BY <2>1 DEF RouteInv, Inv, TypeOK, Present
    <2>3. Published' = {backends'[i] : i \in Present(cfgs')}
      BY DEF PublishedIsStored, Present
    <2>4. Published' = Published \cup {b}
      BY <2>2, <2>3 DEF PublishedIsStored
    <2>5. Grace!Publish(b)
      BY <1>0, <2>1, <2>4 DEF Grace!Publish, Published
    <2> QED
      BY <2>5, GraceCases
  <1>5. CASE ManagerReads \/ ManagerApplies \/ UpdateWorker
    BY <1>1, <1>5 DEF ManagerReads, BeginUpdate, EndUpdate, KeepConfig, ManagerApplies,
                      ApplySettings, UpdateWorker, managerVars
  <1>6. CASE ManagerRoutes
    BY <1>1, <1>2, <1>4, <1>6 DEF ManagerRoutes, UpdateConfig, DropDomains
  <1> QED
    BY <1>3, <1>5, <1>6 DEF Manager

\* Steps of the workers, the backends and the proxy goroutines.
LEMMA GraceWorkers ==
    ASSUME TypeOK, DrainInv, RequestsAccounted, PoolNext, UNCHANGED managerVars
    PROVE  [Grace!Next]_(Grace!vars)
  <1> USE PoolFacts DEF Grace!vars, managerVars
  <1>0. ASSUME \A w \in Workers : asked'[w] = asked[w] PROVE UNCHANGED Grace!vars
    BY <1>0
  <1>1. CASE Manager \/ Ended
    BY <1>0, <1>1 DEF Manager, ManagerReads, ManagerRoutes, ManagerCloses, ManagerApplies,
                      UpdateWorker, poolVars, Ended, vars
  <1>2. ASSUME NEW w \in Workers, Worker(w) PROVE [Grace!Next]_(Grace!vars)
    <2>1. CASE TakeConn(w) \/ ReadFails(w) \/ ReadPanics(w) \/ MapRace(w)
      BY <1>0, <2>1 DEF TakeConn, ReadFails, ReadPanics, MapRace
    <2>2. ASSUME NEW d \in Domains, Lookup(w, d) PROVE [Grace!Next]_(Grace!vars)
      <3>1. asked[w] = NoBackend
        BY <2>2 DEF Lookup, DrainInv, HoldsInWork
      <3> DEFINE key == ToLower(d)
      <3>2. key \in Domains /\ asked' = [asked EXCEPT ![w] = catalog[key]]
        BY <2>2, ToLowerAssumption DEF Lookup, Find
      <3> HIDE DEF key
      <3>3. CASE catalog[key] = NoBackend
        BY <1>0, <3>1, <3>2, <3>3 DEF DrainInv, PoolTypeOK
      <3>4. CASE catalog[key] # NoBackend
        <4>1. PICK b \in Backends : b = catalog[key]
          BY <3>2, <3>4 DEF TypeOK
        <4>2. [p \in Workers |-> asked'[p]] = [[p \in Workers |-> asked[p]] EXCEPT ![w] = b]
          BY <3>2, <4>1 DEF DrainInv, PoolTypeOK
        <4>3. Grace!Acquire(w, b)
          BY <3>1, <3>2, <3>4, <4>1, <4>2 DEF Grace!Acquire
        <4> QED
          BY <4>3, GraceCases
      <3> QED
        BY <3>3, <3>4
    <2> QED
      BY <1>2, <2>1, <2>2 DEF Worker
  <1>3. ASSUME NEW r \in Requesters, Send(r) \/ SendPanics(r) PROVE UNCHANGED Grace!vars
    BY <1>0, <1>3 DEF Send, SendPanics
  <1>4. ASSUME NEW b \in Backends, TakeRequest(b) PROVE UNCHANGED Grace!vars
    BY <1>0, <1>4 DEF TakeRequest
  <1>5. ASSUME NEW b \in Backends, AnswerWorker(b) PROVE Grace!Next
    <2>1. PICK w \in Workers : w = serving[b]
      BY <1>5 DEF AnswerWorker
    <2>2. asked[w] = b
      BY <2>1 DEF RequestsAccounted
    <2>3. [p \in Workers |-> asked'[p]] = [[p \in Workers |-> asked[p]] EXCEPT ![w] = NoBackend]
      <3>1. \A p \in Workers : p \in Requesters /\ p \notin Goroutines
        OBVIOUS
      <3>2. asked \in [Requesters -> Backends \cup {NoBackend}]
        BY DEF DrainInv, PoolTypeOK
      <3>3. \/ asked' = [asked EXCEPT ![w] = NoBackend]
            \/ \E g \in Goroutines : asked' = [asked EXCEPT ![w] = NoBackend, ![g] = b]
        BY <1>5, <2>1 DEF AnswerWorker
      <3>4. \A p \in Workers : asked'[p] = IF p = w THEN NoBackend ELSE asked[p]
        BY <2>1, <3>1, <3>2, <3>3
      <3> QED
        BY <3>4
    <2>4. Grace!Release(w)
      BY <2>1, <2>2, <2>3, MissingKeysAssumption DEF Grace!Release
    <2> QED
      BY <2>1, <2>4, GraceCases, Zenon
  <1>6. ASSUME NEW b \in Backends, AnswerGoroutine(b) PROVE UNCHANGED Grace!vars
    BY <1>0, <1>6 DEF AnswerGoroutine, DrainInv, PoolTypeOK
  <1> QED
    BY <1>1, <1>2, <1>3, <1>4, <1>5, <1>6 DEF PoolNext

\* If no file's domain list is edited while the proxy runs, the workers and the
\* manager implement the grace period: every step of theirs publishes, finds,
\* lets go of, withdraws or retires a backend as GracePeriod allows, or changes
\* nothing it speaks of (workerManager.RemoveBackend, the comment at
\* worker/backend_manager.go:87).
THEOREM WorkersImplementGracePeriod ==
    ASSUME FixedDomains PROVE PoolSpec => ImplementsGracePeriod
<1>1. /\ RouteInv /\ DrainInv /\ TypeOK /\ RequestsAccounted
      /\ PublishedIsStored /\ PublishedIsStored' /\ [PoolNext]_vars
      => [Grace!Next]_(Grace!vars)
  <2> SUFFICES ASSUME RouteInv, DrainInv, TypeOK, RequestsAccounted,
                      PublishedIsStored, PublishedIsStored', [PoolNext]_vars
               PROVE  [Grace!Next]_(Grace!vars)
    OBVIOUS
  <2>1. CASE Manager
    BY <2>1, GraceManager
  <2>2. CASE UNCHANGED vars
    BY <2>2 DEF vars, managerVars, poolVars, Grace!vars
  <2>3. CASE PoolNext /\ ~Manager
    <3>1. UNCHANGED managerVars
      BY <2>3 DEF PoolNext, Worker, TakeConn, ReadFails, ReadPanics, Lookup, MapRace, Send, SendPanics,
                  TakeRequest, AnswerWorker, AnswerGoroutine, Ended, vars
    <3> QED
      BY <2>3, <3>1, GraceWorkers
  <2> QED
    BY <2>1, <2>2, <2>3
<1>2. RouteInv => TypeOK
  BY DEF RouteInv, Inv
<1>3. RouteInv /\ DrainInv /\ [PoolNext]_vars => DrainInv'
  BY DrainStep
<1> QED
  BY <1>1, <1>2, <1>3, PublishedIs, GraceInit, DrainInit, PoolRefinesManager, RouteAlways, RequestsNeverLost,
     PTL DEF PoolSpec, ImplementsGracePeriod, Grace!Spec
=============================================================================
