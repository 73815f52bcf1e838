--------------------------- MODULE BackendManager ---------------------------
(***************************************************************************)
(* The backend manager of the worker mode (worker/backend_manager.go) with *)
(* the catalog of the worker manager it writes (worker/worker_manager.go,  *)
(* core/server_catalog.go).  One Update call reads the server configs and  *)
(* makes the running backends and the routes agree with them.              *)
(*                                                                         *)
(* Every call Update makes on another goroutine's state (RemoveBackend,    *)
(* AddBackend, Close, Backend.Update) is a step of its own, in the order   *)
(* of the code; WorkerPool.tla puts the workers and the backends' own      *)
(* loops between these steps.  A Go map is a total function with a "No..." *)
(* value for a missing key.  A backend is the instance a factory call      *)
(* returns, not the config it was made from: an instance is taken again    *)
(* for a new factory call only once nothing refers to it any more.         *)
(***************************************************************************)
EXTENDS FiniteSets

CONSTANTS
    Ids,        \* config.ServerConfig.ID(): the path of the config's file
    Domains,    \* the domain names configs may list and clients may ask for
    ToLower(_), \* strings.ToLower, of a domain name
    Settings,   \* every other field of a config: what Backend.Update carries
    Backends,   \* instances made by the backend factory
    Layouts,    \* the config sets that the config reader may return
    NoConfig, NoId, NoBackend   \* a missing key of cfgs, domains, backends

Config == [domains : SUBSET Domains, settings : Settings]

Present(cfgSet) == {id \in Ids : cfgSet[id] # NoConfig}

\* What VerifyConfigs lets through: every config has a domain, and no domain
\* is listed twice.  ReadServerConfigs never returns an empty list.
VerifyConfigs(cfgSet) ==
    /\ Present(cfgSet) # {}
    /\ \A id \in Present(cfgSet) : cfgSet[id].domains # {}
    /\ \A i, j \in Present(cfgSet) :
          i # j => cfgSet[i].domains \cap cfgSet[j].domains = {}

ASSUME MissingKeysAssumption ==
    /\ NoConfig \notin Config
    /\ NoId \notin Ids
    /\ NoBackend \notin Backends

ASSUME ToLowerAssumption == \A d \in Domains : ToLower(d) \in Domains

ASSUME LayoutsAssumption ==
    /\ Layouts \subseteq [Ids -> Config \cup {NoConfig}]
    /\ \A cfgSet \in Layouts : VerifyConfigs(cfgSet)

VARIABLES
    pc,        \* what Update does next
    current,   \* the id removeConfig or updateConfig is working on
    target,    \* newCfgs, by id
    todo,      \* ids that the two loops of loadAllConfigs have yet to visit
    cfgs,      \* manager.cfgs
    domains,   \* manager.domains
    backends,  \* manager.backends
    catalog,   \* workerManager.domains.ServerDict, shared with every worker
    running,   \* instances whose Work goroutine has not been closed
    applied    \* the settings each instance got last

managerVars == <<pc, current, target, todo, cfgs, domains, backends,
                 catalog, running, applied>>

Init ==
    /\ pc = "idle"
    /\ current = NoId
    /\ target = [id \in Ids |-> NoConfig]
    /\ todo = {}
    /\ cfgs = [id \in Ids |-> NoConfig]
    /\ domains = [d \in Domains |-> NoId]
    /\ backends = [id \in Ids |-> NoBackend]
    /\ catalog = [d \in Domains |-> NoBackend]
    /\ running = {}
    /\ applied \in {[b \in Backends |-> s] : s \in Settings}

-----------------------------------------------------------------------------
(* The reads and writes of workerManager: AddBackend and RemoveBackend      *)
(* write the one map every worker reads.                                    *)

AddBackend(ds, b) ==
    catalog' = [d \in Domains |-> IF d \in ds THEN b ELSE catalog[d]]

RemoveBackend(ds) ==
    catalog' = [d \in Domains |-> IF d \in ds THEN NoBackend ELSE catalog[d]]

\* The catalog's keys are the domains as the files spell them: one listed with
\* capitals has a route that Find never takes.
Find(addr) == catalog[ToLower(addr)]

\* Instances no map refers to: what the factory may return next.
Unreferenced == {b \in Backends : b \notin running /\ \A d \in Domains : catalog[d] # b}

-----------------------------------------------------------------------------
(* Definitions named X_<bug> are mutations: a bug one could write in the     *)
(* code X models, against which the properties are tried.  Next never uses  *)
(* them.                                                                    *)

(* Update: a reader or conversion error returns before anything changes, so *)
(* only a successful read is a step.  With an empty manager.cfgs every      *)
(* config is added; that is loadAllConfigs with nothing to remove.          *)
BeginUpdate ==
    /\ pc = "idle"
    /\ target' \in Layouts
    /\ todo' = Present(cfgs) \cup Present(target')
    /\ pc' = "loading"
    /\ UNCHANGED <<current, cfgs, domains, backends, catalog, running, applied>>

(* loadAllConfigs visits the maps in Go's random order, all removals first. *)
ToRemove == {id \in todo : target[id] = NoConfig}

\* Mutation: the two loops in the other order.
NextToLoad_AnyOrder(id) == pc = "loading" /\ target[id] # NoConfig /\ id \in todo

NextToLoad(id) == pc = "loading" /\ ToRemove = {} /\ id \in todo

\* Mutation: the routes are left in place.
RemoveConfig_KeepsRoutes(id) ==
    /\ pc = "loading"
    /\ id \in ToRemove
    /\ cfgs' = [cfgs EXCEPT ![id] = NoConfig]
    /\ domains' = [d \in Domains |-> IF d \in cfgs[id].domains THEN NoId ELSE domains[d]]
    /\ todo' = todo \ {id}
    /\ current' = id
    /\ pc' = "closing"
    /\ UNCHANGED <<target, backends, catalog, running, applied>>

RemoveConfig(id) ==
    /\ pc = "loading"
    /\ id \in ToRemove
    /\ backends[id] # NoBackend
    /\ cfgs' = [cfgs EXCEPT ![id] = NoConfig]
    /\ domains' = [d \in Domains |-> IF d \in cfgs[id].domains THEN NoId ELSE domains[d]]
    /\ RemoveBackend(cfgs[id].domains)
    /\ todo' = todo \ {id}
    /\ current' = id
    /\ pc' = "closing"
    /\ UNCHANGED <<target, backends, running, applied>>

CloseBackend ==
    /\ pc = "closing"
    /\ running' = running \ {backends[current]}
    /\ backends' = [backends EXCEPT ![current] = NoBackend]
    /\ current' = NoId
    /\ pc' = "loading"
    /\ UNCHANGED <<target, todo, cfgs, domains, catalog, applied>>

\* Mutation: a known file is added again instead of updated.
AddConfig_KnownToo(id, b) ==
    /\ NextToLoad(id)
    /\ b \in Unreferenced
    /\ cfgs' = [cfgs EXCEPT ![id] = target[id]]
    /\ domains' = [d \in Domains |-> IF d \in target[id].domains THEN id ELSE domains[d]]
    /\ backends' = [backends EXCEPT ![id] = b]
    /\ running' = running \cup {b}
    /\ applied' = [applied EXCEPT ![b] = target[id].settings]
    /\ AddBackend(target[id].domains, b)
    /\ todo' = todo \ {id}
    /\ UNCHANGED <<pc, current, target>>

AddConfig(id, b) ==
    /\ NextToLoad(id)
    /\ cfgs[id] = NoConfig
    /\ b \in Unreferenced
    /\ cfgs' = [cfgs EXCEPT ![id] = target[id]]
    /\ domains' = [d \in Domains |-> IF d \in target[id].domains THEN id ELSE domains[d]]
    /\ backends' = [backends EXCEPT ![id] = b]
    /\ running' = running \cup {b}
    /\ applied' = [applied EXCEPT ![b] = target[id].settings]
    /\ AddBackend(target[id].domains, b)
    /\ todo' = todo \ {id}
    /\ UNCHANGED <<pc, current, target>>

\* Mutation: an unchanged file is visited for ever.
KeepConfig_Again(id) ==
    /\ NextToLoad(id)
    /\ cfgs[id] # NoConfig
    /\ target[id] = cfgs[id]
    /\ UNCHANGED managerVars

(* updateConfig compares with the stored config and leaves cfgs alone.      *)
KeepConfig(id) ==
    /\ NextToLoad(id)
    /\ cfgs[id] # NoConfig
    /\ target[id] = cfgs[id]
    /\ todo' = todo \ {id}
    /\ UNCHANGED <<pc, current, target, cfgs, domains, backends, catalog, running, applied>>

StoredDomains(id) == IF cfgs[id] = NoConfig THEN {} ELSE cfgs[id].domains
AddedDomains(id) == target[id].domains \ StoredDomains(id)
\* Mutation: domains that both versions list count as removed.
RemovedDomains_All(id) == StoredDomains(id)

RemovedDomains(id) == StoredDomains(id) \ target[id].domains

\* Mutation: the case-2 domains stay in manager.domains.
UpdateConfig_KeepsOwner(id) ==
    /\ NextToLoad(id)
    /\ cfgs[id] # NoConfig
    /\ target[id] # cfgs[id]
    /\ domains' = [d \in Domains |-> IF d \in AddedDomains(id) THEN id ELSE domains[d]]
    /\ AddBackend(AddedDomains(id), backends[id])
    /\ todo' = todo \ {id}
    /\ current' = id
    /\ pc' = "dropping"
    /\ UNCHANGED <<target, cfgs, backends, running, applied>>

UpdateConfig(id) ==
    /\ NextToLoad(id)
    /\ cfgs[id] # NoConfig
    /\ target[id] # cfgs[id]
    /\ domains' = [d \in Domains |->
                     IF d \in AddedDomains(id) THEN id
                     ELSE IF d \in RemovedDomains(id) THEN NoId ELSE domains[d]]
    /\ AddBackend(AddedDomains(id), backends[id])
    /\ todo' = todo \ {id}
    /\ current' = id
    /\ pc' = "dropping"
    /\ UNCHANGED <<target, cfgs, backends, running, applied>>

DropDomains ==
    /\ pc = "dropping"
    /\ RemoveBackend(RemovedDomains(current))
    /\ pc' = "applying"
    /\ UNCHANGED <<current, target, todo, cfgs, domains, backends, running, applied>>

ApplySettings ==
    /\ pc = "applying"
    /\ applied' = [applied EXCEPT ![backends[current]] = target[current].settings]
    /\ current' = NoId
    /\ pc' = "loading"
    /\ UNCHANGED <<target, todo, cfgs, domains, backends, catalog, running>>

\* Mutation: Update returns before the loops are done.
EndUpdate_Early ==
    /\ pc = "loading"
    /\ pc' = "idle"
    /\ todo' = {}
    /\ UNCHANGED <<current, target, cfgs, domains, backends, catalog, running, applied>>

EndUpdate ==
    /\ pc = "loading"
    /\ todo = {}
    /\ pc' = "idle"
    /\ UNCHANGED <<current, target, todo, cfgs, domains, backends, catalog, running, applied>>

Next ==
    \/ BeginUpdate
    \/ \E id \in Ids : RemoveConfig(id)
    \/ CloseBackend
    \/ \E id \in Ids, b \in Backends : AddConfig(id, b)
    \/ \E id \in Ids : KeepConfig(id)
    \/ \E id \in Ids : UpdateConfig(id)
    \/ DropDomains
    \/ ApplySettings
    \/ EndUpdate

Spec == Init /\ [][Next]_managerVars

-----------------------------------------------------------------------------
(* Properties.                                                              *)

\* Types of the manager's maps and of the control of Update
\* (worker/backend_manager.go 26-34).
TypeOK ==
    /\ pc \in {"idle", "loading", "closing", "dropping", "applying"}
    /\ current \in Ids \cup {NoId}
    /\ target \in [Ids -> Config \cup {NoConfig}]
    /\ todo \subseteq Ids
    /\ cfgs \in [Ids -> Config \cup {NoConfig}]
    /\ domains \in [Domains -> Ids \cup {NoId}]
    /\ backends \in [Ids -> Backends \cup {NoBackend}]
    /\ catalog \in [Domains -> Backends \cup {NoBackend}]
    /\ running \subseteq Backends
    /\ applied \in [Backends -> Settings]

BackendsInUse == {backends[id] : id \in Ids} \ {NoBackend}

\* No backend leaks and none is shared: at every step of every Update, whatever
\* the operator edits, the goroutines that run are exactly the ones the manager
\* can still reach to update or close, one per config (addConfig, removeConfig).
BackendsTracked ==
    /\ running = BackendsInUse
    /\ \A i, j \in Ids : i # j /\ backends[i] # NoBackend => backends[i] # backends[j]

\* After an Update the backends are those of the files just read
\* (loadAllConfigs).
BackendsMatchLayout ==
    pc = "idle" => {id \in Ids : backends[id] # NoBackend} = Present(target)

\* Whatever the operator edits, manager.domains has an owner for exactly the
\* routed domains, and a domain whose route leads to a running backend is routed
\* to the backend of that owner (addConfig, removeConfig, updateConfig write the
\* two maps at different places).
OwnersAgree ==
    pc \in {"idle", "loading"} =>
        \A d \in Domains :
            /\ domains[d] = NoId <=> catalog[d] = NoBackend
            /\ catalog[d] \in running => catalog[d] = backends[domains[d]]

\* The operators whose edits the code follows: a file's domain list never
\* changes while the proxy runs.  A domain may still move from a file that
\* goes to a file that comes, and every other field may change.
FixedDomains ==
    \A old, new \in Layouts : \A id \in Present(old) \cap Present(new) :
        old[id].domains = new[id].domains

\* A domain is never routed to a backend that was closed, not even between two
\* steps of an Update (removeConfig unregisters before server.Close, the comment
\* at backend_manager.go:87).  Needs FixedDomains.
RoutesToRunning ==
    \A d \in Domains : catalog[d] # NoBackend => catalog[d] \in running

\* After an Update every domain of the files just read is routed to its own
\* backend and no other domain is routed at all (loadAllConfigs: all removals
\* come before the first addConfig).  Needs FixedDomains.
RoutesMatchLayout ==
    pc = "idle" =>
        \A d \in Domains :
            LET owners == {id \in Present(target) : d \in target[id].domains}
            IN  IF owners = {} THEN catalog[d] = NoBackend
                               ELSE \A id \in owners : catalog[d] = backends[id]

Kept(id, d) ==
    /\ cfgs[id] # NoConfig /\ target[id] # NoConfig
    /\ d \in cfgs[id].domains \cap target[id].domains

\* An Update never interrupts the route of a domain whose file stays, whatever
\* files are added, removed or edited at the same time and whatever else the
\* file itself gains or loses (updateConfig case 3 "both have it, so keep").
\* Only the outdated list of another file (cfgs is never replaced) may take the
\* route away, when that file goes or is edited.
KeptRoutesStable ==
    [][pc # "idle" =>
         \A id \in Ids, d \in Domains :
             Kept(id, d) /\ (\A other \in Ids \ {id} : d \notin StoredDomains(other))
                => catalog'[d] = catalog[d]]_managerVars
=============================================================================
