----------------------------- MODULE WorkerPool -----------------------------
(***************************************************************************)
(* The worker mode as a whole: the goroutine that runs                     *)
(* BackendManager.Update, the workers (worker/worker.go), one goroutine    *)
(* per backend (worker/backend.go) and the goroutines ProcessServer starts *)
(* for proxied connections (basic.go), each a process, with the channels   *)
(* between them:                                                           *)
(*   - updateCh of a worker, closeCh and updateCh of a backend and the     *)
(*     answer channel are unbuffered: a step of both ends;                 *)
(*   - reqCh of a backend is buffered (ReqCap; 5 in the code).             *)
(* The catalog map is shared and unguarded: a worker that reads it while   *)
(* the manager is about to write it may end the process ("concurrent map   *)
(* read and map write"), and a send on the closed reqCh of a backend does. *)
(***************************************************************************)
EXTENDS BackendManager, Naturals, Sequences

CONSTANTS
    NumWorkers,   \* config.NumberOfWorkers
    Goroutines,   \* proxy goroutines followed at the same time (a bound)
    ReqCap,       \* capacity of a backend's reqCh
    NoRequester

Workers == 1..NumWorkers
Requesters == Workers \cup Goroutines

ASSUME PoolAssumption ==
    /\ NumWorkers \in Nat \ {0}
    /\ ReqCap \in Nat \ {0}
    /\ Goroutines \cap Nat = {}
    /\ NoRequester \notin Requesters

VARIABLES
    toUpdate,  \* the worker workerManager.update sends the catalog to next
    phase,     \* where each worker, or proxy goroutine, is
    asked,     \* the backend it has found and may still send a request to
    queue,     \* reqCh of each backend: who waits for an answer, in order
    serving,   \* whose request the backend's loop is handling
    dead       \* a panic or a fatal error has ended the process

poolVars == <<toUpdate, phase, asked, queue, serving, dead>>
vars == <<managerVars, poolVars>>

PoolInit ==
    /\ Init
    /\ toUpdate = NumWorkers + 1
    /\ phase = [r \in Requesters |-> "idle"]
    /\ asked = [r \in Requesters |-> NoBackend]
    /\ queue = [b \in Backends |-> <<>>]
    /\ serving = [b \in Backends |-> NoRequester]
    /\ dead = FALSE

-----------------------------------------------------------------------------
(* workerManager.update: a send on each worker's updateCh in turn, which a  *)
(* worker receives only in its select.  AddBackend and RemoveBackend return *)
(* after the last one.                                                      *)

UpdateDone == toUpdate = NumWorkers + 1

\* Mutation: updateCh is buffered, so the send does not wait for the select.
UpdateWorker_NoWait ==
    /\ ~dead
    /\ toUpdate \in Workers
    /\ toUpdate' = toUpdate + 1
    /\ UNCHANGED <<managerVars, phase, asked, queue, serving, dead>>

UpdateWorker ==
    /\ ~dead
    /\ toUpdate \in Workers
    /\ phase[toUpdate] = "idle"
    /\ toUpdate' = toUpdate + 1
    /\ UNCHANGED <<managerVars, phase, asked, queue, serving, dead>>

(* The manager's steps.  Those that call AddBackend or RemoveBackend start  *)
(* an update; Close and Update of a backend meet its loop in the select.    *)

InSelect(b) == serving[b] = NoRequester

ManagerReads ==
    /\ ~dead /\ UpdateDone
    /\ BeginUpdate \/ EndUpdate \/ \E id \in Ids : KeepConfig(id)
    /\ UNCHANGED poolVars

\* Mutation: AddBackend and RemoveBackend write the map and do not update().
ManagerRoutes_NoUpdate ==
    /\ ~dead /\ UpdateDone
    /\ \/ \E id \in Ids : RemoveConfig(id) \/ UpdateConfig(id)
       \/ DropDomains
       \/ \E id \in Ids, b \in Backends :
             AddConfig(id, b) /\ \A r \in Requesters : asked[r] # b
    /\ UNCHANGED poolVars

ManagerRoutes ==
    /\ ~dead /\ UpdateDone
    /\ \/ \E id \in Ids : RemoveConfig(id) \/ UpdateConfig(id)
       \/ DropDomains
       \/ \E id \in Ids, b \in Backends :
             AddConfig(id, b) /\ \A r \in Requesters : asked[r] # b
    /\ toUpdate' = 1
    /\ UNCHANGED <<phase, asked, queue, serving, dead>>

\* Mutation: the backend is stopped in the middle of a request.
ManagerCloses_Busy ==
    /\ ~dead /\ UpdateDone
    /\ CloseBackend
    /\ UNCHANGED poolVars

ManagerCloses ==
    /\ ~dead /\ UpdateDone
    /\ CloseBackend
    /\ InSelect(backends[current])
    /\ UNCHANGED poolVars

ManagerApplies ==
    /\ ~dead /\ UpdateDone
    /\ ApplySettings
    /\ InSelect(backends[current])
    /\ UNCHANGED poolVars

\* The manager's next step writes the shared map.
MapWriteDue ==
    /\ UpdateDone
    /\ \/ pc = "loading" /\ ToRemove # {}
       \/ \E id \in todo : NextToLoad(id) /\ AddedDomains(id) # {}
       \/ pc = "dropping" /\ RemovedDomains(current) # {}

-----------------------------------------------------------------------------
(* A worker: Work, ProcessConnection, and the request BackendServer makes.  *)

TakeConn(w) ==
    /\ ~dead
    /\ phase[w] = "idle"
    /\ phase' = [phase EXCEPT ![w] = "reading"]
    /\ UNCHANGED <<managerVars, toUpdate, asked, queue, serving, dead>>

\* ReadConnection fails (too slow, closed, not a handshake).
ReadFails(w) ==
    /\ ~dead
    /\ phase[w] = "reading"
    /\ phase' = [phase EXCEPT ![w] = "idle"]
    /\ UNCHANGED <<managerVars, toUpdate, asked, queue, serving, dead>>

\* ReadConnection panics on a string of negative length; a worker's goroutine
\* does not recover, so the process ends.
ReadPanics(w) ==
    /\ ~dead
    /\ phase[w] = "reading"
    /\ dead' = TRUE
    /\ UNCHANGED <<managerVars, toUpdate, phase, asked, queue, serving>>

\* ReadConnection succeeds and Find answers; an unknown domain ends the work.
Lookup(w, d) ==
    /\ ~dead
    /\ phase[w] = "reading"
    /\ phase' = [phase EXCEPT ![w] = IF Find(d) = NoBackend THEN "idle" ELSE "sending"]
    /\ asked' = [asked EXCEPT ![w] = Find(d)]
    /\ UNCHANGED <<managerVars, toUpdate, queue, serving, dead>>

\* The unguarded read meets the manager's write.
MapRace(w) ==
    /\ ~dead
    /\ phase[w] = "reading"
    /\ MapWriteDue
    /\ dead' = TRUE
    /\ UNCHANGED <<managerVars, toUpdate, phase, asked, queue, serving>>

\* wrk.ch <- backendReq, by a worker (ConnAction) or a proxy goroutine
\* (CreateConn).
Send(r) ==
    /\ ~dead
    /\ phase[r] = "sending"
    /\ asked[r] \in running
    /\ Len(queue[asked[r]]) < ReqCap
    /\ queue' = [queue EXCEPT ![asked[r]] = Append(@, r)]
    /\ phase' = [phase EXCEPT ![r] = "waiting"]
    /\ UNCHANGED <<managerVars, toUpdate, asked, serving, dead>>

SendPanics(r) ==
    /\ ~dead
    /\ phase[r] = "sending"
    /\ asked[r] \notin running
    /\ dead' = TRUE
    /\ UNCHANGED <<managerVars, toUpdate, phase, asked, queue, serving>>

-----------------------------------------------------------------------------
(* A backend's loop: take a request, handle it, send the answer.  After     *)
(* close(reqCh) the loop has returned and what is left in the queue stays.  *)

TakeRequest(b) ==
    /\ ~dead
    /\ b \in running
    /\ InSelect(b)
    /\ queue[b] # <<>>
    /\ serving' = [serving EXCEPT ![b] = Head(queue[b])]
    /\ queue' = [queue EXCEPT ![b] = Tail(@)]
    /\ UNCHANGED <<managerVars, toUpdate, phase, asked, dead>>

\* Mutation: a worker asks again instead of starting a proxy goroutine.
AnswerWorker_AskAgain(b) ==
    /\ ~dead
    /\ serving[b] \in Workers
    /\ serving' = [serving EXCEPT ![b] = NoRequester]
    /\ phase' = [phase EXCEPT ![serving[b]] = "sending"]
    /\ UNCHANGED <<managerVars, toUpdate, asked, queue, dead>>

\* ConnAction turns every answer BackendServer can get into PROXY, so the
\* worker starts a proxy goroutine and goes back to its select.  When all of
\* Goroutines are taken the new one is not followed: it is never scheduled.
AnswerWorker(b) ==
    LET w == serving[b]
        free == {g \in Goroutines : phase[g] = "idle"}
    IN  /\ ~dead
        /\ w \in Workers
        /\ serving' = [serving EXCEPT ![b] = NoRequester]
        /\ \/ \E g \in free :
                /\ phase' = [phase EXCEPT ![w] = "idle", ![g] = "sending"]
                /\ asked' = [asked EXCEPT ![w] = NoBackend, ![g] = b]
           \/ /\ free = {}
              /\ phase' = [phase EXCEPT ![w] = "idle"]
              /\ asked' = [asked EXCEPT ![w] = NoBackend]
        /\ UNCHANGED <<managerVars, toUpdate, queue, dead>>

\* CreateConn returns; the goroutine needs the backend no more.
AnswerGoroutine(b) ==
    LET g == serving[b]
    IN  /\ ~dead
        /\ g \in Goroutines
        /\ serving' = [serving EXCEPT ![b] = NoRequester]
        /\ phase' = [phase EXCEPT ![g] = "idle"]
        /\ asked' = [asked EXCEPT ![g] = NoBackend]
        /\ UNCHANGED <<managerVars, toUpdate, queue, dead>>

-----------------------------------------------------------------------------
\* A process that has ended takes no step.
Ended == dead /\ UNCHANGED vars

Manager == ManagerReads \/ ManagerRoutes \/ ManagerCloses \/ ManagerApplies \/ UpdateWorker

Worker(w) ==
    \/ TakeConn(w)
    \/ ReadFails(w)
    \/ ReadPanics(w)
    \/ \E d \in Domains : Lookup(w, d)
    \/ MapRace(w)

PoolNext ==
    \/ Manager
    \/ \E w \in Workers : Worker(w)
    \/ \E r \in Requesters : Send(r) \/ SendPanics(r)
    \/ \E b \in Backends : TakeRequest(b) \/ AnswerWorker(b) \/ AnswerGoroutine(b)
    \/ Ended

PoolSpec == PoolInit /\ [][PoolNext]_vars

(* Fairness.  Goroutines run (weak fairness).  A worker's read ends by its  *)
(* deadline.  Go's select picks among ready cases at random and serves      *)
(* blocked senders in order, so a send or a receive that is possible again  *)
(* and again happens (strong fairness).  HandleRequest is taken to return.  *)
Fairness ==
    /\ WF_vars((EndUpdate \/ \E id \in Ids : KeepConfig(id)) /\ ManagerReads)
    /\ WF_vars(ManagerRoutes)
    /\ SF_vars(ManagerCloses)
    /\ SF_vars(ManagerApplies)
    /\ SF_vars(UpdateWorker)
    /\ \A w \in Workers : WF_vars(ReadFails(w) \/ \E d \in Domains : Lookup(w, d))
    /\ \A r \in Requesters : SF_vars(Send(r))
    /\ \A b \in Backends : WF_vars(TakeRequest(b)) /\ WF_vars(AnswerWorker(b) \/ AnswerGoroutine(b))

FairPoolSpec == PoolSpec /\ Fairness

-----------------------------------------------------------------------------
(* Properties.                                                              *)

\* Types of the pool's channels and control (worker/worker.go 57-66,
\* worker/backend.go 124-152).
PoolTypeOK ==
    /\ toUpdate \in 1..(NumWorkers + 1)
    /\ phase \in [Requesters -> {"idle", "reading", "sending", "waiting"}]
    /\ asked \in [Requesters -> Backends \cup {NoBackend}]
    /\ queue \in [Backends -> Seq(Requesters)]
    /\ serving \in [Backends -> Requesters \cup {NoRequester}]
    /\ dead \in BOOLEAN

\* A worker never holds a backend that has been closed, so it neither panics on
\* a closed reqCh nor waits for an answer nobody will give
\* (backend_manager.go:87: "so a worker doesnt send a request to a closed
\* backend").  Needs FixedDomains.
WorkersOnRunning ==
    \A w \in Workers : asked[w] # NoBackend => asked[w] \in running

\* Every request that a running backend owes an answer to is in its queue or in
\* its hands, once, and a backend that was closed has none in its hands
\* (BackendServer.HandleRequest, BackendWorker.Work).
RequestsAccounted ==
    \A b \in Backends :
        /\ \A r \in Requesters :
              phase[r] = "waiting" /\ asked[r] = b <=>
                 \/ serving[b] = r
                 \/ \E i \in 1..Len(queue[b]) : queue[b][i] = r
        /\ \A i, j \in 1..Len(queue[b]) : i # j => queue[b][i] # queue[b][j]
        /\ \A i \in 1..Len(queue[b]) : queue[b][i] # serving[b]
        /\ b \notin running => serving[b] = NoRequester

\* Every worker that takes a connection is back in its select some time later,
\* whatever the manager removes meanwhile (worker.go 84-101).
WorkersReturn ==
    \A w \in Workers : phase[w] # "idle" ~> (phase[w] = "idle" \/ dead)

\* Every Update ends, however busy workers and backends are kept
\* (workerManager.update and the rendezvous with the backends).
UpdateEnds == pc # "idle" ~> (pc = "idle" \/ dead)

\* The workers implement the grace period: a backend is closed only when it is
\* out of the catalog and no worker holds it (workerManager.RemoveBackend).
Grace == INSTANCE GracePeriod
            WITH Readers <- Workers, Resources <- Backends, None <- NoBackend,
                 published <- {catalog[d] : d \in Domains} \ {NoBackend},
                 live <- running,
                 holds <- [w \in Workers |-> asked[w]]

ImplementsGracePeriod == Grace!Spec
=============================================================================
