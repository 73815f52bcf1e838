# Ultraviolet in TLA+

Ultraviolet is a reverse proxy for Minecraft servers. It accepts TCP
connections, reads the handshake, finds the backend that serves the domain in
it, and proxies, answers or closes the connection. Configuration is one file
per backend and can be reloaded while the proxy runs. These modules model its
core logic; TLC checks them on small instances and TLAPS proves the main
theorems for every value of the constants.

## 1. Inventory

The proxy has three modes: the **worker mode** (default, `worker/`), the
**speedy proxy** (`useLessStableMode`, `proxy.go`, `server.go`) and the
**experimental** server (`run-experimental`, `src/`). The first two share
`basic.go`, `core/`, `module/`, `config/` and `mc/`.

`ProcessAnswer` (`worker/worker.go:192`), with the pipes it starts and the reports
it makes on `proxyCh`, has no caller outside tests. In the running program a worker
hands its connection to `ProcessServer` (`basic.go:138`), which asks the backend
through `BackendServer`; nobody reports a connection, and `activeConns` stays 0. The
modules follow that path, and leave `ProcessAnswer` out.

| Component | State | Operations | Interacts with |
|---|---|---|---|
| Backend manager (`worker/backend_manager.go`) | `cfgs`, `domains`, `backends`: maps by file and by domain | `Update` → `loadAllConfigs` → `addConfig`, `removeConfig`, `updateConfig` | calls the worker manager; starts, updates and closes backends; reads files |
| Worker manager, catalog (`worker/worker_manager.go`, `core/server_catalog.go`) | one map domain → server, shared by reference with every worker; the list of workers | `AddBackend`, `RemoveBackend`, `update`, `Find` | sends on each worker's unbuffered `updateCh` |
| Workers (`worker/worker.go`) | the catalog; the connection in hand | `Work` (select), `ReadConnection`, `ProcessConnection` | listeners (`ReqCh`, 50 slots), backends (request and answer) |
| Backend worker (`worker/backend.go`) | settings, `activeConns`; `reqCh` (5), `proxyCh` (10), `updateCh`, `closeCh` | `Work` (select), `HandleRequest`, `UpdateSameGoroutine`, `BackendServer` | state agent, status cache, limiter, dialer, gauge |
| Start-up, listeners, API (`worker/run.go`, `worker/api.go`) | global `ReqCh` and manager | `Start`, `serveListener`, `reloadHandler` | each `/reload` runs in a goroutine of its own |
| Connection processing (`basic.go`) | client and server connection | `FullRun`, `ProcessServer`, `ProxyConnection`, `pipe` | started by workers or by the speedy proxy |
| Speedy proxy (`proxy.go`, `server.go`) | catalog, semaphore of 100,000, a global limiter | `Start`, `ReloadServerCatalog`, `APIServer.*` | one goroutine per connection |
| Limiters (`module/conn_limiter.go`) | counter, window, `limiting`, names, bans | `Allow` | called by a backend's loop or by any connection of the speedy proxy |
| State agent, status cache (`module/state_agent.go`, `module/status_cache.go`) | last answer and its time | `State`, `Status` | dial the server inside the backend's loop |
| Handshake modifiers, dialer (`module/`) | none | `Modify`, `Conn` | |
| Config (`config/`) | none | read, verify, convert | |
| CLI and hot swap (`cmd/main.go`) | tableflip upgrader | run, reload, upgrade | parent and child process |
| Codec (`mc/`) | none | read and write packets | |
| Experimental server (`src/`) | address → upstream map, a shared read buffer, `Servers` | `StartBedrockServer`, `serve`, `BasicProxySetupJava` | a goroutine per packet, one per upstream |

What makes each of them correct:

- **Manager**: after every `Update`, backends and routes are those of the
  files just read; in between, no route leads to a closed backend, no kept
  route is interrupted, no backend leaks.
- **Worker manager, workers, backend worker**: a backend is closed only when
  no worker will use it; every request is answered; neither a reload nor a
  worker waits for ever; settings follow the latest update.
- **Limiter**: bounded admission per window, a legitimate player gets in the
  second time, the limiter ends when configured.
- **State agent, status cache**: answers are no older than their cooldown; a
  failed refresh leaves nothing wrong behind; a request is answered.
- **Sessions**: two peers that stay are not cut off, what was read is passed
  on, and closing one side closes the other.
- **Codec**: packets do not depend on how bytes arrive; the request is what the
  client meant; the parsers agree; RealIP keeps the address.
- **Speedy proxy**: the semaphore is returned, each run ends with the answer its
  request deserves, waiting clients are served.
- **Experimental server**: packets reach the right peer unmixed, one failed
  connection does not stop the others.
- **Hot swap**: somebody always accepts, the shared files stay right, upgrades
  end, existing connections survive.

Hard behaviour: channels of capacity 0, 5, 10 and 50 between goroutines that
wait for each other; an unguarded map shared by writers and readers; random map
order; stored state that is not refreshed; cooldown arithmetic; a buffer handed
to a goroutine and reused; processes that replace one another and may crash.
`PROJECT.json` lists every hazard at its line.

## 2. Plan

| Order | Module | Subject | State |
|---|---|---|---|
| 1 | `BackendManager` | reload of files into backends and routes | checked, proved |
| 2 | `GracePeriod`, `WorkerPool` | manager, workers, backend loops, proxy goroutines and their channels; refines 1 and `GracePeriod` | checked, safety proved |
| 3 | `BotFilter` | the login limiter | checked, proved |
| 4 | `Session` | a connection in worker mode: read, find, ask, dial, pipe, close | checked, safety proved |
| 5 | `ServerProbe` | state agent and status cache in the backend's loop | checked, safety proved |
| 6 | `BackendLoop` | updates of a backend, and the clients that act on its answers | checked, safety proved |
| 7 | `SpeedyProxy` | accept loop, semaphore, every answer of `ProcessServer` | checked, safety proved |
| 8 | `Codec`, `PacketStream` | wire format as functions; the byte stream of a connection | checked, proved |
| 9 | `Experimental` | shared buffer, connections map, serial Java loop | checked, safety proved |
| 10 | `HotSwap` | tableflip (external), processes, connections, pid and key files | checked, safety proved |

Every invariant and action property of a passing run is proved, those about the
bytes of a connection included. Liveness is left to TLC.

## 3. Modules

**BackendManager.** `cfgs`, `domains` and `backends` are the manager's maps,
`catalog` is the map of the worker manager, `running` and `applied` say of each
backend instance whether its goroutine runs and what settings it got last. A
missing key is a `No...` value. One `Update` call is `BeginUpdate`, then for
every file that is gone `RemoveConfig` (unregister) and `CloseBackend`, then for
every other file, in any order, `AddConfig`, `KeepConfig` or `UpdateConfig` –
the latter followed by `DropDomains` and `ApplySettings`, the code's calls to
`RemoveBackend` and `Backend.Update` – and `EndUpdate`. A step is split where
the code waits for another goroutine, so other processes can be put in between.
`updateConfig` does not store the new config, and neither does `UpdateConfig`.

**WorkerPool** extends it with the other goroutines. `toUpdate` is the loop of
`workerManager.update`; a manager step that calls `AddBackend` or `RemoveBackend`
starts it, and the manager goes on when it is over. A worker is `idle` (in its
select), `reading`, `sending` or `waiting`; a proxy goroutine that `ProcessServer`
started is `sending` or `waiting`. `queue` is a backend's `reqCh`, `serving` the
request in its loop's hands. An unbuffered send is one step of both ends, enabled
when the receiver is in its select. Three things end the process: a send on the
closed `reqCh` (`SendPanics`), a map read that meets a map write (`MapRace`), and a
client's string of negative length (`ReadPanics`, `mc/type.go:51, 78`). `Find` looks
the address up in lower case, while `AddBackend` stores domains as they are written:
one written with a capital (`D2` in the run) is in the catalog and never found.

**GracePeriod** is what `RemoveBackend` promises the code that closes a backend:
withdraw it, wait until every reader has let go, retire it. `WorkerPool`
implements it with the workers as readers (`published` is the range of the
catalog, `live` is `running`, `holds` is `asked`).

**BotFilter** is `botFilterConnLimiter.Allow` with the durations
`NewBackendConfig` derives. `Allow` only compares `time.Since(t)` with
durations, so a moment is kept as its age, `Tick` is the passing of time, and
ages stop growing at `MaxAge`, beyond everything they are compared with. The
outcomes of a login are one action each, all of which first roll the window. The
limiter knows an address by what precedes its first ":" (`Key`, `FilterIpFromAddr`):
IPv6 addresses that begin alike share their name and their ban.

**Session** follows one client connection in worker mode. `stage` is how far
`ProcessConnection`, `ProcessServer` and `ProxyConnection` have come with it
(`dropped`: an error was returned and nobody closes the client; `panicked`: the
process has ended); `Probe` is `McServerState.State`, called by each of the two
requests `ConnAction` and `CreateConn` make. A peer's traffic is a count: `sent` by
it, `taken` from its connection by the proxy, `hand` in the pipe's buffer,
`delivered` to the other side. A pipe is named for the side it reads from and goes
`read`, `write`, ..., `over`, `done`; the last step is the close of the other
connection that follows `pipe` in `ProxyConnection`. `BackendServer.HandleRequest`
asks for a status whatever the client wants, and so does `Asked`.

**ServerProbe** is one backend's view of its server. `option`, `known` and
`probeAge` are the state agent (`McServerState` or one of the two constant
ones), `hasCache`, `status` and `cacheAge` the status cache; both are replaced by
`Update`. `loop` follows `HandleRequest`: `TakeRequest`, `Probe` (a dial whose
time shows as an older age), `AnswerCached` or `DialStatus` and `ReadStatus`, or
`AnswerProxy`. The server is down, mute, or shows one of `Contents`; `since` is
a history variable that remembers how long ago it was last so, and the one thing
the properties need that the code has not got.

**BackendLoop** is one backend over updates. `Merged` is `UpdateSameGoroutine`
field by field, after `NewBackendConfig`, the conversion of a file; `Update`,
`Close` and the answers to requests are the cases of the select; `gauge` has the
backend's series. A client's goroutine asks twice, `ConnAction` and `CreateConn`,
then dials and starts two pipes, each of which ends on its own (`PipeEnds`) and
closes the connection it wrote to. Both questions are status requests without an
address, which is why a cache keeps every client from being proxied and a RealIP
modifier panics (`Panics`, `AskPanics`). `DialTarget` differs with
`SendProxyProtocol`, where the code reads the worker's dialer when it is called and
not when the answer is made.

**SpeedyProxy**: `loop` is the accept loop, `claims` the semaphore, `stage` where a
connection's `FullRun` is: the two reads of `ReadStuff`, `LookupServer`, the answer
(`ConnAction`, `ProcessServer`, `CreateConn`), the write, the ping, the return and
the deferred `Unclaim`. The nil catalog (`LookupPanics`) and strings of negative
length (`HandshakePanics`, `SecondPanics`) end the process. `ProcessRequest` is the
code's second, pure form of the same decision and the reference the run's answers
are compared with.

**Codec** has the wire format as functions on byte sequences, with `More`, `Word`
and `MaxGroups` for 2^7, 2^32 and 5. A decoder returns an error or a value
and the rest. Separators in an address are sequences, one zero for Forge and three
times `Slash` for RealIP, and an address is split where they come first.
**PacketStream** puts a buffered reader before it, which is fed in pieces of any size,
then `ReadStuff` (which `ReadConnection` repeats line by line), with the host it makes
of the address in lower case, and what `SendResponse` writes. What the handshake
modifiers do to an address is a property of the functions, as the running program
writes the handshake to nobody.

**Experimental**: a datagram stands for the goroutine that serves it. `buf` is
the one buffer of a loop; `Seen` is what a goroutine may read there, which is
anything in between (`Mixed`) once another datagram has met the buffer. `upstream`
is the map `connections`. Before that `Run` reads the Bedrock files, which may be
bad, panic (`listenTo` without ":") or not be there at all, opens a socket for each
(`CreateBedrockListener`, or the `log.Panicf` of `ListenPacketFails`) and reads the
Java files while the Bedrock loops run. Datagrams in `Short` are too short for a
ping: if their goroutine takes one for a ping, `PingUnreadable` ends it. Java
connections go through `ReadPacketData`, `ConnectToServer` and two pipes, one at a
time.

**HotSwap**: `stage` is how far a process is in `RunProxy` (configuration, pid file,
socket, start, serving, announcing, leaving). `upg.Ready` is two steps, the pid file
(`WritePid`) and the word to the parent (`Ready`), and may fail before and between
them. tableflip is modelled by what it promises: a child inherits the socket, a
second upgrade is refused while one is under way, a child that is not ready in time
is killed. The key files are written in the code's four steps, with a crash possible
between any two.

`MC...` modules hold the layouts and symmetry sets for TLC; `...Proofs` modules
hold the theorems. Definitions called `X_<bug>` (or `X_` and a short name) are
mutated forms of `X`, each a plausible bug; no specification uses them. They
show that the property they are listed with can fail.

## 4. Runs

| Run | Instance | Shows |
|---|---|---|
| `reload_any_edit` | 3 files, 2 domains, 2 settings, all valid layouts, 4 backends | what holds under any edit: no leaked or shared backend, `domains` and `catalog` agree, routes of domains that stay are not interrupted |
| `pool` | 2 workers, 1 proxy goroutine, queue of 1, 2 files, 2 backends; f2 may take f1's domain over, lists are otherwise fixed | workers only on running backends, routes exact, requests neither lost nor doubled, `GracePeriod` implemented, workers return, every `Update` ends |
| `bot_filter` | 3 addresses of 2 keys, 2 names, limit 2, window 2, ban 4, unverify 5 | the three limiter properties |
| `session` | one client, 3 units of traffic each way, no status cache, no RealIP | two staying peers are not cut off, last words arrive, both sides end together |
| `speedy` | 2 connections, 1 slot, 4 files and an address nobody serves | claims returned, right answers, closed connections, no panic but the nil catalog's and that of a negative length, waiting clients served |
| `probe` | 2 statuses, cooldowns 1 and 2, ages to 4 | answers at most a cooldown old, whatever fails in between; only silence keeps a request |
| `backend` | 2 clients, 5 edits of a file | latest settings, right server, what is closed and what is not, what a cache or RealIP does for ever |
| `wire` | game clients (a plain host and 14 of letters and slashes, 6 kinds of marks behind it) cut off anywhere, all sequences of up to 5 bytes out of 5, odd ones; groups of 2 bits (`More` 4), words of 7 (`Word` 128) | packets independent of pieces, request as meant, parsers agree, the ping comes back, RealIP keeps the address |
| `experimental` | 4 datagrams of 2 addresses, 2 Java connections, 8 cases of directory and clients | intact packets, a connection per address, the loop goes on unless a client holds it |
| `hot_swap` | 3 processes, 1 client, 1 crash | somebody accepts, pid and key files right but for two cases, upgrades end |
| `swap_cuts_connections` | 2 processes, 1 client | violated: see below |
| `handshake_swallowed` | as `session` | violated |

The type invariants of `BackendManager`, `WorkerPool`, `BotFilter` (whose
definitions carry the prefix `Limiter`) and `Session` are proved (section 5) and not
run again.

**Bounds.** Three files are enough for one to stay while two others exchange a
domain. Four backends leave a fresh instance for every `AddConfig` while an old one
is still referred to by a route or a goroutine (one per file suffices when lists are
fixed). The number of reloads and updates is not bounded. Two workers are needed for
`update` to stop between workers; a queue of one is empty, full, and has somebody
waiting for it. Goroutines beyond `Goroutines` are not followed: the run behaves as
if they were never scheduled. In the limiter, limit 2 makes the first, the last
admitted and the first refused login distinct; the durations are different, and
`MaxAge` is the largest sum the properties mention. In a session two units are the
handshake and the second packet, the third is what is proxied or what the buffered
reader took with them; a server's three make several reads of different sizes. One
client is enough because others reach it through the state agent only, whose answer
may change or go stale at any time. One slot and two connections make one wait for
the other. The two cooldowns differ, so an answer may be fresh for one and stale for
the other. In the codec words wider than three groups and a top bit keep the limit
of a VarInt, its sign and the bits shifted out apart, as 32 bits in five bytes of 7
do; bytes of three bits leave room for the zero, the slash, a capital letter and its
small one, and the hosts are all sequences of up to three letters and slashes but
the separator itself. Two datagrams share an address, from different ports; the
other address sends a ping and a short one. Two of the three addresses share a key
of the limiter. Three processes are a parent, its child and the child's child.

**Violated statements.**
1. `KeepsConnections`: README.md:53 promises a hot swap "without closing existing
   connections"; `RunProxy` returns at `<-upg.Exit()` (`cmd/main.go:112`), and the
   wait for connections is commented out.
2. `NothingSwallowed`: the packets read to find the backend are not passed on
   (`basic.go:163`).

**Seen while modelling**, in the definitions and without a run of their own:
- `updateConfig` compares with a config it never replaces (`backend_manager.go:93`):
  a file edited and edited back keeps the first edit's settings; a domain added
  later keeps its route to a closed backend when the file is removed (`:85`). This
  is why `RoutesToRunning` and `RoutesMatchLayout` assume that a file's domain list
  stays fixed (`FixedDomains`), and why `KeptRoutesStable` excepts domains another
  file's stored config still has.
- A domain that moves between two edited files may lose its route, depending on map
  order (`:145`). A domain written with a capital is never found
  (`core/server_catalog.go:38`).
- A proxy goroutine asks the backend again outside the protection of `update`
  (`basic.go:142`, `SendPanics`); the catalog's map is read and written without a
  lock (`MapRace`).
- A status answer becomes `PROXY`, then an error (`worker/backend.go:336`); with
  a status cache every login is dropped (`:366`); a backend with RealIP panics,
  because the request it gets has no address (`:300`).
- The limiter gets two durations in each other's place (`worker/backend.go:54`), and
  refuses or bans an IPv6 client for a name another one has used, when their
  addresses begin alike (`module/conn_limiter.go:14`).
- A handshake or a login whose string has a negative length ends the process, in
  worker and in speedy mode (`mc/type.go:51, 78`).
- A host that ends in "/" loses that end behind RealIP (`mc/packet_login.go:184`).
- A client whose connection cannot be made is never closed (`basic.go:164`), and
  neither is a server that was dialled but could not be sent a PROXY header
  (`worker/backend.go:294`).
- A modifier or status cache cannot be switched off by an update (`:205`).
- A process that takes over finds the API port taken and goes on without one
  (`worker/api.go:29`); in speedy mode `Start` never returns (`proxy.go:34`), so
  `Ready` is never called and upgrades time out; a SIGHUP before `signal.Notify`
  ends the process; a public key file that was lost in a crash is never written
  again (`config/file.go:72`), and processes go on signing with the private half. A
  child that ends after it has written the pid file and before it has told its parent
  leaves its own pid there (`cmd/main.go:109`): no signal reaches the parent any more.
- In the experimental server `Servers` holds `listenTo` and not `proxyTo`
  (`src/server.go:45`); an address that is not listed ends the process
  (`src/server.go:157`); an upstream connection whose `Read` failed stays in the map,
  with nobody reading replies (`src/server.go:101`); one silent client stops the Java
  loop for ever (`src/server.go:148`).

**Fairness.** In all modules goroutines that can run are scheduled (weak fairness of
each process's own steps), reads under a deadline end, and nothing is assumed of
operators, signals or of anything failing. `WorkerPool!FairPoolSpec`: Go's `select`
chooses among ready cases at random and channel operations are served first come
first served, so a send or receive that is possible again and again happens (strong
fairness of the rendezvous and of `Send`). `HandleRequest` is taken to return there;
`ServerProbe` shows when it does. `Session!FairSpec`: the two pipes are scheduled;
that a write ends assumes a peer that reads or leaves, as TCP cannot tell a slow
one. `SpeedyProxy!FairSpec`: the loop and each run go on; the clients need not,
since deadlines end what they do not. `ServerProbe!FairSpec`: the loop goes on and
dials end by their timeout. `Experimental!FairSpec`: the process runs its
goroutines. Nothing is assumed of Java clients, who face no deadline;
`BacklogServed` therefore allows one that holds the loop for ever (`Holds`), and no
other reason to wait for ever. `HotSwap!FairSpec`: each process runs, leaves when
told to, and tableflip keeps its timeout.

## 5. Proofs

Each theorem holds for every value of the constants its module's named
assumption allows. For each module there is one inductive invariant, made of
named parts; the theorems follow from it.

*WorkerPoolProofs* is about the whole worker mode: the manager first, then the
pool, which extends it and whose proofs rest on the manager's.

Manager. `Inv` strengthens `TypeOK` and `BackendsTracked` with what the control
implies: which files have a backend at each `pc`, given what is left in `todo`. From
it: `TypeCorrect`, `NoBackendLeaks`, `ReloadMatchesLayout`, for every set of
layouts. `RouteInv` adds, under `FixedDomains`, that each stored config agrees with
the latest file in its domain list and that the catalog is exactly what `cfgs` says,
less what the current step has unregistered; it is needed because a route is only
correct relative to the stored configs, which `RoutesToRunning` does not mention.
From it: `NoRouteToClosed`, `ReloadRoutesExactly`. Without `FixedDomains` these are
false (section 4). `ReloadKeepsRoutes` needs no such assumption, only `Inv`: it is
about each step, and a step takes a route away only if it is of the file that has it
or of another whose stored list has the domain. `OwnersFollowRoutes` does not need
it either: `OwnersInv` carries `OwnersAgree` through the middle of an `Update`,
where the domains that `DropDomains` is about to unregister have lost their owner
and still have their route.

Pool. Every step of the pool is a step of the manager or leaves its variables
alone (`PoolRefinesManager`), which carries the above over. `PoolTypeCorrect` is
inductive with `TypeOK`. `WorkersNeverUseClosed` needs `DrainInv`: while a backend
is being removed, a worker that still holds it has an index not yet passed by
`toUpdate`, so none is left when `update` ends. `RequestsNeverLost` is inductive
with the types once a queue is seen through `Holds` and `Distinct`, whose lemmas
say what `Append`, `Tail` and `Head` do to a queue without repetition.
`WorkersImplementGracePeriod` is the refinement, step by step: what is published
is what `cfgs` stores (`PublishedIsStored`, from `RouteInv`), so `RemoveConfig` and
`DropDomains` withdraw, `DrainInv` is the guard of retiring, and all other steps are
publishing, acquiring, letting go or a stutter.

*ConnectionProofs*, the limiter. `LimiterTypeCorrect`; `WindowAdmitsAtMostLimit`, by
the invariant that admitted logins are counted ones; `OneNameIsEnough`, by the
invariant that a ban of a key, or a second refusal of one of its addresses, has two
names used with that key as its cause; `LimiterLiftsOnTime`, by `LastOverKnown`:
while the limiter is on, the start of the last window above the limit (`aboveAge`,
or `windowAge` if it is the present one) lies within one window of the last login
above it, which is what the property counts from.

*ConnectionProofs*, the pipes. One invariant in three parts. `Accounted`: what is
delivered or in hand was read, and what was read was sent, which bounds the counts
of `TypeOK`. `Started`: pipes run exactly when the connection is proxied, and from
then on there is no deadline. `Closing`: a connection is closed exactly when the
other side's pipe is done, and a pipe that is over while the other one runs between
two peers of which the far one stays has passed on everything. From them:
`TypeCorrect`, `OnlyLeaversAreClosed`, `LastWordsAreHeard`.

*BackendLoopProofs.* `UpdatesAreFollowed`: `Settled`, which says of each setting
whether it is the latest or may be left over, is inductive with the types.
`SwitchesAlwaysStick` rests on `Kept`: what any file has switched on is what the
worker has now, so no request can be answered by a connection once something is.
`ClientsAlwaysHandled` needs `ClientInv`, which ties what is open at each stage to
the pipes that still run: the client while the server's pipe does, the server while
the client's does, whichever ends first.

*SpeedyProxyProofs.* `SpeedyTypes` needs `Claimed`, the semaphore's count as the
cardinality of the running goroutines, which is finite-set reasoning over the set
each step adds to or takes from. `RunsEndAsPromised` needs `RunInv`, what a run has
read, written and left open at each stage, and `PanicStep`, which looks at what each
step that ends the process was given; `Meant` ties the packet it is about to write
to `ProcessRequest` for one answer of the limiter, and `SentSoFar` says that a
packet is written at the stages that follow and only there.

*ServerProbeProofs.* `ProbeInv`: what the agent and the cache know was true of the
server within their age (`AgentKnows`, `CacheKnows`), while a request is being
answered the agent's word is within its cooldown (`AgentAsked`), and what the
server is now it was no time ago (`NowKnown`), needed because a dial that succeeds
makes `known` young. From it `ProbeTypes`, whose last conjunct is that what the
cache would serve is a status, and `AnswersNeverStale`.

*HotSwapProofs.* `Family`: a process with a parent is alive, its parent is ready,
serves or leaves and has no parent itself, two living processes are parent and
child, and the one that serves is the one in the pid file, or has passed the file on
to a child that has not told it yet or has ended (`PidPassed`). It is inductive by
`famVars`, in which most steps are `Advance`, `EndStep` or `Quiet`. From it
`SwapTypes` (at most two processes), `SwapsLeaveNoGap`, and the pid half of
`SwapsShareFiles`; the other half needs `KeyInv`, how far the files are while one
process makes the pair, that nobody has signed with a key by then, and that a
private key without its public half was made by a process that ended in between.

*ExperimentalProofs.* `StartInv`: which files `Run` has accepted and which it
serves. `Met`: datagrams whose goroutines overlap have been marked as having met, in
the buffer or in the map. `Alone`: one that met nobody has its own bytes before it
at each of its stages. `MapHolds`: what the map or a goroutine has for an IP was
opened by that IP, with a goroutine started to bring replies back, and a goroutine
on its way to store found the entry missing if no other datagram of the IP came
between. `JavaInv`: the loop is busy exactly with the one connection in service.
From them `ExperimentalTypes`, `PacketsStayIntact`, `RepliesFindTheirIP`,
`UpstreamIsKept`.

*PacketStreamProofs.* Induction is the difficulty: the library's theorems take an
operator, so `Induction` and `StrongInduction` are proved for sets of numbers, from
the least element of a set. With them each recursive function of `Codec` and
`After` is shown to exist and to be unique, hence to satisfy its own definition
(`PowerDef`, `GroupsValueDef`, `EncodeDef`, `AfterDef`). Then, in layers:
1. What is written can be read, whatever follows: `VarIntRoundTrip` (the decoder's
   sum after `k` bytes is the remainder of the number by `More^k`, and no other end
   of the VarInt comes first), `PacketRoundTrip`, `HandshakeRoundTrip`.
2. What was read was written that way (the lemmas named `...Splits`), so what was
   read stays read when more bytes come (`AfterMore`), and the parsers agree on any
   input, `ReadersAlwaysAgree`, whence `StreamReadersAgree`: a length that one of
   them takes as negative is refused, or panics, in the other.
3. The invariant `Reader` is inductive (`ReaderKept`). `Phases`: how many packets
   have been read at each stage, and that a length under way has not ended.
   `PacketsRead` and `RestUnread`: the packets are the first ones of `script`, and
   what follows them there is `Pending`, which is the part in hand, the buffer and
   what has not been fetched. `Sent`: `script` is a beginning of all the client
   means to send, so by `AfterMore` the next packet to be read is the one it means
   (`Understood`). `HonestAccepted` is inductive with these. From it
   `ClientsAlwaysUnderstood`; for a host, a mark of Forge or RealIP and a name of
   any length, `HostParsed`.
4. The invariant `Written` says what has been written, byte by byte, in terms of the
   packets read, and is inductive with `Reader` (`StreamKept`). `FramingAlwaysKept`
   follows from both. `AddressesAlwaysKept` is about what RealIP makes of any
   address (`PutShape`, `Tagged`): host, address, time, signature, mark, each where
   the server looks for it. The separator of RealIP has three bytes, so where it
   comes first depends on what stands before it: `BeforeMore` and its kin say when
   the first place stays the first as bytes are added, which a host that ends in "/"
   breaks.

*Assumptions.* Those the modules name: `MissingKeysAssumption`, `ToLowerAssumption`,
`LayoutsAssumption`, `PoolAssumption`, `FilterIpAssumption`, `BotFilterAssumption`,
`SessionAssumption`, `LoopAssumption`, `SpeedyAssumption`, `ProbeAssumption`,
`HotSwapAssumption`, `ExperimentalAssumption`, `CodecAssumption`,
`PacketStreamAssumption`. They say that sizes are natural numbers, positive where
the code makes a channel or a window of them; that clients, connections and
datagrams are finitely many, however many; that the values for "missing" are none of
the values they stand beside, nor the words for a state one of the names; that lower
case and keys are functions on the names and addresses; and what the configuration
readers have verified. `CodecAssumption`: bytes have one bit more than a group, a
word is a multiple of a byte, `MaxGroups` groups hold a word, and the slash is a
byte other than zero. `PacketStreamAssumption`: what a game client puts into a
handshake has the types of the protocol, hosts have no separator in them and what
mods put behind begins with one, and every text, with what RealIP adds to it, is
shorter than the largest int32 (`Fits`), beyond which the length of a packet would
be negative (a string of negative length is among the run's byte sequences). TLC
evaluates each on its run. `FixedDomains` is not among them: the four theorems that
need it say so.

*Only model-checked:* liveness (`UpdateEnds`, `WorkersReturn`, `RequestsAnswered`,
`EndTogether`, `BacklogServed` of both modules, `UpgradeEnds`:
fairness and ENABLED are out of the prover's reach).

## 6. Not modelled

- Overlapping `/reload` requests: concurrent map writes may end the process at
  any step, and nothing in the repository says what such requests should do.
- JSON texts, default values, walking directories, logging and metrics output;
  the fields of Bedrock's ping and pong packets.
- Code only tests call and without state of its own: `absoluteConnlimiter`,
  `NotSafeYet_ProcessConnection`, `KnowsDomain`. `ProcessAnswer`, its pipes, and
  with them `proxyCh` and `activeConns` (section 1).
- Running without tableflip (the process never ends) and the `reload` command
  (a call of `/reload`).
- Type declarations, generated code, examples and scripts.
- What the speedy mode's package-level limiter answers when several goroutines
  call it: no file can switch it on (`config/file.go:140`), and `SpeedyProxy`
  leaves the answer open.
