------------------------------ MODULE HotSwap ------------------------------
(***************************************************************************)
(* Processes of the proxy that replace one another (cmd/main.go): each     *)
(* reads its configuration, takes the listening socket from tableflip,     *)
(* starts the proxy (worker/run.go, proxy.go), tells its parent that it is *)
(* ready, and leaves when its own child is.  With them what they share:    *)
(* the socket and its backlog, the pid file, the port of the API, and the  *)
(* files of a generated RealIP key (config/file.go).                       *)
(*                                                                         *)
(* tableflip itself, SIGHUP and the supervisor that starts the first       *)
(* process are external.  A key is named by the process that made it.      *)
(* Files are written without errors; the metrics port goes the way of the  *)
(* API's.                                                                  *)
(***************************************************************************)
EXTENDS FiniteSets, Naturals

CONSTANTS
    Procs, Conns,
    NoProc,
    Empty,          \* a file that was created and not yet written
    MaxCrashes      \* (a bound)

ASSUME HotSwapAssumption ==
    /\ NoProc \notin Procs /\ Empty \notin Procs /\ Empty # NoProc
    /\ \A p \in Procs : p \notin {"absent", "backlog", "cut"}
    /\ MaxCrashes \in Nat

VARIABLES
    stage,      \* how far each process is
    mode,       \* "worker" or "speedy" (cfg.UseLessStableMode when it started)
    parent,     \* of a process that has not been ready yet
    ready,      \* processes that have called upg.Ready
    hup,        \* processes with a SIGHUP in their channel
    pidFile,
    conn,       \* each client's connection: the process that has it
    api,        \* the process that listens on cfg.APIBind
    listed,     \* a file with useRealIPv2.5 is in the directory
    keyStep,    \* how far each process is with its key
    key,        \* the key it signs with
    private, public,    \* the key files
    crashes,
    contended,  \* (history) two processes made a key at the same time
    cutShort    \* (history) processes that ended with only the private key written

procVars == <<stage, mode, parent, ready, hup, pidFile>>
keyVars == <<keyStep, key, private, public, contended, cutShort>>
vars == <<procVars, conn, api, listed, keyVars, crashes>>

Alive(p) == stage[p] \notin {"absent", "gone"}
HasSocket(p) == stage[p] \in {"starting", "serving", "announcing", "leaving"}
Accepting(p) == stage[p] \in {"serving", "announcing", "leaving"}
Child(p) == {q \in Procs : parent[q] = p}

Init ==
    /\ stage = [p \in Procs |-> "absent"] /\ mode = [p \in Procs |-> "worker"]
    /\ parent = [p \in Procs |-> NoProc] /\ ready = {} /\ hup = {} /\ pidFile = NoProc
    /\ conn = [c \in Conns |-> "absent"] /\ api = NoProc /\ listed \in BOOLEAN
    /\ keyStep = [p \in Procs |-> "none"] /\ key = [p \in Procs |-> NoProc]
    /\ private = NoProc /\ public = NoProc
    /\ crashes = 0 /\ contended = FALSE /\ cutShort = {}

-----------------------------------------------------------------------------
(* A process ends: its connections with it, and the backlog when it was the *)
(* last to hold the socket.                                                 *)

ConnsWithout(p) ==
    [c \in Conns |->
        IF conn[c] = p \/ (conn[c] = "backlog" /\ ~\E q \in Procs \ {p} : HasSocket(q))
        THEN "cut" ELSE conn[c]]

End(p) ==
    /\ stage' = [stage EXCEPT ![p] = "gone"]
    /\ parent' = [q \in Procs |-> IF q = p \/ parent[q] = p THEN NoProc ELSE parent[q]]
    /\ hup' = hup \ {p}
    /\ conn' = ConnsWithout(p)
    /\ api' = IF api = p THEN NoProc ELSE api
    /\ keyStep' = [keyStep EXCEPT ![p] = "none"]
    /\ key' = [key EXCEPT ![p] = NoProc]
    /\ cutShort' = IF keyStep[p] \in {"create_public", "write_public"} THEN cutShort \cup {p}
                   ELSE cutShort
    /\ UNCHANGED <<mode, ready, pidFile, listed, private, public, contended>>

Crash(p) ==
    /\ Alive(p) /\ crashes < MaxCrashes
    /\ crashes' = crashes + 1
    /\ End(p)

-----------------------------------------------------------------------------
(* RunProxy.                                                                *)

Start(p, from) ==
    /\ stage[p] = "absent"
    /\ stage' = [stage EXCEPT ![p] = "config"] /\ parent' = [parent EXCEPT ![p] = from]

\* The supervisor starts a process when there is none.
StartFirst(p) ==
    /\ \A q \in Procs : ~Alive(q)
    /\ Start(p, NoProc)
    /\ UNCHANGED <<mode, ready, hup, pidFile, conn, api, listed, keyVars, crashes>>

ReadConfig(p) ==
    /\ stage[p] = "config"
    /\ stage' = [stage EXCEPT ![p] = "pid"]
    /\ \E m \in {"worker", "speedy"} : mode' = [mode EXCEPT ![p] = m]
    /\ UNCHANGED <<parent, ready, hup, pidFile, conn, api, listed, keyVars, crashes>>

\* A file that cannot be read, a listener that cannot be had (log.Fatal) or a reload
\* that fails ends the process.
StartFails(p) ==
    /\ stage[p] \in {"config", "listen", "starting"} /\ keyStep[p] = "none"
    /\ End(p) /\ UNCHANGED crashes

\* createListener: the pid file is written if there is none.
CreateListener(p) ==
    /\ stage[p] = "pid"
    /\ pidFile' = IF pidFile = NoProc THEN p ELSE pidFile
    /\ stage' = [stage EXCEPT ![p] = "listen"]
    /\ UNCHANGED <<mode, parent, ready, hup, conn, api, listed, keyVars, crashes>>

\* tableflipListener: SIGHUP is taken from here on, and the socket is the
\* parent's if there is one.
TableflipListener(p) ==
    /\ stage[p] = "listen"
    /\ stage' = [stage EXCEPT ![p] = "starting"]
    /\ UNCHANGED <<mode, parent, ready, hup, pidFile, conn, api, listed, keyVars, crashes>>

\* proxy.Start.  In worker mode the backends, with their key, are loaded before
\* the listeners run; then the API, whose error nobody looks at.
ProxyStart(p) ==
    /\ stage[p] = "starting" /\ keyStep[p] \in {"none", "done"}
    /\ mode[p] = "worker" /\ listed => keyStep[p] = "done"
    /\ stage' = [stage EXCEPT ![p] = "serving"]
    /\ api' = IF api = NoProc /\ mode[p] = "worker" THEN p ELSE api
    /\ UNCHANGED <<mode, parent, ready, hup, pidFile, conn, listed, keyVars, crashes>>

\* upg.Ready: writes the pid file ...  The speedy proxy's Start does not return
\* (proxy.go:34).
WritePid(p) ==
    /\ stage[p] = "serving" /\ p \notin ready /\ mode[p] = "worker"
    /\ pidFile' = p /\ stage' = [stage EXCEPT ![p] = "announcing"]
    /\ UNCHANGED <<mode, parent, ready, hup, conn, api, listed, keyVars, crashes>>

\* Mutation: the parent is told before the proxy starts.
Ready_BeforeStart(p) ==
    /\ stage[p] \in {"starting", "announcing"} /\ mode[p] = "worker" /\ p \notin ready
    /\ ready' = ready \cup {p}
    /\ stage' = [q \in Procs |-> IF q = parent[p] THEN "leaving"
                                ELSE IF q = p /\ stage[p] = "announcing" THEN "serving"
                                ELSE stage[q]]
    /\ UNCHANGED <<mode, parent, hup, pidFile, conn, api, listed, keyVars, crashes>>

\* ... and lets the parent's Exit through.
Ready(p) ==
    /\ stage[p] = "announcing"
    /\ ready' = ready \cup {p}
    /\ stage' = [q \in Procs |-> IF q = parent[p] THEN "leaving"
                                ELSE IF q = p THEN "serving" ELSE stage[q]]
    /\ UNCHANGED <<mode, parent, hup, pidFile, conn, api, listed, keyVars, crashes>>

\* Its error, of the file or of a parent that is not there any more: panic.
ReadyFails(p) ==
    /\ stage[p] \in {"serving", "announcing"} /\ p \notin ready /\ mode[p] = "worker"
    /\ End(p) /\ UNCHANGED crashes

\* Mutation: the wait is put back, for connections that do not end.
Exit_Waits(p) == stage[p] = "leaving" /\ (\A c \in Conns : conn[c] # p) /\ End(p) /\ UNCHANGED crashes

\* <-upg.Exit(): the wait for the connections is commented out.
Exit(p) == stage[p] = "leaving" /\ End(p) /\ UNCHANGED crashes

-----------------------------------------------------------------------------
(* Upgrades.                                                                *)

\* Someone signals the process in the pid file; before signal.Notify that ends it.
Hup ==
    /\ pidFile # NoProc /\ Alive(pidFile)
    /\ IF HasSocket(pidFile)
       THEN /\ hup' = hup \cup {pidFile}
            /\ UNCHANGED <<stage, mode, parent, ready, pidFile, conn, api, listed, keyVars, crashes>>
       ELSE crashes < MaxCrashes /\ crashes' = crashes + 1 /\ End(pidFile)

\* Mutation: a second upgrade may start during the first and after it.
MayUpgrade_Again(p) == p \in ready /\ HasSocket(p) /\ parent[p] = NoProc

\* upg.Upgrade: refused before Ready, while the parent is there, while another
\* upgrade is under way and after one has succeeded.
MayUpgrade(p) ==
    p \in ready /\ stage[p] = "serving" /\ parent[p] = NoProc /\ Child(p) = {}

Upgrade(p, q) ==
    /\ p \in hup /\ MayUpgrade(p)
    /\ hup' = hup \ {p}
    /\ Start(q, p)
    /\ UNCHANGED <<mode, ready, pidFile, conn, api, listed, keyVars, crashes>>

\* The signal is taken from the channel once the Upgrade before it has returned.
UpgradeRefused(p) ==
    /\ p \in hup /\ HasSocket(p) /\ ~MayUpgrade(p) /\ Child(p) = {}
    /\ hup' = hup \ {p}
    /\ UNCHANGED <<stage, mode, parent, ready, pidFile, conn, api, listed, keyVars, crashes>>

\* A child that is not ready in time is killed.
UpgradeTimesOut(p) ==
    /\ parent[p] # NoProc /\ p \notin ready /\ Alive(p)
    /\ End(p) /\ UNCHANGED crashes

-----------------------------------------------------------------------------
(* The key: ServerToBackendConfig, CheckExistingGeneratedKey, GenerateKeys. *)

AddFile ==
    /\ ~listed /\ listed' = TRUE
    /\ UNCHANGED <<procVars, conn, api, keyVars, crashes>>

Loads(p) ==
    \/ stage[p] = "starting" /\ mode[p] = "worker"
    \/ Accepting(p) /\ api = p     \* a reload

Making(p) == keyStep[p] \in {"create", "write", "create_public", "write_public"}

\* Mutation: the files of an earlier process are not looked for.
CheckKey_Never(p) ==
    /\ listed /\ Loads(p) /\ keyStep[p] = "none"
    /\ keyStep' = [keyStep EXCEPT ![p] = "create"]
    /\ contended' = (contended \/ \E q \in Procs : Making(q))
    /\ UNCHANGED <<procVars, conn, api, listed, key, private, public, cutShort, crashes>>

\* A private key file that can be parsed is used; without one, or with a broken
\* one, a key is made.
CheckKey(p) ==
    /\ listed /\ Loads(p) /\ keyStep[p] = "none"
    /\ IF private \in Procs
       THEN key' = [key EXCEPT ![p] = private] /\ keyStep' = [keyStep EXCEPT ![p] = "done"]
       ELSE keyStep' = [keyStep EXCEPT ![p] = "create"] /\ UNCHANGED key
    /\ contended' = (contended \/ \E q \in Procs : Making(q))
    /\ UNCHANGED <<procVars, conn, api, listed, private, public, cutShort, crashes>>

KeyFileStep(p, from, to) ==
    /\ keyStep[p] = from /\ keyStep' = [keyStep EXCEPT ![p] = to]
    /\ UNCHANGED <<procVars, conn, api, listed, contended, cutShort, crashes>>

GenerateKeys(p) ==
    \/ KeyFileStep(p, "create", "write") /\ private' = Empty /\ UNCHANGED <<key, public>>
    \/ KeyFileStep(p, "write", "create_public") /\ private' = p /\ UNCHANGED <<key, public>>
    \/ KeyFileStep(p, "create_public", "write_public") /\ public' = Empty /\ UNCHANGED <<key, private>>
    \/ /\ KeyFileStep(p, "write_public", "done") /\ public' = p
       /\ key' = [key EXCEPT ![p] = p] /\ UNCHANGED private

-----------------------------------------------------------------------------
(* Clients.                                                                 *)

Connect(c) ==
    /\ conn[c] = "absent" /\ \E p \in Procs : HasSocket(p)
    /\ conn' = [conn EXCEPT ![c] = "backlog"]
    /\ UNCHANGED <<procVars, api, listed, keyVars, crashes>>

\* serveListener, and the speedy proxy's loop: any process that accepts.
Accept(p, c) ==
    /\ Accepting(p) /\ conn[c] = "backlog"
    /\ conn' = [conn EXCEPT ![c] = p]
    /\ UNCHANGED <<procVars, api, listed, keyVars, crashes>>

-----------------------------------------------------------------------------

Run(p) ==
    \/ ReadConfig(p) \/ CreateListener(p) \/ TableflipListener(p)
    \/ ProxyStart(p) \/ WritePid(p) \/ Ready(p) \/ CheckKey(p) \/ GenerateKeys(p)

Next ==
    \/ \E p \in Procs : StartFirst(p) \/ Run(p) \/ StartFails(p) \/ ReadyFails(p) \/ Exit(p)
    \/ \E p \in Procs : UpgradeTimesOut(p) \/ Crash(p) \/ UpgradeRefused(p)
    \/ Hup \/ AddFile
    \/ \E p, q \in Procs : Upgrade(p, q)
    \/ \E c \in Conns : Connect(c) \/ \E p \in Procs : Accept(p, c)

Spec == Init /\ [][Next]_vars

\* Go runs the goroutines of each process, and tableflip keeps its timeout.
\* Nothing makes a start fail, a signal arrive or a client connect.
FairSpec ==
    /\ Spec
    /\ \A p \in Procs : WF_vars(Run(p)) /\ WF_vars(Exit(p)) /\ WF_vars(UpgradeTimesOut(p))

-----------------------------------------------------------------------------

\* Type invariant; there are never more than two processes, parent and child
\* (cmd/main.go 168-176).
TypeOK ==
    /\ stage \in [Procs -> {"absent", "config", "pid", "listen", "starting", "serving",
                            "announcing", "leaving", "gone"}]
    /\ mode \in [Procs -> {"worker", "speedy"}]
    /\ parent \in [Procs -> Procs \cup {NoProc}]
    /\ ready \subseteq Procs /\ hup \subseteq {p \in Procs : HasSocket(p)}
    /\ pidFile \in Procs \cup {NoProc}
    /\ conn \in [Conns -> Procs \cup {"absent", "backlog", "cut"}]
    /\ api \in {p \in Procs : Accepting(p)} \cup {NoProc}
    /\ listed \in BOOLEAN
    /\ keyStep \in [Procs -> {"none", "create", "write", "create_public", "write_public", "done"}]
    /\ key \in [Procs -> Procs \cup {NoProc}]
    /\ private \in Procs \cup {NoProc, Empty} /\ public \in Procs \cup {NoProc, Empty}
    /\ crashes \in 0..MaxCrashes /\ contended \in BOOLEAN
    /\ cutShort \subseteq Procs
    /\ Cardinality({p \in Procs : Alive(p)}) <= 2

\* cmd/main.go:99-112: while there is a process that is ready and stays, no
\* step but a crash leaves nobody accepting or turns a waiting client away,
\* whether the upgrade under way succeeds, fails or times out.
Stays(p) == p \in ready /\ Alive(p) /\ stage[p] # "leaving"

NoGap ==
    [][crashes' = crashes /\ (\E p \in Procs : Stays(p)) =>
         /\ (\E p \in Procs : Accepting(p)) => (\E p \in Procs : Accepting(p))'
         /\ \A c \in Conns : conn[c] = "backlog" => conn'[c] # "cut"]_vars

\* cmd/main.go:109, 135: when no upgrade is under way, the process that would do the
\* next one is the one in the pid file, unless its last child ended after it had
\* written the file and before it told its parent: then the file names that child,
\* and no signal reaches the parent.
PidFileNamesServer ==
    \A p \in ready : stage[p] = "serving" /\ Child(p) = {} =>
        \/ pidFile = p
        \/ pidFile \in Procs \ ready /\ stage[pidFile] = "gone"

\* config/file.go:81-138: unless two processes make a key at the same time, every
\* process signs with the key in the private file, over crashes, restarts and swaps;
\* the public file is never the half of another pair; and it is the half of this one
\* when nobody is making a key, unless the process that made it ended in between:
\* then it stays lost, as the private file is used from there on.
KeysAgree ==
    ~contended =>
        /\ \A p \in Procs : keyStep[p] = "done" => key[p] = private
        /\ public \in Procs => public = private
        /\ private \in Procs /\ (\A p \in Procs : ~Making(p)) =>
              public = private \/ private \in cutShort

\* The two files that processes leave to one another.
SharedFilesAgree == PidFileNamesServer /\ KeysAgree

\* cmd/main.go:168-176: an upgrade that has begun ends, with one process that
\* serves alone.
UpgradeEnds ==
    \A p \in Procs : (parent[p] # NoProc) ~> (parent[p] = NoProc)

\* README.md:53: existing connections are not closed by a swap.
KeepsConnections ==
    [][\A c \in Conns, p \in Procs :
         conn[c] = p /\ (\E q \in Procs : parent[q] = p) => crashes' # crashes \/ conn'[c] # "cut"]_vars
=============================================================================
