--------------------------- MODULE HotSwapProofs ---------------------------
(***************************************************************************)
(* What hot swaps keep for any number of processes, connections and        *)
(* crashes: two processes at most, parent and child; a pid file that names *)
(* the one that serves; key files that belong together; and no moment in   *)
(* which nobody accepts.  All of it rests on the shape of the family: of   *)
(* two processes that live, one is the parent of the other, is ready and   *)
(* has no parent left.                                                     *)
(***************************************************************************)
EXTENDS HotSwap, FiniteSetTheorems, TLAPS

StageNames ==
    {"absent", "config", "pid", "listen", "starting", "serving", "announcing", "leaving",
     "gone"}
KeySteps == {"none", "create", "write", "create_public", "write_public", "done"}

Types ==
    /\ stage \in [Procs -> StageNames]
    /\ mode \in [Procs -> {"worker", "speedy"}]
    /\ parent \in [Procs -> Procs \cup {NoProc}]
    /\ ready \subseteq Procs /\ hup \subseteq Procs
    /\ pidFile \in Procs \cup {NoProc}
    /\ conn \in [Conns -> Procs \cup {"absent", "backlog", "cut"}]
    /\ api \in Procs \cup {NoProc}
    /\ listed \in BOOLEAN
    /\ keyStep \in [Procs -> KeySteps]
    /\ key \in [Procs -> Procs \cup {NoProc}]
    /\ private \in Procs \cup {NoProc, Empty} /\ public \in Procs \cup {NoProc, Empty}
    /\ crashes \in 0..MaxCrashes /\ contended \in BOOLEAN
    /\ cutShort \subseteq Procs

\* Who has a signal pending can take it, and the API's port is let go of at the end.
Holders ==
    /\ \A p \in hup : HasSocket(p)
    /\ api # NoProc => Accepting(api)

ParentsServe ==
    \A q \in Procs :
        parent[q] # NoProc =>
            /\ Alive(q) /\ parent[q] # q
            /\ parent[q] \in ready /\ parent[parent[q]] = NoProc
            /\ stage[parent[q]] \in {"serving", "leaving"}
            /\ q \in ready => stage[parent[q]] = "leaving"

\* Of two processes that live, one is the other's parent.
OneFamily ==
    \A p, q \in Procs : Alive(p) /\ Alive(q) /\ p # q => parent[p] = q \/ parent[q] = p

\* The pid file is with p's child, which has not told p yet or has ended.
PidPassed(p) ==
    /\ pidFile \in Procs \ ready
    /\ \/ stage[pidFile] = "gone"
       \/ stage[pidFile] = "announcing" /\ parent[pidFile] = p

ReadyServes ==
    /\ \A p \in ready : /\ stage[p] \in {"serving", "leaving", "gone"}
                        /\ stage[p] = "serving" => pidFile = p \/ PidPassed(p)
    /\ \A p \in Procs : stage[p] = "announcing" => pidFile = p /\ p \notin ready

Family == ParentsServe /\ OneFamily /\ ReadyServes

famVars == <<stage, parent, ready, pidFile>>

-----------------------------------------------------------------------------
(* What the steps do, as far as processes go.                               *)

\* One step of a start: further, but not yet ready.
Advance(p) ==
    /\ stage[p] \in {"config", "pid", "listen", "starting"}
    /\ \E s \in {"pid", "listen", "starting", "serving"} : stage' = [stage EXCEPT ![p] = s]
    /\ HasSocket(p) => HasSocket(p)'
    /\ UNCHANGED <<parent, ready>>
    /\ pidFile' = pidFile \/ pidFile = NoProc

LEMMA Advances ==
    ASSUME Types, NEW p \in Procs,
           ReadConfig(p) \/ CreateListener(p) \/ TableflipListener(p) \/ ProxyStart(p)
    PROVE  Advance(p)
  BY DEF Advance, ReadConfig, CreateListener, TableflipListener, ProxyStart, Types, HasSocket

LEMMA HupCases ==
    ASSUME Hup
    PROVE  \/ /\ HasSocket(pidFile) /\ hup' = hup \cup {pidFile}
              /\ UNCHANGED <<stage, mode, parent, ready, pidFile, conn, api, listed, keyVars, crashes>>
           \/ crashes < MaxCrashes /\ crashes' = crashes + 1 /\ End(pidFile)
  BY DEF Hup

\* Whoever ends, by itself or not.
EndStep(p) ==
    End(p) /\ (crashes' = crashes \/ (crashes < MaxCrashes /\ crashes' = crashes + 1))

\* Steps that leave the processes as they are.
Quiet ==
    \/ \E p \in Procs : UpgradeRefused(p) \/ CheckKey(p) \/ GenerateKeys(p)
    \/ AddFile
    \/ \E c \in Conns : Connect(c) \/ \E p \in Procs : Accept(p, c)

HupKept ==
    /\ pidFile # NoProc /\ HasSocket(pidFile) /\ hup' = hup \cup {pidFile}
    /\ UNCHANGED <<stage, mode, parent, ready, pidFile, conn, api, listed, keyVars, crashes>>

LEMMA Steps ==
    ASSUME Types, Next
    PROVE  \/ \E p \in Procs : StartFirst(p)
           \/ \E p \in Procs :
                 ReadConfig(p) \/ CreateListener(p) \/ TableflipListener(p) \/ ProxyStart(p)
           \/ \E p \in Procs : WritePid(p) \/ Ready(p)
           \/ \E p, q \in Procs : Upgrade(p, q)
           \/ \E p \in Procs : EndStep(p)
           \/ HupKept
           \/ Quiet
  <1>1. ASSUME NEW p \in Procs,
               StartFails(p) \/ ReadyFails(p) \/ Exit(p) \/ UpgradeTimesOut(p) \/ Crash(p)
        PROVE  EndStep(p)
    BY <1>1 DEF StartFails, ReadyFails, Exit, UpgradeTimesOut, Crash, EndStep
  <1>2. ASSUME Hup PROVE HupKept \/ \E p \in Procs : EndStep(p)
    <2>1. pidFile \in Procs
      BY <1>2 DEF Hup, Types
    <2> QED
      BY <1>2, <2>1, HupCases DEF HupKept, EndStep, Hup
  <1> QED
    BY <1>1, <1>2 DEF Next, Run, Quiet

LEMMA QuietFamily == Quiet => UNCHANGED famVars
  BY DEF Quiet, UpgradeRefused, CheckKey, GenerateKeys, KeyFileStep, AddFile, Connect, Accept,
         procVars, famVars

-----------------------------------------------------------------------------
(* Types.                                                                   *)

LEMMA TypesInit == Init => Types /\ Holders
  <1> SUFFICES ASSUME Init PROVE Types /\ Holders
    OBVIOUS
  <1>1. crashes \in 0..MaxCrashes
    BY HotSwapAssumption DEF Init
  <1>2. Holders
    BY DEF Init, Holders
  <1> QED
    BY <1>1, <1>2 DEF Init, Types, StageNames, KeySteps

LEMMA TypesEnd ==
    ASSUME Types, Holders, NEW p \in Procs, EndStep(p)
    PROVE  Types' /\ Holders'
  <1>1. /\ stage' = [stage EXCEPT ![p] = "gone"] /\ hup' = hup \ {p}
        /\ api' = IF api = p THEN NoProc ELSE api
        /\ parent' = [q \in Procs |-> IF q = p \/ parent[q] = p THEN NoProc ELSE parent[q]]
        /\ keyStep' = [keyStep EXCEPT ![p] = "none"] /\ key' = [key EXCEPT ![p] = NoProc]
        /\ UNCHANGED <<mode, ready, pidFile, listed, private, public, contended>>
        /\ cutShort' \subseteq cutShort \cup {p}
    BY DEF EndStep, End
  <1>2. conn' \in [Conns -> Procs \cup {"absent", "backlog", "cut"}]
    <2>1. conn' = ConnsWithout(p)
      BY DEF EndStep, End
    <2> QED
      BY <2>1 DEF ConnsWithout, Types
  <1>3. crashes' \in 0..MaxCrashes
    BY HotSwapAssumption DEF EndStep, Types
  <1>4. parent' \in [Procs -> Procs \cup {NoProc}]
    BY <1>1 DEF Types
  <1>5. /\ stage' \in [Procs -> StageNames] /\ keyStep' \in [Procs -> KeySteps]
        /\ key' \in [Procs -> Procs \cup {NoProc}]
    BY <1>1 DEF Types, StageNames, KeySteps
  <1>6. Types'
    BY <1>1, <1>2, <1>3, <1>4, <1>5 DEF Types
  <1>7. Holders'
    BY <1>1 DEF Holders, Types, HasSocket, Accepting
  <1> QED
    BY <1>6, <1>7

LEMMA TypesStep == Types /\ Holders /\ [Next]_vars => Types' /\ Holders'
  <1> SUFFICES ASSUME Types, Holders, [Next]_vars PROVE Types' /\ Holders'
    OBVIOUS
  <1>1. CASE UNCHANGED vars
    BY <1>1 DEF vars, procVars, keyVars, Types, Holders, HasSocket, Accepting
  <1>2. ASSUME NEW p \in Procs, StartFirst(p) PROVE Types' /\ Holders'
    BY <1>2 DEF StartFirst, Start, keyVars, Types, Holders, HasSocket, Accepting, StageNames
  <1>3. ASSUME NEW p \in Procs, ReadConfig(p) \/ CreateListener(p) \/ TableflipListener(p)
        PROVE  Types' /\ Holders'
    BY <1>3 DEF ReadConfig, CreateListener, TableflipListener, keyVars, Types, Holders,
                HasSocket, Accepting, StageNames
  <1>4. ASSUME NEW p \in Procs, ProxyStart(p) PROVE Types' /\ Holders'
    BY <1>4, HotSwapAssumption
       DEF ProxyStart, keyVars, Types, Holders, HasSocket, Accepting, StageNames
  <1>5. ASSUME NEW p \in Procs, WritePid(p) \/ Ready(p) PROVE Types' /\ Holders'
    <2>1. stage' \in [Procs -> StageNames]
      BY <1>5 DEF WritePid, Ready, Types, StageNames
    <2>2. Types'
      BY <1>5, <2>1 DEF WritePid, Ready, Types, keyVars
    <2>3. \A q \in Procs : /\ HasSocket(q) => HasSocket(q)'
                           /\ Accepting(q) => Accepting(q)'
      BY <1>5 DEF WritePid, Ready, Types, HasSocket, Accepting
    <2>4. Holders'
      BY <1>5, <2>3 DEF WritePid, Ready, Types, Holders
    <2> QED
      BY <2>2, <2>4
  <1>6. ASSUME NEW p \in Procs, NEW q \in Procs, Upgrade(p, q) PROVE Types' /\ Holders'
    BY <1>6 DEF Upgrade, Start, keyVars, Types, Holders, HasSocket, Accepting, StageNames
  <1>7. ASSUME NEW p \in Procs, EndStep(p) PROVE Types' /\ Holders'
    BY <1>7, TypesEnd
  <1>8. CASE HupKept
    BY <1>8 DEF HupKept, keyVars, Types, Holders, HasSocket, Accepting
  <1>9. ASSUME NEW p \in Procs, CheckKey(p) PROVE Types' /\ Holders'
    <2>1. /\ UNCHANGED <<procVars, conn, api, listed, private, public, cutShort, crashes>>
          /\ contended' \in BOOLEAN
          /\ keyStep' \in [Procs -> KeySteps] /\ key' \in [Procs -> Procs \cup {NoProc}]
      BY <1>9 DEF CheckKey, Types, KeySteps
    <2> QED
      BY <2>1 DEF procVars, Types, Holders, HasSocket, Accepting
  <1>10. ASSUME NEW p \in Procs, GenerateKeys(p) PROVE Types' /\ Holders'
    <2>1. /\ UNCHANGED <<procVars, conn, api, listed, contended, cutShort, crashes>>
          /\ keyStep' \in [Procs -> KeySteps] /\ key' \in [Procs -> Procs \cup {NoProc}]
          /\ private' \in Procs \cup {NoProc, Empty} /\ public' \in Procs \cup {NoProc, Empty}
      BY <1>10 DEF GenerateKeys, KeyFileStep, Types, KeySteps
    <2> QED
      BY <2>1 DEF procVars, Types, Holders, HasSocket, Accepting
  <1>11. CASE AddFile \/ \E p \in Procs : UpgradeRefused(p)
    BY <1>11 DEF AddFile, UpgradeRefused, procVars, keyVars, Types, Holders, HasSocket, Accepting
  <1>12. ASSUME NEW c \in Conns, Connect(c) \/ \E p \in Procs : Accept(p, c)
         PROVE  Types' /\ Holders'
    BY <1>12 DEF Connect, Accept, procVars, keyVars, Types, Holders, HasSocket, Accepting
  <1> QED
    BY <1>1, <1>2, <1>3, <1>4, <1>5, <1>6, <1>7, <1>8, <1>9, <1>10, <1>11, <1>12, Steps DEF Quiet

-----------------------------------------------------------------------------
(* The family.                                                              *)

LEMMA FamilyInit == Init => Family
  BY DEF Init, Family, ParentsServe, OneFamily, ReadyServes, Alive

LEMMA FamilyEnd ==
    ASSUME Types, Family, NEW p \in Procs, EndStep(p)
    PROVE  Family'
  <1>1. /\ \A q \in Procs : stage'[q] = IF q = p THEN "gone" ELSE stage[q]
        /\ \A q \in Procs : parent'[q] = IF q = p \/ parent[q] = p THEN NoProc ELSE parent[q]
        /\ ready' = ready /\ pidFile' = pidFile
    BY DEF EndStep, End, Types
  <1>2. ReadyServes'
    <2>1. ASSUME NEW q \in ready, stage'[q] = "serving" PROVE pidFile = q \/ PidPassed(q)'
      <3>1. q # p /\ q \in Procs /\ stage[q] = "serving"
        BY <1>1, <2>1 DEF Types
      <3>2. CASE PidPassed(q)
        <4>1. /\ pidFile \in Procs \ ready
              /\ \/ stage[pidFile] = "gone"
                 \/ stage[pidFile] = "announcing" /\ parent[pidFile] = q
          BY <3>2 DEF PidPassed
        <4>2. \/ stage'[pidFile] = "gone"
              \/ stage'[pidFile] = "announcing" /\ parent'[pidFile] = q
          BY <1>1, <3>1, <4>1
        <4> QED
          BY <1>1, <4>1, <4>2 DEF PidPassed
      <3> QED
        BY <3>1, <3>2 DEF Family, ReadyServes
    <2>2. \A q \in ready : stage'[q] \in {"serving", "leaving", "gone"}
      BY <1>1 DEF Family, ReadyServes, Types
    <2>3. \A q \in Procs : stage'[q] = "announcing" => pidFile = q /\ q \notin ready
      BY <1>1 DEF Family, ReadyServes
    <2> QED
      BY <1>1, <2>1, <2>2, <2>3 DEF ReadyServes
  <1>3. OneFamily'
    BY <1>1 DEF Family, OneFamily, Alive
  <1>4. ParentsServe'
    <2> SUFFICES ASSUME NEW q \in Procs, parent'[q] # NoProc
                 PROVE  /\ Alive(q)' /\ parent'[q] # q
                        /\ parent'[q] \in ready' /\ parent'[parent'[q]] = NoProc
                        /\ stage'[parent'[q]] \in {"serving", "leaving"}
                        /\ q \in ready' => stage'[parent'[q]] = "leaving"
      BY DEF ParentsServe
    <2>1. parent'[q] = parent[q] /\ q # p /\ parent[q] # p /\ parent[q] \in Procs
      BY <1>1 DEF Types
    <2> QED
      BY <1>1, <2>1 DEF Family, ParentsServe, Alive
  <1> QED
    BY <1>2, <1>3, <1>4 DEF Family

LEMMA FamilyAdvance ==
    ASSUME Types, Family, NEW p \in Procs, Advance(p)
    PROVE  Family'
  <1>1. PICK s \in {"pid", "listen", "starting", "serving"} : stage' = [stage EXCEPT ![p] = s]
    BY DEF Advance
  <1>2. p \notin ready /\ stage[p] \in {"config", "pid", "listen", "starting"}
        /\ parent' = parent /\ ready' = ready
    BY DEF Advance, Family, ReadyServes
  <1>3. \A q \in Procs : Alive(q)' <=> Alive(q)
    BY <1>1, <1>2 DEF Alive, Types
  <1>4. \A q \in ready : stage'[q] = stage[q]
    BY <1>1, <1>2 DEF Types
  <1>5. ReadyServes'
    <2>1. \A q \in Procs : stage'[q] = "announcing" => stage[q] = "announcing"
      BY <1>1 DEF Types
    <2>2. ASSUME pidFile' # pidFile PROVE ReadyServes'
      <3>1. pidFile = NoProc
        BY <2>2 DEF Advance
      <3> QED
        BY <1>2, <1>4, <2>1, <3>1, HotSwapAssumption DEF Family, ReadyServes, PidPassed, Types
    <2>3. ASSUME pidFile' = pidFile PROVE ReadyServes'
      <3>1. \A q \in Procs : stage[q] \in {"announcing", "gone"} => stage'[q] = stage[q]
        BY <1>1, <1>2 DEF Types
      <3>2. \A q \in ready : PidPassed(q) => PidPassed(q)'
        BY <1>2, <2>3, <3>1 DEF PidPassed
      <3> QED
        BY <1>2, <1>4, <2>1, <2>3, <3>2 DEF Family, ReadyServes, Types
    <2> QED
      BY <2>2, <2>3
  <1>6. OneFamily' /\ ParentsServe'
    BY <1>2, <1>3, <1>4 DEF Family, OneFamily, ParentsServe
  <1> QED
    BY <1>5, <1>6 DEF Family

\* Of those that are ready, only the parent of one that is not may be alive.
LEMMA OnlyParent ==
    ASSUME Types, Family, NEW p \in Procs, p \notin ready, Alive(p), NEW q \in ready, Alive(q)
    PROVE  q = parent[p]
  <1>1. q \in Procs /\ q # p
    BY DEF Types
  <1>2. parent[q] # p
    BY <1>1, HotSwapAssumption DEF Family, ParentsServe
  <1> QED
    BY <1>1, <1>2 DEF Family, OneFamily

\* One that is about to tell its parent takes the pid file.
LEMMA FamilyWritePid ==
    ASSUME Types, Family, NEW p \in Procs, WritePid(p)
    PROVE  Family'
  <1>1. /\ stage[p] = "serving" /\ p \notin ready
        /\ pidFile' = p /\ parent' = parent /\ ready' = ready
        /\ \A q \in Procs : stage'[q] = IF q = p THEN "announcing" ELSE stage[q]
    BY DEF WritePid, Types
  <1>2. \A q \in Procs : Alive(q)' <=> Alive(q)
    BY <1>1 DEF Alive
  <1>3. \A q \in ready : q # p /\ q \in Procs /\ stage'[q] = stage[q]
    BY <1>1 DEF Types
  <1>4. OneFamily'
    BY <1>1, <1>2 DEF Family, OneFamily
  <1>5. ParentsServe'
    BY <1>1, <1>2, <1>3 DEF Family, ParentsServe
  <1>6. \A q \in ready : stage[q] = "serving" => PidPassed(q)'
    <2> SUFFICES ASSUME NEW q \in ready, stage[q] = "serving" PROVE PidPassed(q)'
      OBVIOUS
    <2>1. q = parent[p]
      BY <1>1, OnlyParent DEF Alive
    <2> QED
      BY <1>1, <2>1 DEF PidPassed
  <1>7. ASSUME NEW q \in Procs, stage'[q] = "announcing" PROVE q = p
    <2>1. SUFFICES ASSUME q # p, stage[q] = "announcing" PROVE FALSE
      BY <1>1, <1>7
    <2>2. Alive(q) /\ Alive(p) /\ q \notin ready
      BY <1>1, <2>1 DEF Alive, Family, ReadyServes
    <2>3. parent[p] = q \/ parent[q] = p
      BY <2>1, <2>2 DEF Family, OneFamily
    <2> QED
      BY <1>1, <2>2, <2>3, HotSwapAssumption DEF Family, ParentsServe
  <1>8. ReadyServes'
    BY <1>1, <1>3, <1>6, <1>7 DEF Family, ReadyServes
  <1> QED
    BY <1>4, <1>5, <1>8 DEF Family

\* A child that is ready sends its parent away.
LEMMA FamilyReady ==
    ASSUME Types, Family, NEW p \in Procs, Ready(p)
    PROVE  Family'
  <1>1. /\ stage[p] = "announcing" /\ p \notin ready /\ pidFile = p
        /\ ready' = ready \cup {p} /\ pidFile' = pidFile /\ parent' = parent
        /\ \A q \in Procs : stage'[q] = IF q = parent[p] THEN "leaving"
                                        ELSE IF q = p THEN "serving" ELSE stage[q]
    BY DEF Ready, Types, Family, ReadyServes
  <1>2. parent[p] # p /\ parent[p] \in Procs \cup {NoProc}
    BY HotSwapAssumption DEF Family, ParentsServe, Types
  <1>3. parent[p] # NoProc => parent[p] \in ready /\ parent[parent[p]] = NoProc /\ Alive(parent[p])
    BY DEF Family, ParentsServe, Alive
  <1>4. \A q \in Procs : Alive(q)' <=> Alive(q)
    BY <1>1, <1>3, HotSwapAssumption DEF Alive
  <1>5. \A q \in ready : Alive(q) => q = parent[p]
    BY <1>1, OnlyParent DEF Alive
  <1>6. ReadyServes'
    <2>1. \A q \in Procs : stage'[q] = "announcing" => FALSE
      BY <1>1 DEF Family, ReadyServes
    <2>2. \A q \in ready : q # p => stage'[q] \in {"leaving", "gone"}
      BY <1>1, <1>5 DEF Family, ReadyServes, Types, Alive
    <2>3. stage'[p] = "serving" /\ pidFile' = p /\ ready' = ready \cup {p}
      BY <1>1, <1>2
    <2> QED
      BY <2>1, <2>2, <2>3 DEF ReadyServes
  <1>7. OneFamily'
    BY <1>1, <1>4 DEF Family, OneFamily
  <1>8. ParentsServe'
    <2> SUFFICES ASSUME NEW q \in Procs, parent[q] # NoProc
                 PROVE  /\ Alive(q)' /\ parent[q] # q
                        /\ parent[q] \in ready' /\ parent[parent[q]] = NoProc
                        /\ stage'[parent[q]] \in {"serving", "leaving"}
                        /\ q \in ready' => stage'[parent[q]] = "leaving"
      BY <1>1 DEF ParentsServe
    <2>1. /\ Alive(q) /\ parent[q] # q /\ parent[q] \in ready /\ parent[q] \in Procs
          /\ parent[parent[q]] = NoProc /\ stage[parent[q]] \in {"serving", "leaving"}
          /\ q \in ready => stage[parent[q]] = "leaving"
      BY DEF Family, ParentsServe, Types
    <2> QED
      BY <1>1, <1>4, <2>1
  <1> QED
    BY <1>6, <1>7, <1>8 DEF Family

LEMMA FamilyStart ==
    ASSUME Types, Family, NEW p \in Procs,
           StartFirst(p) \/ \E r \in Procs : Upgrade(r, p)
    PROVE  Family'
  <1>1. CASE StartFirst(p)
    <2>1. /\ \A q \in Procs : ~Alive(q) /\ parent[q] = NoProc
          /\ ready' = ready /\ pidFile' = pidFile
          /\ stage[p] = "absent" /\ p \notin ready
      BY <1>1 DEF StartFirst, Start, Family, ParentsServe, ReadyServes
    <2>2. \A q \in Procs : /\ stage'[q] = IF q = p THEN "config" ELSE stage[q]
                           /\ parent'[q] = NoProc
      BY <1>1, <2>1 DEF StartFirst, Start, Types
    <2>3. \A q \in Procs : stage[q] \in {"absent", "gone"}
      BY <2>1 DEF Alive
    <2>4. ReadyServes'
      BY <2>1, <2>2, <2>3 DEF Family, ReadyServes, Types
    <2> QED
      BY <2>1, <2>2, <2>4 DEF Family, ParentsServe, OneFamily, Alive
  <1>2. ASSUME NEW r \in Procs, Upgrade(r, p) PROVE Family'
    <2>1. /\ r \in ready /\ stage[r] = "serving" /\ parent[r] = NoProc
          /\ \A q \in Procs : parent[q] # r
          /\ stage[p] = "absent" /\ p \notin ready /\ r # p
          /\ ready' = ready /\ pidFile' = pidFile
      BY <1>2 DEF Upgrade, MayUpgrade, Child, Start, Family, ReadyServes
    <2>2. \A q \in Procs : /\ stage'[q] = IF q = p THEN "config" ELSE stage[q]
                           /\ parent'[q] = IF q = p THEN r ELSE parent[q]
      BY <1>2 DEF Upgrade, Start, Types
    <2>3. \A q \in Procs : Alive(q) => q = r
      <3>1. Alive(r)
        BY <2>1 DEF Alive
      <3> QED
        BY <2>1, <3>1, HotSwapAssumption DEF Family, OneFamily
    <2>4. \A q \in Procs : parent[q] = NoProc
      BY <2>1, <2>3 DEF Family, ParentsServe
    <2>5. ReadyServes'
      <3>1. \A q \in Procs : stage[q] = "announcing" => FALSE
        BY <2>1, <2>3
           DEF Alive
      <3>2. \A q \in ready : PidPassed(q) => PidPassed(q)'
        BY <2>1, <2>2, <3>1 DEF PidPassed
      <3> QED
        BY <2>1, <2>2, <3>1, <3>2 DEF Family, ReadyServes, Types
    <2>6. OneFamily'
      BY <2>1, <2>2, <2>3 DEF OneFamily, Alive
    <2>7. ParentsServe'
      BY <2>1, <2>2, <2>4 DEF ParentsServe, Alive
    <2> QED
      BY <2>5, <2>6, <2>7 DEF Family
  <1> QED
    BY <1>1, <1>2

LEMMA FamilyStep == Types /\ Family /\ [Next]_vars => Family'
  <1> SUFFICES ASSUME Types, Family, [Next]_vars PROVE Family'
    OBVIOUS
  <1>1. ASSUME UNCHANGED famVars PROVE Family'
    BY <1>1 DEF famVars, Family, ParentsServe, OneFamily, ReadyServes, PidPassed, Alive
  <1>2. UNCHANGED vars \/ HupKept => UNCHANGED famVars
    BY DEF vars, procVars, HupKept, famVars
  <1> QED
    BY <1>1, <1>2, Steps, QuietFamily, Advances, FamilyAdvance, FamilyStart, FamilyWritePid,
       FamilyReady, FamilyEnd

\* A set no three of whose elements differ has at most two.
LEMMA AtMostTwo ==
    ASSUME NEW S, \A a, b, c \in S : a = b \/ b = c \/ a = c
    PROVE  Cardinality(S) <= 2
  <1>1. CASE S = {}
    BY <1>1, FS_EmptySet
  <1>2. ASSUME NEW a \in S, S = {a} PROVE Cardinality(S) <= 2
    <2>1. Cardinality({a}) = 1
      BY FS_Singleton
    <2> QED
      BY <1>2, <2>1
  <1>3. ASSUME NEW a \in S, NEW b \in S, a # b PROVE Cardinality(S) <= 2
    <2>1. S = {a} \cup {b}
      BY <1>3
    <2>2. Cardinality({a}) = 1 /\ IsFiniteSet({a})
      BY FS_Singleton
    <2>3. Cardinality({a} \cup {b}) = Cardinality({a}) + 1
      BY <1>3, <2>2, FS_AddElement
    <2> QED
      BY <2>1, <2>2, <2>3
  <1> QED
    BY <1>1, <1>2, <1>3

LEMMA TwoProcesses ==
    ASSUME Types, Family
    PROVE  Cardinality({p \in Procs : Alive(p)}) <= 2
  <1>1. \A a, b, c \in {p \in Procs : Alive(p)} : a = b \/ b = c \/ a = c
    <2> SUFFICES ASSUME NEW a \in Procs, NEW b \in Procs, NEW c \in Procs,
                        Alive(a), Alive(b), Alive(c), a # b, b # c, a # c
                 PROVE  FALSE
      OBVIOUS
    <2>1. \A q \in Procs : parent[q] \in Procs => parent[parent[q]] \notin Procs
      BY HotSwapAssumption DEF Family, ParentsServe, Types
    <2>2. \A p, q \in {a, b, c} : p # q => parent[p] = q \/ parent[q] = p
      BY DEF Family, OneFamily
    <2> QED
      BY <2>1, <2>2
  <1> QED
    BY <1>1, AtMostTwo

\* The processes and what they share keep their types, over any number of swaps
\* and crashes there are never more than two processes, and a signal or the API's
\* port is only with a process that can use it (cmd/main.go 99-176).
THEOREM SwapTypes == Spec => []TypeOK
  <1>1. Types /\ Holders /\ Family => TypeOK
    <2> SUFFICES ASSUME Types, Holders, Family PROVE TypeOK
      OBVIOUS
    <2>1. hup \subseteq {p \in Procs : HasSocket(p)}
      BY DEF Types, Holders
    <2>2. api \in {p \in Procs : Accepting(p)} \cup {NoProc}
      BY DEF Types, Holders
    <2> QED
      BY <2>1, <2>2, TwoProcesses DEF Types, TypeOK, StageNames, KeySteps
  <1> QED
    BY <1>1, TypesInit, TypesStep, FamilyInit, FamilyStep, PTL DEF Spec

-----------------------------------------------------------------------------
(* No gap.                                                                  *)

LEMMA StaysServes ==
    ASSUME Types, Family, NEW p \in Procs, Stays(p)
    PROVE  stage[p] = "serving" /\ Accepting(p) /\ HasSocket(p)
  BY DEF Stays, Family, ReadyServes, Alive, Accepting, HasSocket

\* A process that is ready and stays is not the one that ends, so it still accepts
\* and still holds the socket.
LEMMA EndsAnother ==
    ASSUME Types, Family, NEW p \in Procs, Stays(p), NEW q \in Procs,
           StartFails(q) \/ ReadyFails(q) \/ Exit(q) \/ UpgradeTimesOut(q)
    PROVE  q # p
  BY StaysServes DEF StartFails, ReadyFails, Exit, UpgradeTimesOut, Stays

LEMMA EndKeeps ==
    ASSUME Types, NEW p \in Procs, Accepting(p), NEW q \in Procs, q # p, End(q)
    PROVE  /\ Accepting(p)'
           /\ \A c \in Conns : conn[c] = "backlog" => conn'[c] # "cut"
  <1>1. Accepting(p)'
    BY DEF End, Accepting, Types
  <1>2. HasSocket(p) /\ p \in Procs \ {q}
    BY DEF Accepting, HasSocket
  <1>3. ASSUME NEW c \in Conns, conn[c] = "backlog" PROVE conn'[c] # "cut"
    BY <1>2, <1>3, HotSwapAssumption DEF End, ConnsWithout
  <1> QED
    BY <1>1, <1>3

LEMMA OthersKeep ==
    ASSUME Types, Family, NEW p \in Procs, Stays(p),
           \/ \E q \in Procs : StartFirst(q) \/ Advance(q) \/ WritePid(q) \/ Ready(q)
           \/ \E q, r \in Procs : Upgrade(q, r)
           \/ HupKept \/ Quiet
    PROVE  Accepting(p)'
  <1>1. stage[p] = "serving"
    BY StaysServes
  <1>2. stage'[p] \in {"serving", "leaving"}
    <2>1. ASSUME NEW q \in Procs, StartFirst(q) \/ Advance(q) \/ WritePid(q) \/ Ready(q)
          PROVE  stage'[p] \in {"serving", "leaving"}
      BY <1>1, <2>1 DEF StartFirst, Start, Advance, WritePid, Ready, Types, Stays
    <2>2. ASSUME NEW q \in Procs, NEW r \in Procs, Upgrade(q, r)
          PROVE  stage'[p] \in {"serving", "leaving"}
      BY <1>1, <2>2 DEF Upgrade, Start, Types
    <2>3. CASE HupKept \/ Quiet
      BY <1>1, <2>3, QuietFamily DEF HupKept, famVars
    <2> QED
      BY <2>1, <2>2, <2>3
  <1> QED
    BY <1>2 DEF Accepting

\* Only an end turns a waiting client away.
LEMMA WaitingKept ==
    ASSUME Types, NEW c \in Conns, conn[c] = "backlog",
           \/ \E q \in Procs : StartFirst(q) \/ WritePid(q) \/ Ready(q)
           \/ \E q \in Procs :
                 ReadConfig(q) \/ CreateListener(q) \/ TableflipListener(q) \/ ProxyStart(q)
           \/ \E q, r \in Procs : Upgrade(q, r)
           \/ HupKept \/ Quiet
    PROVE  conn'[c] # "cut"
  <1>1. CASE \/ \E q \in Procs : StartFirst(q) \/ WritePid(q) \/ Ready(q)
             \/ \E q \in Procs :
                   ReadConfig(q) \/ CreateListener(q) \/ TableflipListener(q) \/ ProxyStart(q)
             \/ \E q, r \in Procs : Upgrade(q, r)
             \/ HupKept
    BY <1>1 DEF StartFirst, WritePid, Ready, ReadConfig, CreateListener, TableflipListener, ProxyStart,
                Upgrade, HupKept
  <1>2. CASE AddFile \/ \E p \in Procs : UpgradeRefused(p) \/ CheckKey(p) \/ GenerateKeys(p)
    BY <1>2 DEF AddFile, UpgradeRefused, CheckKey, GenerateKeys, KeyFileStep
  <1>3. ASSUME NEW d \in Conns, Connect(d) \/ \E p \in Procs : Accept(p, d)
        PROVE  conn'[c] # "cut"
    BY <1>3, HotSwapAssumption DEF Connect, Accept, Types
  <1> QED
    BY <1>1, <1>2, <1>3 DEF Quiet

NoGapNow ==
    crashes' = crashes /\ (\E p \in Procs : Stays(p)) =>
         /\ (\E p \in Procs : Accepting(p)) => (\E p \in Procs : Accepting(p))'
         /\ \A c \in Conns : conn[c] = "backlog" => conn'[c] # "cut"

LEMMA NoGapStep == Types /\ Family /\ [Next]_vars => [NoGapNow]_vars
  <1> SUFFICES ASSUME Types, Family, Next, crashes' = crashes, NEW p \in Procs, Stays(p)
               PROVE  /\ Accepting(p)'
                      /\ \A c \in Conns : conn[c] = "backlog" => conn'[c] # "cut"
    BY DEF NoGapNow
  <1>1. Accepting(p)
    BY StaysServes
  <1>2. ASSUME NEW q \in Procs, StartFails(q) \/ ReadyFails(q) \/ Exit(q) \/ UpgradeTimesOut(q)
        PROVE  /\ Accepting(p)'
               /\ \A c \in Conns : conn[c] = "backlog" => conn'[c] # "cut"
    <2>1. q # p /\ End(q)
      BY <1>2, EndsAnother DEF StartFails, ReadyFails, Exit, UpgradeTimesOut
    <2> QED
      BY <1>1, <2>1, EndKeeps
  <1>3. CASE \/ \E q \in Procs : StartFirst(q) \/ WritePid(q) \/ Ready(q)
             \/ \E q \in Procs :
                   ReadConfig(q) \/ CreateListener(q) \/ TableflipListener(q) \/ ProxyStart(q)
             \/ \E q, r \in Procs : Upgrade(q, r)
             \/ HupKept \/ Quiet
    BY <1>3, Advances, OthersKeep, WaitingKept
  <1>4. crashes + 1 # crashes
    BY DEF Types
  <1>5. \A q \in Procs : ~Crash(q)
    BY <1>4 DEF Crash
  <1>6. Hup => HupKept
    BY <1>4, HupCases DEF HupKept, Hup
  <1> QED
    BY <1>2, <1>3, <1>5, <1>6 DEF Next, Run, Quiet

\* While there is a process that is ready and stays, somebody accepts and no
\* waiting client is turned away, whether an upgrade succeeds, fails or times out
\* (cmd/main.go 99-112).
THEOREM SwapsLeaveNoGap == Spec => NoGap
  <1>1. Types /\ Family /\ [Next]_vars =>
           [crashes' = crashes /\ (\E p \in Procs : Stays(p)) =>
              /\ (\E p \in Procs : Accepting(p)) => (\E p \in Procs : Accepting(p))'
              /\ \A c \in Conns : conn[c] = "backlog" => conn'[c] # "cut"]_vars
    BY NoGapStep DEF NoGapNow
  <1> QED
    BY <1>1, TypesInit, TypesStep, FamilyInit, FamilyStep, PTL DEF Spec, NoGap

-----------------------------------------------------------------------------
(* The key files.                                                           *)

\* While nobody else makes a key: one process at a time does, only when there is
\* no private key and so nobody signs; the public file follows the private, and is
\* missing only after a process ended between the two.
KeyInv ==
    ~contended =>
        /\ \A p, q \in Procs : Making(p) /\ Making(q) => p = q
        /\ \A p \in Procs : keyStep[p] = "done" =>
              private \in Procs /\ key[p] = private /\ \A q \in Procs : ~Making(q)
        /\ \A p \in Procs : /\ keyStep[p] \in {"create", "write"} => private \notin Procs
                            /\ keyStep[p] \in {"create_public", "write_public"} => private = p
        /\ public \in Procs => private = public
        /\ private \notin Procs => public = NoProc
        /\ private \in Procs /\ (\A p \in Procs : ~Making(p)) =>
              public = private \/ private \in cutShort

LEMMA KeyInit == Init => KeyInv
  BY HotSwapAssumption DEF Init, KeyInv, Making

\* Whoever ends stops making a key and signing.
LEMMA KeyEnd ==
    ASSUME Types, KeyInv, NEW p \in Procs, EndStep(p)
    PROVE  KeyInv'
  <1>1. /\ UNCHANGED <<private, public, contended>>
        /\ cutShort' = IF keyStep[p] \in {"create_public", "write_public"} THEN cutShort \cup {p}
                       ELSE cutShort
        /\ \A q \in Procs : /\ keyStep'[q] = IF q = p THEN "none" ELSE keyStep[q]
                            /\ q # p => key'[q] = key[q]
    BY DEF EndStep, End, Types
  <1>2. \A q \in Procs : Making(q)' <=> Making(q) /\ q # p
    BY <1>1 DEF Making
  <1>3. ASSUME ~contended, private \in Procs, \A q \in Procs : ~Making(q)'
        PROVE  public = private \/ private \in cutShort'
    <2>1. CASE Making(p)
      <3>1. keyStep[p] \in {"create_public", "write_public"} /\ private = p
        BY <1>3, <2>1 DEF KeyInv, Making
      <3> QED
        BY <1>1, <3>1
    <2>2. CASE ~Making(p)
      <3>1. \A q \in Procs : ~Making(q)
        BY <1>2, <1>3, <2>2
      <3> QED
        BY <1>1, <1>3, <3>1 DEF KeyInv
    <2> QED
      BY <2>1, <2>2
  <1> QED
    BY <1>1, <1>2, <1>3 DEF KeyInv

LEMMA KeyCheck ==
    ASSUME Types, KeyInv, NEW p \in Procs, CheckKey(p)
    PROVE  KeyInv'
  <1> SUFFICES ASSUME ~contended' PROVE KeyInv'
    BY DEF KeyInv
  <1>1. /\ ~contended /\ UNCHANGED <<private, public, cutShort>>
        /\ \A q \in Procs : ~Making(q)
    BY DEF CheckKey, Types
  <1>2. CASE private \in Procs
    <2>1. \A q \in Procs : /\ keyStep'[q] = IF q = p THEN "done" ELSE keyStep[q]
                           /\ key'[q] = IF q = p THEN private ELSE key[q]
      BY <1>2 DEF CheckKey, Types
    <2>2. \A q \in Procs : ~Making(q)'
      BY <1>1, <2>1 DEF Making
    <2>3. \A q \in Procs : keyStep'[q] \notin {"create", "write", "create_public", "write_public"}
      BY <2>2 DEF Making
    <2> QED
      BY <1>1, <1>2, <2>1, <2>2, <2>3 DEF KeyInv
  <1>3. CASE private \notin Procs
    <2>1. \A q \in Procs : keyStep'[q] = IF q = p THEN "create" ELSE keyStep[q]
      BY <1>3 DEF CheckKey, Types
    <2>2. \A q \in Procs : Making(q)' => q = p
      BY <1>1, <2>1 DEF Making
    <2>3. \A q \in Procs : keyStep'[q] # "done"
      BY <1>1, <1>3, <2>1 DEF KeyInv
    <2>4. \A q \in Procs : keyStep'[q] \notin {"create_public", "write_public"}
      BY <1>1, <2>1 DEF Making
    <2> QED
      BY <1>1, <1>3, <2>1, <2>2, <2>3, <2>4 DEF KeyInv
  <1> QED
    BY <1>2, <1>3

LEMMA KeyGenerate ==
    ASSUME Types, KeyInv, NEW p \in Procs, GenerateKeys(p)
    PROVE  KeyInv'
  <1> SUFFICES ASSUME ~contended' PROVE KeyInv'
    BY DEF KeyInv
  <1>1. ~contended /\ Making(p)
    BY DEF GenerateKeys, KeyFileStep, Making
  <1>2. /\ \A q \in Procs : q # p => ~Making(q)
        /\ \A q \in Procs : keyStep[q] # "done"
    BY <1>1 DEF KeyInv
  <1>3. \A q \in Procs : q # p => keyStep'[q] = keyStep[q]
    BY DEF GenerateKeys, KeyFileStep, Types
  <1>4. \A q \in Procs : q # p => ~Making(q)' /\ keyStep'[q] # "done"
    BY <1>2, <1>3 DEF Making
  <1>5. UNCHANGED cutShort /\ \A q \in Procs : q # p =>
           keyStep'[q] \notin {"create", "write", "create_public", "write_public"}
    BY <1>4 DEF Making, GenerateKeys, KeyFileStep
  <1>6. CASE keyStep[p] = "create"
    <2>1. keyStep'[p] = "write" /\ private' = Empty /\ public' = public
      BY <1>6 DEF GenerateKeys, KeyFileStep, Types
    <2>2. private \notin Procs /\ public = NoProc
      BY <1>1, <1>6 DEF KeyInv
    <2>3. Making(p)'
      BY <2>1 DEF Making
    <2> QED
      BY <1>4, <1>5, <2>1, <2>2, <2>3, HotSwapAssumption DEF KeyInv
  <1>7. CASE keyStep[p] = "write"
    <2>1. keyStep'[p] = "create_public" /\ private' = p /\ public' = public
      BY <1>7 DEF GenerateKeys, KeyFileStep, Types
    <2>2. public = NoProc
      BY <1>1, <1>7 DEF KeyInv
    <2>3. Making(p)'
      BY <2>1 DEF Making
    <2> QED
      BY <1>4, <1>5, <2>1, <2>2, <2>3, HotSwapAssumption DEF KeyInv
  <1>8. CASE keyStep[p] = "create_public"
    <2>1. keyStep'[p] = "write_public" /\ public' = Empty /\ private' = private
      BY <1>8 DEF GenerateKeys, KeyFileStep, Types
    <2>2. private = p
      BY <1>1, <1>8 DEF KeyInv
    <2>3. Making(p)'
      BY <2>1 DEF Making
    <2> QED
      BY <1>4, <1>5, <2>1, <2>2, <2>3, HotSwapAssumption DEF KeyInv
  <1>9. CASE keyStep[p] = "write_public"
    <2>1. keyStep'[p] = "done" /\ public' = p /\ private' = private /\ key'[p] = p
      BY <1>9 DEF GenerateKeys, KeyFileStep, Types
    <2>2. private = p
      BY <1>1, <1>9 DEF KeyInv
    <2>3. \A q \in Procs : ~Making(q)'
      BY <1>4, <2>1 DEF Making
    <2> QED
      BY <1>4, <1>5, <2>1, <2>2, <2>3 DEF KeyInv
  <1> QED
    BY <1>1, <1>6, <1>7, <1>8, <1>9 DEF Making

LEMMA KeyStep == Types /\ KeyInv /\ [Next]_vars => KeyInv'
  <1> SUFFICES ASSUME Types, KeyInv, [Next]_vars PROVE KeyInv'
    OBVIOUS
  <1>1. ASSUME UNCHANGED keyVars PROVE KeyInv'
    BY <1>1 DEF keyVars, KeyInv, Making
  <1>2. CASE UNCHANGED vars \/ HupKept
    BY <1>1, <1>2 DEF vars, HupKept
  <1>3. ASSUME NEW p \in Procs,
               \/ StartFirst(p) \/ WritePid(p) \/ Ready(p)
               \/ ReadConfig(p) \/ CreateListener(p) \/ TableflipListener(p) \/ ProxyStart(p)
               \/ \E q \in Procs : Upgrade(p, q)
        PROVE  KeyInv'
    BY <1>1, <1>3 DEF StartFirst, WritePid, Ready, ReadConfig, CreateListener, TableflipListener,
                      ProxyStart, Upgrade
  <1>4. ASSUME Quiet, \A p \in Procs : ~CheckKey(p) /\ ~GenerateKeys(p) PROVE KeyInv'
    BY <1>1, <1>4 DEF Quiet, AddFile, UpgradeRefused, Connect, Accept
  <1> QED
    BY <1>2, <1>3, <1>4, KeyEnd, KeyCheck, KeyGenerate, Steps

\* Over any number of swaps, restarts and crashes, the pid file names the process
\* that would upgrade next, or a child of its that ended before it told its parent
\* (cmd/main.go 109, 135).  Unless two processes make a key at once, everybody signs
\* with the key in the private file, and the public file is its other half, unless
\* the process that made them ended between the two (config/file.go 81-138).
THEOREM SwapsShareFiles == Spec => []SharedFilesAgree
  <1>1. Types /\ Family /\ KeyInv => SharedFilesAgree
    <2> SUFFICES ASSUME Types, Family, KeyInv PROVE SharedFilesAgree
      OBVIOUS
    <2>1. PidFileNamesServer
      BY DEF PidFileNamesServer, Family, ReadyServes, PidPassed, Child
    <2>2. KeysAgree
      BY DEF KeysAgree, KeyInv
    <2> QED
      BY <2>1, <2>2 DEF SharedFilesAgree
  <1> QED
    BY <1>1, TypesInit, TypesStep, FamilyInit, FamilyStep, KeyInit, KeyStep, PTL DEF Spec
=============================================================================
