---------------------------- MODULE PacketStream ----------------------------
(***************************************************************************)
(* The bytes of one client connection: the buffered reader of mc/conn.go   *)
(* that cuts them into packets as they come in, the request ReadStuff      *)
(* (basic.go) makes of the first two, which ReadConnection                 *)
(* (worker/worker.go) repeats line by line, and what SendResponse          *)
(* (basic.go) writes.                                                      *)
(*                                                                         *)
(* A client sends what a game client sends (its "intent"), cut off         *)
(* anywhere, or any other bytes; they arrive in pieces of any size.        *)
(***************************************************************************)
EXTENDS Codec

CONSTANTS
    Intents,        \* what game clients ask for
    Others,         \* other byte sequences clients send
    ToLower(_),     \* strings.ToLower
    ClientAddr, Stamp, Signature,    \* what RealIP puts into an address
    StatusText,
    PingTime

\* A string that fits into a packet.
Fits(s) ==
    /\ s \in Seq(Bytes)
    /\ Len(s) + 3 * MaxGroups + 3 < Word \div 2

\* What mods put behind the host begins with one of the separators.
ASSUME PacketStreamAssumption ==
    /\ \A i \in Intents :
          /\ i # [NextState |-> 0]
          /\ i.version \in Words /\ i.port \in Shorts /\ i.NextState \in Bytes
          /\ i.host \in Seq(Bytes) /\ ~IsForgeAddress(i.host) /\ ~IsRealIPAddress(i.host)
          /\ i.extra \in Seq(Bytes)
          /\ i.extra = <<>> \/ 1 \in Separators(i.extra, ForgeSeparator)
                            \/ 1 \in Separators(i.extra, RealIPSeparator)
          /\ Fits(i.host \o i.extra) /\ Fits(i.name)
    /\ \A bytes \in Others : Fits(bytes)
    /\ ClientAddr \in Seq(Bytes \ {0, Slash}) /\ Stamp \in Seq(Bytes \ {0, Slash})
    /\ Signature \in Seq(Bytes \ {0})
    /\ Fits(StatusText) /\ PingTime \in Nat /\ 9 < Word \div 2

VARIABLES
    intent,     \* what the client asks for, or NoIntent
    script,     \* the bytes it sends
    fetched,    \* how many of them the reader has read from the connection
    buffered,   \* ... and holds in its buffer
    part,       \* of the length or body it is reading
    need,       \* the length of that body
    packets,    \* read so far
    stage,
    why,        \* it failed
    deadline,   \* the connection has one
    answer,
    toClient    \* the bytes written to it

readerVars == <<fetched, buffered, part, need, packets>>
outVars == <<answer, toClient>>
vars == <<intent, script, readerVars, stage, why, deadline, outVars>>

NoIntent == [NextState |-> 0]

\* The address a client sends is the host it asks for and what mods put behind.
Handshake(i) ==
    [ProtocolVersion |-> Signed(i.version), ServerAddress |-> i.host \o i.extra,
     ServerPort |-> i.port, NextState |-> i.NextState]

SecondPacket(type, name) == IF type = "login" THEN MarshalText(name) ELSE MarshalRequest

HonestBytes(i) ==
    Marshal(MarshalHandshake(Handshake(i)))
        \o Marshal(SecondPacket(RequestState(i.NextState), i.name))

Init ==
    /\ \/ /\ intent \in Intents
          /\ \E k \in 0..Len(HonestBytes(intent)) : script = SubSeq(HonestBytes(intent), 1, k)
       \/ intent = NoIntent /\ script \in Others
    /\ fetched = 0 /\ buffered = <<>> /\ part = <<>> /\ need = 0 /\ packets = <<>>
    /\ stage = "length" /\ why = "none" /\ deadline = TRUE
    /\ answer = "none" /\ toClient = <<>>

-----------------------------------------------------------------------------
(* The reader.                                                              *)

Reading == stage \in {"length", "body"}
WantsByte == stage = "length" /\ ReadVarInt(part).err = "EOF"
WantsBody == stage = "body" /\ Len(part) < need
Waits == (WantsByte \/ WantsBody) /\ buffered = <<>>

Fail(err) == stage' = "failed" /\ why' = err

\* conn.Read: at least a byte of what has come in.
Fetch ==
    /\ Waits /\ fetched < Len(script)
    /\ \E k \in (fetched + 1)..Len(script) :
          fetched' = k /\ buffered' = SubSeq(script, fetched + 1, k)
    /\ UNCHANGED <<intent, script, part, need, packets, stage, why, deadline, outVars>>

ClientLeft ==
    /\ Waits /\ fetched = Len(script)
    /\ Fail("EOF")
    /\ UNCHANGED <<intent, script, readerVars, deadline, outVars>>

\* Late: what the client sends next is too slow, or never comes.
Deadline ==
    /\ Waits /\ deadline
    /\ Fail("slow")
    /\ UNCHANGED <<intent, script, readerVars, deadline, outVars>>

TakeByte ==
    /\ WantsByte /\ buffered # <<>>
    /\ part' = Append(part, Head(buffered)) /\ buffered' = Tail(buffered)
    /\ UNCHANGED <<intent, script, fetched, need, packets, stage, why, deadline, outVars>>

LengthRead ==
    /\ stage = "length" /\ ReadVarInt(part).err = "none" /\ ReadVarInt(part).val >= 1
    /\ stage' = "body" /\ need' = ReadVarInt(part).val /\ part' = <<>>
    /\ UNCHANGED <<intent, script, fetched, buffered, packets, why, deadline, outVars>>

LengthRefused ==
    LET l == ReadVarInt(part)
    IN  /\ stage = "length"
        /\ l.err = "size" \/ (l.err = "none" /\ l.val < 1)
        /\ Fail(IF l.err = "size" THEN "size" ELSE "length")
        /\ UNCHANGED <<intent, script, readerVars, deadline, outVars>>

\* Mutation: one Read instead of io.ReadFull; what it did not bring stays zero.
TakeBody_OneRead ==
    LET k == Len(UpTo(buffered, need))
    IN  /\ WantsBody /\ buffered # <<>>
        /\ part' = UpTo(buffered, need) \o [i \in 1..(need - k) |-> 0]
        /\ buffered' = From(buffered, k + 1)
        /\ UNCHANGED <<intent, script, fetched, need, packets, stage, why, deadline, outVars>>

TakeBody ==
    LET taken == UpTo(buffered, need - Len(part))
    IN  /\ WantsBody /\ buffered # <<>>
        /\ part' = part \o taken
        /\ buffered' = From(buffered, Len(taken) + 1)
        /\ UNCHANGED <<intent, script, fetched, need, packets, stage, why, deadline, outVars>>

ReadPacketEnds(n) ==
    /\ stage = "body" /\ Len(part) = need /\ Len(packets) = n - 1
    /\ packets' = Append(packets, Packet(Head(part), Tail(part)))
    /\ part' = <<>> /\ need' = 0
    /\ UNCHANGED <<intent, script, fetched, buffered>>

-----------------------------------------------------------------------------
(* ReadStuff.                                                               *)

\* A handshake that cannot be parsed is logged and taken as an empty one.
ParsedHandshake(pk) ==
    LET r == UnmarshalServerBoundHandshake(pk)
    IN  IF r.err = "none" THEN r.val
        ELSE [ProtocolVersion |-> 0, ServerAddress |-> <<>>, ServerPort |-> 0, NextState |-> 0]

HandshakeRead ==
    /\ ReadPacketEnds(1)
    /\ LET pk == Packet(Head(part), Tail(part))
       IN  \/ /\ UnmarshalServerBoundHandshake(pk).err = "panic"
              /\ stage' = "panicked" /\ UNCHANGED why
           \/ /\ UnmarshalServerBoundHandshake(pk).err # "panic"
              /\ IF RequestState(ParsedHandshake(pk).NextState) = "unknown"
                 THEN Fail("handshake")
                 ELSE stage' = "length" /\ UNCHANGED why
    /\ UNCHANGED <<deadline, outVars>>

ReqType == RequestState(ParsedHandshake(packets[1]).NextState)

SecondRead ==
    /\ ReadPacketEnds(2)
    /\ deadline' = FALSE
    /\ LET name == UnmarshalText(Packet(Head(part), Tail(part)))
       IN  \/ ReqType = "login" /\ name.err = "panic" /\ stage' = "panicked" /\ UNCHANGED why
           \/ ReqType = "login" /\ name.err \notin {"none", "panic"} /\ Fail("login")
           \/ /\ ReqType = "status" \/ name.err = "none"
              /\ stage' = "answer" /\ UNCHANGED why
    /\ UNCHANGED outVars

HasRequest == Len(packets) >= 2 /\ stage \notin {"failed", "panicked"}

Request ==
    LET hs == ParsedHandshake(packets[1])
    IN  [type |-> ReqType, addr |-> ToLower(ParseServerAddress(hs.ServerAddress)), hs |-> hs,
         name |-> IF ReqType = "login" THEN UnmarshalText(packets[2]).val ELSE <<>>]

-----------------------------------------------------------------------------
(* FullRun and SendResponse.                                                *)

\* The connection is closed or proxied without a word.
NotAnswered ==
    /\ stage = "answer"
    /\ stage' = "done"
    /\ UNCHANGED <<intent, script, readerVars, why, deadline, outVars>>

\* A login that is to be verified gets a packet nobody has filled in.
SendEmpty ==
    /\ stage = "answer" /\ Request.type = "login"
    /\ answer' = "empty" /\ stage' = "done"
    /\ toClient' = Marshal(Packet(0, <<>>))
    /\ deadline' = TRUE
    /\ UNCHANGED <<intent, script, readerVars, why>>

\* The ping is read through a new buffer.  A game client sends it when it has
\* the status.
SendStatus ==
    /\ stage = "answer" /\ Request.type = "status"
    /\ answer' = "status" /\ stage' = "length"
    /\ toClient' = Marshal(MarshalText(StatusText))
    /\ deadline' = TRUE
    /\ buffered' = <<>>
    /\ script' = IF intent = NoIntent THEN script ELSE script \o Marshal(MarshalPing(PingTime))
    /\ UNCHANGED <<intent, fetched, part, need, packets, why>>

PingRead ==
    /\ ReadPacketEnds(3)
    /\ toClient' = toClient \o Marshal(Packet(Head(part), Tail(part)))
    /\ stage' = "done"
    /\ UNCHANGED <<why, deadline, answer>>

-----------------------------------------------------------------------------

Step ==
    \/ Fetch \/ TakeByte \/ LengthRead \/ LengthRefused \/ TakeBody
    \/ HandshakeRead \/ SecondRead \/ PingRead
    \/ NotAnswered \/ SendEmpty \/ SendStatus

Next == Step \/ ClientLeft \/ Deadline

Spec == Init /\ [][Next]_vars

-----------------------------------------------------------------------------

\* Type invariant.  A length takes MaxGroups bytes, plus the one that is too
\* many, and a body never more than its length.
TypeOK ==
    /\ fetched \in 0..Len(script)
    /\ script \in Seq(Bytes) /\ buffered \in Seq(Bytes) /\ part \in Seq(Bytes)
    /\ need \in 0..(Word \div 2 - 1)
    /\ stage = "length" => Len(part) <= MaxGroups + 1
    /\ stage = "body" => Len(part) <= need
    /\ packets \in Seq([id : Bytes, data : Seq(Bytes)]) /\ Len(packets) <= 3
    /\ stage \in {"length", "body", "answer", "done", "failed", "panicked"}
    /\ why \in {"none", "EOF", "slow", "size", "length", "handshake", "login"}
    /\ deadline \in BOOLEAN
    /\ answer \in {"none", "empty", "status"}
    /\ toClient \in Seq(Bytes)

\* The first n packets of a byte sequence that is all there, and what follows.
After(bytes, n) ==
    LET step[k \in 0..n] ==
          IF k = 0 THEN [packets |-> <<>>, rest |-> bytes]
          ELSE LET r == ReadPacket(step[k - 1].rest)
               IN  [packets |-> Append(step[k - 1].packets, r.val), rest |-> r.rest]
    IN  step[n]

PacketsOf(bytes, n) == After(bytes, n).packets

\* mc/packet.go:122: in whatever pieces the bytes come, the packets are those
\* of the bytes as a whole.  (Bytes sent early are lost with the first reader's
\* buffer, so of the third packet this holds for a client that waits.)
FramingKept ==
    /\ TypeOK
    /\ Len(packets) <= 2 \/ intent # NoIntent => packets = PacketsOf(script, Len(packets))

\* A host that ends in "/" runs into the separator of RealIP.
SlashesMeet(i) ==
    /\ i.host # <<>> /\ i.host[Len(i.host)] = Slash
    /\ 1 \in Separators(i.extra, RealIPSeparator)

\* The request is what the client meant, with the host it asked for in lower case
\* whatever Forge or RealIP put behind it (basic.go 52-91, worker.go 148-184).
RequestRecovered ==
    HasRequest /\ intent # NoIntent =>
        LET i == intent
        IN  /\ Request = [type |-> RequestState(i.NextState), addr |-> Request.addr,
                          hs |-> Handshake(i),
                          name |-> IF i.NextState = 2 THEN i.name ELSE <<>>]
            /\ ~SlashesMeet(i) => Request.addr = ToLower(i.host)

\* A game client that asks for something known and is refused was slow or left
\* before it had sent everything.
HonestAccepted ==
    stage \in {"failed", "panicked"} /\ intent # NoIntent
      /\ RequestState(intent.NextState) # "unknown" =>
        why = "slow" \/ (why = "EOF" /\ Len(script) < Len(HonestBytes(intent)))

\* A client that waits for the status and then pings gets the status and its own
\* ping (basic.go 100-118).
PongEchoes ==
    stage = "done" /\ answer = "status" /\ intent # NoIntent =>
        LET first == ReadPacket(toClient)
        IN  /\ UnmarshalText(first.val).val = StatusText
            /\ first.rest = Marshal(MarshalPing(PingTime))

\* A game client is understood, and if it asks for something known also served.
ClientsUnderstood == RequestRecovered /\ HonestAccepted /\ PongEchoes

ReadersAgreeOn(bytes) ==
    LET pk == ReadPacket(bytes)
        old == UnmarshalServerBoundHandshake(pk.val)
        new == UnmarshalServerBoundHandshake2(pk.val)
    IN  pk.err = "none" =>
          /\ ReadPacket3(bytes) = pk
          /\ new.err = "none" <=> old.err = "none"
          /\ new.err = "none" =>
                /\ old.val = [new.val EXCEPT !.ProtocolVersion = Signed(@)]
                /\ UnmarshalServerBoundHandshake_ByteReader(<<pk.val.id>> \o pk.val.data).val
                     = new.val
                /\ ReadPacket3_Handshake(bytes).val = new.val

\* mc/packet_login.go, mc/packet.go:159: what the parser of worker.go reads,
\* the other two read as well, but for the sign of the version; and reading the
\* handshake off the stream gives the fields of reading the packet first.
ReadersAgree == fetched = 0 => ReadersAgreeOn(script)

\* What the two RealIP modifiers make of an address: one that has RealIP stays, up
\* to another signature; from any other the server can tell the host, unless it
\* ends in "/", the client's address next to it, and what Forge had put there.
UpgradeKeeps(addr) ==
    LET old == UpgradeToOldRealIP(addr, ClientAddr, Stamp)
        new == UpgradeToNewRealIP(addr, ClientAddr, Stamp, Signature)
        host == Before(addr, ForgeSeparator)
    IN  IF IsRealIPAddress(addr)
        THEN old = addr /\ ParseServerAddress(new) = ParseServerAddress(addr)
        ELSE \A up \in {old, new} :
                /\ IsRealIPAddress(up)
                /\ IsForgeAddress(up) <=> IsForgeAddress(addr)
                /\ IsForgeAddress(addr) => ForgePart(up) = ForgePart(addr)
                /\ host = <<>> \/ host[Len(host)] # Slash =>
                      /\ ParseServerAddress(up) = host
                      /\ Before(Behind(up, RealIPSeparator), RealIPSeparator) = ClientAddr

\* RealIP keeps whatever address a client sends (mc/packet_login.go 181-225,
\* module/handshake_modifier.go).
AddressesKept == HasRequest => UpgradeKeeps(Request.hs.ServerAddress)
=============================================================================
