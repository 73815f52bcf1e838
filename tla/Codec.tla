------------------------------- MODULE Codec -------------------------------
(***************************************************************************)
(* The wire format (mc/type.go, mc/packet.go, mc/packet_login.go,          *)
(* mc/packet_status.go) as functions on sequences of bytes.                *)
(*                                                                         *)
(* A VarInt is a word (32 bits: Word = 2^32) in groups (7 bits: More =     *)
(* 2^7), the least significant first, one per byte and at most MaxGroups   *)
(* of them (5).  A byte has one bit more than a group, the flag that says  *)
(* that more follow.  A decoder gives an error, or a value and the bytes   *)
(* it has left:                                                            *)
(*   "EOF" the bytes end too soon, "size" a VarInt is too long, "length" a *)
(*   packet has none, "id" it has another number, "panic" the program ends *)
(*   because a slice of negative length is made.                           *)
(***************************************************************************)
EXTENDS Integers, Sequences, FiniteSets

CONSTANTS More, Word, MaxGroups, Slash

Base == 2 * More
Bytes == 0..(Base - 1)
Words == 0..(Word - 1)
Shorts == (-(Base * More))..(Base * More - 1)

\* b to the power of k.
Power(b, k) == LET p[i \in Nat] == IF i = 0 THEN 1 ELSE b * p[i - 1] IN p[k]

ASSUME CodecAssumption ==
    /\ More \in Nat /\ More >= 2
    /\ Word \in Nat /\ Word > More /\ Word % Base = 0
    /\ MaxGroups \in Nat \ {0} /\ Power(More, MaxGroups) >= Word
    /\ Slash \in Bytes \ {0}

\* int32 and uint32 of the same bits.
Signed(n) == IF n >= Word \div 2 THEN n - Word ELSE n
Unsigned(n) == n % Word

Fails(err) == [err |-> err, val |-> <<>>, rest |-> <<>>]
Gives(val, rest) == [err |-> "none", val |-> val, rest |-> rest]
\* What follows after r was read, unless that failed.
Then(r, F(_)) == LET x == r IN IF x.err = "none" THEN F(x) ELSE x

From(bytes, i) == SubSeq(bytes, i, Len(bytes))
UpTo(bytes, n) == SubSeq(bytes, 1, IF n < Len(bytes) THEN n ELSE Len(bytes))

-----------------------------------------------------------------------------
(* VarInt.                                                                  *)

EncodeVarInt[n \in Words] ==
    IF n < More THEN <<n>> ELSE <<More + (n % More)>> \o EncodeVarInt[n \div More]

\* The bits of a byte that do not fit into the word are shifted out.
GroupsValue(bytes) ==
    LET sum[k \in 0..Len(bytes)] ==
          IF k = 0 THEN 0 ELSE (sum[k - 1] + (bytes[k] % More) * Power(More, k - 1)) % Word
    IN  sum[Len(bytes)]

\* The first byte without the flag ends it; the byte after MaxGroups is read,
\* and whatever it is the VarInt is too big.
DecodeVarInt(bytes) ==
    LET ends == {k \in 1..Len(bytes) : bytes[k] < More /\ \A j \in 1..(k - 1) : bytes[j] >= More}
    IN  IF \E k \in ends : k <= MaxGroups
        THEN LET k == CHOOSE k \in ends : TRUE IN Gives(GroupsValue(UpTo(bytes, k)), From(bytes, k + 1))
        ELSE Fails(IF Len(bytes) > MaxGroups THEN "size" ELSE "EOF")

\* ReadVarInt and VarInt.Decode give an int32, ReadVarInt_ByteReader the uint32
\* as an int: they differ when the top bit is set.
ReadVarInt(bytes) ==
    Then(DecodeVarInt(bytes), LAMBDA r : Gives(Signed(r.val), r.rest))

ReadVarInt_ByteReader(bytes) == DecodeVarInt(bytes)

-----------------------------------------------------------------------------
(* Fixed-width numbers (most significant byte first) and strings.           *)

BigEndian(n, k) == [i \in 1..k |-> (n \div Power(Base, k - i)) % Base]

ReadNBytes(bytes, n) ==
    IF n < 0 THEN Fails("panic")
    ELSE IF Len(bytes) < n THEN Fails("EOF")
    ELSE Gives(SubSeq(bytes, 1, n), From(bytes, n + 1))

\* An int16, of two bytes.
ReadShort(bytes) ==
    Then(ReadNBytes(bytes, 2), LAMBDA r :
        LET n == r.val[1] * Base + r.val[2]
        IN  Gives(IF n >= Base * More THEN n - Base * Base ELSE n, r.rest))

EncodeShort(n) == BigEndian(n % (Base * Base), 2)

EncodeString(s) == EncodeVarInt[Len(s)] \o s

\* String.Decode, which takes the length as an int32, ...
DecodeString(bytes) == Then(ReadVarInt(bytes), LAMBDA l : ReadNBytes(l.rest, l.val))

\* ... and ReadString_ByteReader, which does not.
ReadString_ByteReader(bytes) ==
    Then(ReadVarInt_ByteReader(bytes), LAMBDA l : ReadNBytes(l.rest, l.val))

-----------------------------------------------------------------------------
(* Packets: a length, a number, and the data.                               *)

Packet(id, data) == [id |-> id, data |-> data]

Marshal(pk) == EncodeVarInt[Len(pk.data) + 1] \o <<pk.id>> \o pk.data

ReadBody(l) ==
    IF l.val < 1 THEN Fails("length")
    ELSE Then(ReadNBytes(l.rest, l.val), LAMBDA body :
                  Gives(Packet(Head(body.val), Tail(body.val)), body.rest))

\* mc.ReadPacket, ReadPacketOld and ReadPacketBytes.
ReadPacket(bytes) == Then(ReadVarInt(bytes), ReadBody)

ReadPacket3(bytes) == Then(ReadVarInt_ByteReader(bytes), ReadBody)

-----------------------------------------------------------------------------
(* The handshake, with its three parsers and the one that reads it off the  *)
(* stream.                                                                  *)

MarshalHandshake(hs) ==
    Packet(0, EncodeVarInt[Unsigned(hs.ProtocolVersion)] \o EncodeString(hs.ServerAddress)
                \o EncodeShort(hs.ServerPort) \o EncodeVarInt[hs.NextState])

\* The fields in order, by the given readers of VarInts and strings.
Fields(bytes, VarInt(_), String(_)) ==
    Then(VarInt(bytes), LAMBDA version :
    Then(String(version.rest), LAMBDA address :
    Then(ReadShort(address.rest), LAMBDA port :
    Then(VarInt(port.rest), LAMBDA next :
        Gives([ProtocolVersion |-> version.val, ServerAddress |-> address.val,
               ServerPort |-> port.val, NextState |-> next.val % Base], next.rest)))))

UnmarshalServerBoundHandshake(pk) ==
    IF pk.id # 0 THEN Fails("id") ELSE Fields(pk.data, ReadVarInt, DecodeString)

HandshakeFields(bytes) == Fields(bytes, ReadVarInt_ByteReader, ReadString_ByteReader)

UnmarshalServerBoundHandshake2(pk) ==
    IF pk.id # 0 THEN Fails("id") ELSE HandshakeFields(pk.data)

UnmarshalServerBoundHandshake_ByteReader(bytes) ==
    IF bytes = <<>> THEN Fails("EOF")
    ELSE IF Head(bytes) # 0 THEN Fails("id")
    ELSE HandshakeFields(Tail(bytes))

\* Mutation: the id is left in the stream.
ReadPacket3_Handshake_KeepsId(bytes) ==
    Then(ReadVarInt_ByteReader(bytes), LAMBDA l :
        IF l.val < 1 THEN Fails("length") ELSE HandshakeFields(l.rest))

\* Reads the number as a VarInt and makes no use of the length.
ReadPacket3_Handshake(bytes) ==
    Then(ReadVarInt_ByteReader(bytes), LAMBDA l :
        IF l.val < 1 THEN Fails("length")
        ELSE Then(ReadVarInt_ByteReader(l.rest), LAMBDA id :
                IF id.val # 0 THEN Fails("id") ELSE HandshakeFields(id.rest)))

RequestState(n) == IF n = 1 THEN "status" ELSE IF n = 2 THEN "login" ELSE "unknown"

-----------------------------------------------------------------------------
(* Packets of one string (login start, disconnect, status response), of     *)
(* nothing (status request) and of a number (ping).                         *)

MarshalText(text) == Packet(0, EncodeString(text))

UnmarshalText(pk) == IF pk.id # 0 THEN Fails("id") ELSE DecodeString(pk.data)

MarshalRequest == Packet(0, <<>>)

\* Eight bytes.
MarshalPing(time) == Packet(1, BigEndian(time, 8))

-----------------------------------------------------------------------------
(* Server addresses.  Mods of the client and RealIP put things behind the   *)
(* host, divided by "\x00" and by "///".                                    *)

ForgeSeparator == <<0>>
RealIPSeparator == <<Slash, Slash, Slash>>

\* Where sep occurs in addr.
Separators(addr, sep) ==
    {i \in 1..(Len(addr) - Len(sep) + 1) : \A k \in 1..Len(sep) : addr[i + k - 1] = sep[k]}

\* strings.Split(addr, sep)[0].
Before(addr, sep) ==
    SubSeq(addr, 1, Cardinality({i \in 1..Len(addr) : \A j \in 1..i : j \notin Separators(addr, sep)}))

\* What follows the first sep.
Behind(addr, sep) == From(addr, Len(Before(addr, sep)) + Len(sep) + 1)

IsForgeAddress(addr) == Separators(addr, ForgeSeparator) # {}
IsRealIPAddress(addr) == Separators(addr, RealIPSeparator) # {}

\* Mutation: only the separator of RealIP counts.
ParseServerAddress_KeepsForge(addr) == Before(addr, RealIPSeparator)

ParseServerAddress(addr) == Before(Before(addr, ForgeSeparator), RealIPSeparator)

\* The part between the first and the second Forge separator.
ForgePart(addr) == Before(Behind(addr, ForgeSeparator), ForgeSeparator)

\* Mutation: the address goes before the host.
UpgradeToOldRealIP_First(addr, client, stamp) ==
    IF IsRealIPAddress(addr) THEN addr
    ELSE client \o RealIPSeparator \o addr \o RealIPSeparator \o stamp

\* host///client///time, then what Forge had put there, up to a second part.
UpgradeToOldRealIP(addr, client, stamp) ==
    IF IsRealIPAddress(addr) THEN addr
    ELSE Before(addr, ForgeSeparator)
            \o RealIPSeparator \o client \o RealIPSeparator \o stamp
            \o (IF IsForgeAddress(addr)
                THEN ForgeSeparator \o ForgePart(addr) \o ForgeSeparator ELSE <<>>)

\* ... with a signature of all that at the end, each time.
UpgradeToNewRealIP(addr, client, stamp, signature) ==
    UpgradeToOldRealIP(addr, client, stamp) \o RealIPSeparator \o signature
=============================================================================
