--------------------------- MODULE MCPacketStream ---------------------------
(* Bytes of three bits: 0 is the separator of Forge, 1 the slash and 7 the  *)
(* capital letter of 6.                                                     *)
EXTENDS PacketStream

Extras ==
    {<<>>, <<0, 3>>, <<0, 1, 0, 4>>, <<0, 1, 1, 1>>,    \* Forge
     <<1, 1, 1, 7>>, <<1, 1, 1, 7, 0, 4, 0>>}           \* already with RealIP

Slashed == (UNION {[1..n -> {1, 2}] : n \in 0..3}) \ {<<1, 1, 1>>}

Intent(version, port, host, extra, next, name) ==
    [version |-> version, port |-> port, host |-> host, extra |-> extra,
     NextState |-> next, name |-> name]

MCIntents ==
    {Intent(5, 9, <<2, 7>>, extra, n, <<>>) : extra \in Extras, n \in 1..3}
        \cup {Intent(127, -3, host, extra, 2, <<7, 0>>) : host \in Slashed, extra \in Extras}

MCToLower(s) == [i \in 1..Len(s) |-> IF s[i] = 7 THEN 6 ELSE s[i]]

MCClientAddr == <<7>>
MCStamp == <<2>>
MCSignature == <<3, 3>>
MCStatusText == <<2, 2, 2, 2>>

Junk == {0, 1, 2, 4, 6}

\* A string of negative length, a handshake and a login with trailing bytes, the
\* number 0 in two bytes, and a ping sent early.
Odd == {<<6, 1, 0, 0, 4, 4, 4, 1, 0, 0>>,
        <<5, 2, 0, 1, 1, 3, 0, 2, 2, 5, 5, 1, 0, 1, 7, 7, 7>>,
        <<7, 1, 4, 0, 1, 1, 3, 0, 2, 2>>,
        <<6, 1, 0, 1, 0, 0, 2, 1, 1, 0, 4, 2, 1, 0, 0, 0, 0>>}

MCOthers == UNION {[1..n -> Junk] : n \in 0..5} \cup Odd \cup {[i \in 1..7 |-> 4]}
=============================================================================
