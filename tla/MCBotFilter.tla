---------------------------- MODULE MCBotFilter ----------------------------
(* Instances of BotFilter for TLC.                                          *)
EXTENDS BotFilter, TLC

CONSTANTS a1, a2, a3, i1, i2

\* Two IPv6 addresses that begin alike, and an IPv4 address.
KeyOf == a1 :> i1 @@ a2 :> i1 @@ a3 :> i2

Symmetry == Permutations({a1, a2}) \cup Permutations(Names)
=============================================================================
