--------------------------- MODULE MCSpeedyProxy ---------------------------
(* Instances of SpeedyProxy for TLC: one file per kind of API server, one   *)
(* domain each, and one more written with a capital.                        *)
EXTENDS SpeedyProxy, TLC

CONSTANTS plain, offline, cached, limited, unlisted, Capital

SomeAddresses == {plain, offline, cached, limited, unlisted, Capital}

ToLower == [a \in SomeAddresses |-> IF a = Capital THEN unlisted ELSE a]

Api(isOnline, useStatusCache, limitBots) ==
    [isOnline |-> isOnline, useStatusCache |-> useStatusCache, limitBots |-> limitBots]

SomeFiles ==
    {[domains |-> {plain, Capital}, api |-> Api(TRUE, FALSE, FALSE)],
     [domains |-> {offline}, api |-> Api(FALSE, FALSE, FALSE)],
     [domains |-> {cached}, api |-> Api(TRUE, TRUE, FALSE)],
     [domains |-> {limited}, api |-> Api(TRUE, FALSE, TRUE)]}
=============================================================================
