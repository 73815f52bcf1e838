--------------------------- MODULE MCServerProbe ---------------------------
(* Instances of ServerProbe for TLC.                                        *)
EXTENDS ServerProbe
=============================================================================
