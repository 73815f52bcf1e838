----------------------------- MODULE MCHotSwap -----------------------------
(* Instances of HotSwap for TLC.                                            *)
EXTENDS HotSwap
=============================================================================
