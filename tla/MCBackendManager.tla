-------------------------- MODULE MCBackendManager --------------------------
(* Instances of BackendManager for TLC: the config sets an operator may     *)
(* leave on disk before each reload.                                        *)
EXTENDS BackendManager, TLC

AllLayouts == {cfgSet \in [Ids -> Config \cup {NoConfig}] : VerifyConfigs(cfgSet)}

\* Without a Find in these runs the case of a name makes no difference.
SameCase(d) == d

BackendSymmetry == Permutations(Backends)
=============================================================================
