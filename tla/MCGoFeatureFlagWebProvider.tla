---------------------- MODULE MCGoFeatureFlagWebProvider ----------------------
(* The GO Feature Flag provider for browsers for TLC: the contexts are       *)
(* interchangeable, since nothing but equality is asked of them.             *)
EXTENDS GoFeatureFlagWebProvider, TLC

SymmetricContexts == Permutations(Contexts)
=============================================================================
