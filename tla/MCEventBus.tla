----------------------------- MODULE MCEventBus -----------------------------
(* Small instances of EventBus.  Clients and versions are model values.    *)
EXTENDS EventBus, TLC

Symmetry == Permutations(Clients) \cup Permutations(Versions)
=============================================================================
