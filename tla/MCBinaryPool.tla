---------------------------- MODULE MCBinaryPool ----------------------------
(* Small instances of BinaryPool: tasks, permits and streams are model     *)
(* values, and the sets of them are interchangeable.                       *)
EXTENDS BinaryPool, TLC

Symmetry == Permutations(Tasks) \cup Permutations(Permits) \cup Permutations(Streams)
=============================================================================
