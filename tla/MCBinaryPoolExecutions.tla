----------------------- MODULE MCBinaryPoolExecutions -----------------------
(* Small instances of BinaryPoolExecutions, whose behaviours are those of  *)
(* BinaryPool with the count of executions beside them.                    *)
EXTENDS BinaryPoolExecutions, TLC

Symmetry == Permutations(Tasks) \cup Permutations(Permits) \cup Permutations(Streams)
=============================================================================
