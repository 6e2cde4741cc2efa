------------------------- MODULE MCPerfcacheControl -------------------------
(* Instances of PerfcacheControl for TLC.                                  *)
EXTENDS PerfcacheControl, TLC

CONSTANTS Genesis, e1, e2

\* Manifests built one on the other.
Chain1 == (e1 :> Genesis)
Chain2 == (e1 :> Genesis) @@ (e2 :> e1)

\* Backends take part in the specification only as a set.
Symmetry == Permutations(Backends)
=============================================================================
