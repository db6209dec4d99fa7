------------------------- MODULE MCStreamTraversal -------------------------
(* An instance of StreamTraversal with two overlapping readers.            *)
EXTENDS StreamTraversal

CONSTANTS n1, n2
=============================================================================
