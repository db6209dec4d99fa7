--------------------------- MODULE MCHttpRequest ---------------------------
(* Instances of HttpRequest: two calls on one budget.                      *)
EXTENDS HttpRequest, TLC

CONSTANTS q1, q2

RequestSymmetry == Permutations(Requests)
=============================================================================
