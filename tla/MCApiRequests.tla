--------------------------- MODULE MCApiRequests ---------------------------
(* A small instance of ApiRequests for TLC. *)
EXTENDS ApiRequests

CONSTANTS r1, r2, r3, u1, u2

ThreeRequests == {r1, r2, r3}
TwoUsers == {u1, u2}
=============================================================================
