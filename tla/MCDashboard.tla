---------------------------- MODULE MCDashboard ----------------------------
(* A small instance of Dashboard for TLC. *)
EXTENDS Dashboard

CONSTANTS r1, r2, n1, n2, google, own

TwoRequests == {r1, r2}
TwoNames == {n1, n2}
TwoPictures == {google, own}
=============================================================================
