-------------------------- MODULE MCGoogleAccounts --------------------------
(* A small instance of GoogleAccounts for TLC. *)
EXTENDS GoogleAccounts, TLC

CONSTANTS p1, p2, c1, c2, r1, r2

TwoPeople   == {p1, p2}
TwoConsents == {c1, c2}
TwoRequests == {r1, r2}

\* People, consents and requests are interchangeable.
Symmetry == Permutations(People) \cup Permutations(Consents)
              \cup Permutations(Requests)
=============================================================================
