----------------------------- MODULE MCSessions -----------------------------
(* A small instance of Sessions for TLC. *)
EXTENDS Sessions, TLC

CONSTANTS s1, s2, s3, c1, c2, r1, r2, r3

TwoBrowsers   == {c1, c2}
ThreeRequests == {r1, r2, r3}
ThreeSessions == {s1, s2, s3}

\* c1 has two tabs, c2 sends one request at a time.
Tabs == r1 :> c1 @@ r2 :> c1 @@ r3 :> c2

Aborts == {"abort"}

\* Session ids are random and the tabs of c1 alike.
Symmetry == Permutations(Sids) \cup Permutations({r1, r2})
=============================================================================
