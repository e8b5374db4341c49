--------------------------- MODULE MCYoutubeQueue ---------------------------
(* Small instances of YoutubeQueue for TLC. *)
EXTENDS YoutubeQueue

CONSTANTS i1, j1, j2, j3

OneInstance  == {i1}
TwoJobs      == {j1, j2}
ThreeJobs    == {j1, j2, j3}

AllFaults    == {"handler", "enqueue", "crash", "signal"}
Shutdowns    == {"signal"}
=============================================================================
