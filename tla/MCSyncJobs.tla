---------------------------- MODULE MCSyncJobs ----------------------------
(* Small instances of SyncJobs for TLC. *)
EXTENDS SyncJobs

CONSTANTS u1, j1, j2, j3, s1, s2, b1, b2

OneUser   == {u1}
OneJob    == {j1}
ThreeJobs == {j1, j2, j3}
TwoSlots  == {s1, s2}
TwoRuns   == {b1, b2}

HandlerFault == {"handler"}
AllFaults    == FaultKinds
=============================================================================
