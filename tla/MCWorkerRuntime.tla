-------------------------- MODULE MCWorkerRuntime --------------------------
(* Small instances of WorkerRuntime for TLC. *)
EXTENDS WorkerRuntime, TLC

CONSTANTS b1, s1, m1

OneOfEach == {b1, s1, m1}

OneOfEachQueue == b1 :> "batch" @@ s1 :> "sync" @@ m1 :> "ml"

AllModes   == BOOLEAN \X BOOLEAN
IdleMode   == {<<FALSE, TRUE>>}

NoFault    == {}
NoRowFault == {"start", "redis"}
=============================================================================
