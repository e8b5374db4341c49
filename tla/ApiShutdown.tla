---------------------------- MODULE ApiShutdown ----------------------------
(***************************************************************************)
(* How an API process stops (main.ts): the flag that turns new requests    *)
(* away, the counter of requests in flight, and gracefulShutdown, which    *)
(* closes the HTTP server, closes the Nest application (its destroy hooks  *)
(* release the queues), then waits for the counter and exits.              *)
(*                                                                         *)
(* A response that ends normally emits 'finish' and then 'close'; one      *)
(* whose client goes away emits 'close' alone and its handler works on.    *)
(***************************************************************************)
EXTENDS Naturals, FiniteSets

CONSTANTS
    Requests,   \* requests that may arrive
    Timeout     \* GRACEFUL_SHUTDOWN_TIMEOUT, in rounds of the waiting loop

ASSUME TimeoutAssumption == Timeout \in Nat

VARIABLES
    isShuttingDown,
    inflightRequests,
    req,       \* the life of each request
    main,      \* how far gracefulShutdown is
    hooksRun,  \* the destroy hooks have run
    waited     \* rounds of the waiting loop

shutdownVars == <<isShuttingDown, main, hooksRun, waited>>
vars == <<shutdownVars, inflightRequests, req>>

TypeOK ==
    /\ isShuttingDown \in BOOLEAN /\ hooksRun \in BOOLEAN
    /\ inflightRequests \in Nat
    /\ req \in [Requests -> {"none", "running", "finished", "aborted", "done",
                           "refused"}]
    /\ main \in {"serving", "closing", "waiting", "exited"}
    /\ waited \in 0..Timeout

Init ==
    /\ isShuttingDown = FALSE /\ hooksRun = FALSE
    /\ inflightRequests = 0
    /\ req = [r \in Requests |-> "none"]
    /\ main = "serving" /\ waited = 0

-----------------------------------------------------------------------------
(* Requests and the two middlewares.                                       *)

Goto(r, state) == req' = [req EXCEPT ![r] = state]

Decrement == inflightRequests' = IF inflightRequests > 0
                                 THEN inflightRequests - 1 ELSE 0

Arrive(r) ==
    /\ main # "exited"
    /\ req[r] = "none"
    /\ ~isShuttingDown
    /\ inflightRequests' = inflightRequests + 1
    /\ Goto(r, "running")
    /\ UNCHANGED shutdownVars

\* A connection kept alive from before may still carry a request: 503.
Refuse(r) ==
    /\ main # "exited"
    /\ req[r] = "none"
    /\ isShuttingDown
    /\ Goto(r, "refused")
    /\ UNCHANGED <<shutdownVars, inflightRequests>>

\* res 'finish'
Finish(r) ==
    /\ main # "exited"
    /\ req[r] = "running"
    /\ Decrement
    /\ Goto(r, "finished")
    /\ UNCHANGED shutdownVars

\* res 'close', after 'finish'
Close(r) ==
    /\ main # "exited"
    /\ req[r] = "finished"
    /\ Decrement
    /\ Goto(r, "done")
    /\ UNCHANGED shutdownVars

\* Faulty: only 'finish' is listened to.
AbortUncounted(r) ==
    /\ main # "exited"
    /\ req[r] = "running"
    /\ Goto(r, "aborted")
    /\ UNCHANGED <<shutdownVars, inflightRequests>>

\* res 'close' of a connection that broke
Abort(r) ==
    /\ main # "exited"
    /\ req[r] = "running"
    /\ Decrement
    /\ Goto(r, "aborted")
    /\ UNCHANGED shutdownVars

\* The handler of a broken connection ends; nobody hears of it.
EndAborted(r) ==
    /\ main # "exited"
    /\ req[r] = "aborted"
    /\ Goto(r, "done")
    /\ UNCHANGED <<shutdownVars, inflightRequests>>

-----------------------------------------------------------------------------
(* gracefulShutdown.                                                       *)

\* A signal or an unhandled error; only the first one counts.
Shutdown ==
    /\ main # "exited"
    /\ ~isShuttingDown
    /\ isShuttingDown' = TRUE
    /\ main' = "closing"
    /\ UNCHANGED <<hooksRun, waited, inflightRequests, req>>

\* app.close(): the destroy hooks come first.
RunHooks ==
    /\ main = "closing" /\ ~hooksRun
    /\ hooksRun' = TRUE
    /\ UNCHANGED <<isShuttingDown, main, waited, inflightRequests, req>>

Running == {r \in Requests : req[r] = "running"}

\* app.close() ends with the HTTP server, which waits for its connections: a
\* request that hangs on one is waited for here, before there is a deadline.
Closed ==
    /\ main = "closing" /\ hooksRun
    /\ Running = {}
    /\ main' = "waiting"
    /\ UNCHANGED <<isShuttingDown, hooksRun, waited, inflightRequests, req>>

\* app.close() rejects before it comes to the server; the error is only logged.
\* The two destroy hooks of the repository catch their own errors, so it takes
\* one of a library.
CloseFails ==
    /\ main = "closing" /\ ~hooksRun
    /\ main' = "waiting"
    /\ UNCHANGED <<isShuttingDown, hooksRun, waited, inflightRequests, req>>

Wait ==
    /\ main = "waiting"
    /\ inflightRequests > 0 /\ waited < Timeout
    /\ waited' = waited + 1
    /\ UNCHANGED <<isShuttingDown, main, hooksRun, inflightRequests, req>>

\* Faulty: the loop has no deadline.
ExitWhenDrained ==
    /\ main = "waiting"
    /\ inflightRequests = 0
    /\ main' = "exited"
    /\ UNCHANGED <<isShuttingDown, hooksRun, waited, inflightRequests, req>>

\* process.exit(0), at the latest after Timeout rounds of the loop, with
\* whatever is still running.
Exit ==
    /\ main = "waiting"
    /\ inflightRequests = 0 \/ waited = Timeout
    /\ main' = "exited"
    /\ UNCHANGED <<isShuttingDown, hooksRun, waited, inflightRequests, req>>

-----------------------------------------------------------------------------
Next ==
    \/ \E r \in Requests : \/ Arrive(r) \/ Refuse(r) \/ Finish(r) \/ Close(r)
                           \/ Abort(r) \/ EndAborted(r)
    \/ Shutdown \/ RunHooks \/ Closed \/ CloseFails \/ Wait \/ Exit

Spec == Init /\ [][Next]_vars

\* gracefulShutdown goes on by itself; a request or a hook may hang.
GoesOn == WF_vars(Closed) /\ WF_vars(Wait \/ Exit)

FairSpec == Spec /\ GoesOn

-----------------------------------------------------------------------------
\* The counter never exceeds the requests in flight, whatever mixture of
\* finished, closed and broken responses it has seen: a leak would make every
\* shutdown wait for its deadline.  The other way round it may fall short: a
\* response that ends normally takes two off, in Finish and in Close.
NeverOvercounted == inflightRequests <= Cardinality(Running)

\* A shutdown that has begun ends in an exit, whatever hangs, with one
\* exception: app.close(), which has no deadline, may itself be kept waiting
\* for ever by a destroy hook or by a request.  "Wait for in-flight requests
\* to finish, or until timeout" (main.ts:308) is true of the loop alone, which
\* finds a request in flight, and needs its deadline, after CloseFails only.
ShutdownEnds ==
    \/ main = "closing" ~> main = "exited"
    \/ <>[](main = "closing" /\ (~hooksRun \/ Running # {}))
=============================================================================
