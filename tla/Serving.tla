------------------------------- MODULE Serving --------------------------------
(***************************************************************************)
(* Requests through a bulkhead and Idempotency.Do: the composition of      *)
(* modules Bulkhead and Idempotency.  bulkheadHandler (internal/server/    *)
(* resilience.go) submits a task that serves the request and waits for it; *)
(* the pool's workers are the callers of Do.                               *)
(***************************************************************************)
EXTENDS Idempotency, Bulkhead

CONSTANT keyOf   \* the Idempotency-Key of each request, a task of the pool

ASSUME ServingAssumption == Workers = Callers /\ keyOf \in [Tasks -> Keys]

VARIABLE served  \* requests whose task has called Do

allVars == <<vars, poolVars, served>>

\* A request arrives: the pool takes it or sheds it with a 503.
Arrive(r) == Submit(r) /\ UNCHANGED <<vars, served>>
Arrived   == SubmitCounted /\ UNCHANGED <<vars, served>>

\* A worker's loop outside its tasks.
Fetch(c) == (Take(c) \/ Block(c) \/ Exit(c)) /\ UNCHANGED <<vars, served>>

\* The task a worker runs calls Do.
Serve(c) ==
    /\ worker[c].pc = "run"
    /\ worker[c].task \notin served
    /\ Do(c, keyOf[worker[c].task])
    /\ served' = served \cup {worker[c].task}
    /\ UNCHANGED poolVars

\* Do has returned or panicked, and the task with it: bulkheadHandler's wait ends.
Return(c, panics) ==
    /\ worker[c].pc = "run" /\ worker[c].task \in served
    /\ call[c].pc = "idle"
    /\ Finish(c, panics)
    /\ UNCHANGED <<vars, served>>

\* The database's side: statements of Do, errors, idemgc.
Database ==
    /\ \/ \E c \in Callers : Progress(c) \/ \E landed \in BOOLEAN : Fail(c, landed)
       \/ \E k \in Keys : Sweep(k)
    /\ UNCHANGED <<poolVars, served>>

\* Server shutdown closes the pool.
Shutdown == (Close \/ CloseReturns) /\ UNCHANGED <<vars, served>>

ServingInit == Init /\ PoolInit /\ served = {}

ServingNext ==
    \/ (\E r \in Tasks : Arrive(r)) \/ Arrived
    \/ \E c \in Callers : Fetch(c) \/ Serve(c) \/ \E panics \in BOOLEAN : Return(c, panics)
    \/ Database \/ Shutdown

ServingSpec == ServingInit /\ [][ServingNext]_allVars

\* Goroutines are scheduled; the connection pool and PostgreSQL serve
\* their waiters in order, so no call of Do is passed over for ever.  Shutdown may never come.
ServingFairSpec ==
    /\ ServingSpec
    /\ \A c \in Callers :
         /\ WF_allVars(Fetch(c)) /\ WF_allVars(Serve(c)) /\ WF_allVars(\E panics \in BOOLEAN : Return(c, panics))
         /\ SF_allVars(Progress(c) /\ UNCHANGED <<poolVars, served>>)
    /\ WF_allVars(Arrived)
    /\ WF_allVars(CloseReturns /\ UNCHANGED <<vars, served>>)

-----------------------------------------------------------------------------
(* Properties *)

\* The state of the pool and of Do have their types: the queue stays within its
\* capacity and the connections in use within those of the pgx pool.
ServingTypeOK == PoolTypeOK /\ TypeOK

\* Whoever is inside Do is a worker that runs a request with that key: the pool's
\* bound is the bound on concurrent calls, and Close waits for them.
CallsAreRequests ==
    \A c \in Callers : call[c].pc # "idle" => worker[c].pc = "run" /\ call[c].key = keyOf[worker[c].task]

\* Every pooled connection belongs to a call of Do that waits for one more, or for
\* a claim of its key by a call that does.
PoolExhausted ==
    /\ ~FreeConn
    /\ \A c \in Holding : \/ call[c].pc = "run"
                          \/ call[c].pc = "insert" /\ ClaimedByOther(c)

\* Accepted requests are answered and the shutdown ends: no interleaving of full
\* queues, waits for a key or a connection, panics, failures and Close leaves
\* bulkheadHandler or Close waiting for ever, unless all connections have gone to
\* calls of Do whose fn waits for a second one (until some client gives up).
RequestsEnd ==
    <>[](\/ PoolExhausted
         \/ closer # "waiting" /\ \A r \in Tasks : task[r] # "accepted")

=============================================================================
