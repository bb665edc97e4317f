-------------------------------- MODULE Outbox --------------------------------
(***************************************************************************)
(* The outbox dispatcher of internal/orchestrator/outbox.go.               *)
(*                                                                         *)
(* A sweep (one Dispatch call) claims one due row at a time in a short     *)
(* transaction that leases it, calls the handler outside any transaction,  *)
(* and finalises the row in a second short transaction.  A server process  *)
(* owns one Outbox value - one worker id, one table of circuit breakers -  *)
(* and runs several sweeps at once on its bulkhead pool; processes share   *)
(* the table.  Sweeps may stall, fail or die at any step.                  *)
(*                                                                         *)
(* Time is relative: next_attempt_at, lease_until, the delivery deadline   *)
(* and the circuit's openUntil are kept as the time left until they are    *)
(* reached, and Tick lowers them all.                                      *)
(***************************************************************************)
EXTENDS Naturals, Sequences, FiniteSets

CONSTANTS
    Rows, Tenants, Destinations, Workers, Sweeps,
    tenantOf, destinationOf,    \* of a row
    workerOf,                   \* the process (Outbox value) a sweep runs in
    NoRow, NoWorker,
    leaseTTL, deliveryTimeout,
    claimLatency,               \* longest time the claim transaction takes
    backoffCap,                 \* cap of the exponential retry backoff
    maxAttempts,
    maxInFlightPerDestination, maxInFlightPerTenant,
    circuitFailureThreshold, circuitOpenDuration,
    MaxFaults                   \* bound: crashes, stalls and database errors

ASSUME OutboxAssumption ==
    /\ tenantOf \in [Rows -> Tenants] /\ destinationOf \in [Rows -> Destinations]
    /\ workerOf \in [Sweeps -> Workers]
    /\ NoRow \notin Rows /\ NoWorker \notin Workers
    /\ leaseTTL \in Nat /\ deliveryTimeout \in Nat /\ claimLatency \in Nat
    /\ maxAttempts \in Nat \ {0} /\ backoffCap \in Nat \ {0}
    /\ maxInFlightPerDestination \in Nat \ {0} /\ maxInFlightPerTenant \in Nat \ {0}
    /\ circuitFailureThreshold \in Nat \ {0} /\ circuitOpenDuration \in Nat \ {0}
    /\ MaxFaults \in Nat

\* The lease outlives the claim transaction and the delivery deadline together
\* (30 s against 25 s: the claim transaction has 5 s).
ASSUME LeaseOutlivesDelivery == claimLatency + deliveryTimeout < leaseTTL

VARIABLES
    row,      \* the outbox table
    order,    \* ids of the enqueued rows, in (next_attempt_at, id) order
    sweep,    \* the running Dispatch calls
    circuit,  \* per process, per tenant and destination
    done,     \* rows for which some handler call returned nil
    faults

vars == <<row, order, sweep, circuit, done, faults>>

CircuitKeys == Tenants \X Destinations
KeyOf(id)   == <<tenantOf[id], destinationOf[id]>>
Statuses    == {"absent", "pending", "processing", "delivered", "failed", "reclaimed"}

Absent == [status |-> "absent", attempts |-> 0, next |-> 0, worker |-> NoWorker, lease |-> 0]
Closed == [state |-> "closed", failures |-> 0, openFor |-> 0]
Idle   == [pc |-> "idle", due |-> {}, seenT |-> {}, seenD |-> {}, expired |-> {},
           blocked |-> {}, reserved |-> {}, id |-> NoRow, attempts |-> 0, lease |-> 0, left |-> 0,
           ok |-> FALSE, stalled |-> FALSE]

Least(a, b) == IF a <= b THEN a ELSE b
Less1(n)    == IF n = 0 THEN 0 ELSE n - 1

\* Attempts matter only against maxAttempts: the counter saturates above it.
Bump(n) == Least(n + 1, maxAttempts + 1)

\* defaultOutboxBackoff: 1, 2, 4, ... up to the cap.
backoff(attempts) == Least(2 ^ (Least(attempts, maxAttempts) - 1), backoffCap)

\* retryDelay: jitter over the upper half of the base delay.
retryDelays(attempts) == ((backoff(attempts) + 1) \div 2) .. backoff(attempts)

Before(a, b) == \E i, j \in DOMAIN order : i < j /\ order[i] = a /\ order[j] = b

\* The table's order after id's next_attempt_at becomes d from now.
Requeued(id, d) ==
    LET Sooner(a) == a # id /\ row[a].next <= d
        Later(a)  == a # id /\ row[a].next > d
    IN  SelectSeq(order, Sooner) \o <<id>> \o SelectSeq(order, Later)

-----------------------------------------------------------------------------
\* Enqueue: a producer's transaction adds a row that is due at once.
Enqueue(id) ==
    /\ row[id].status = "absent"
    /\ order' = Requeued(id, 0)
    /\ row' = [row EXCEPT ![id].status = "pending"]
    /\ UNCHANGED <<sweep, circuit, done, faults>>

\* Dispatch: the cutoff is fixed here, so only rows due by now are considered.
Dispatch(s) ==
    /\ sweep[s].pc = "idle"
    /\ sweep' = [sweep EXCEPT ![s] = [Idle EXCEPT !.pc = "claim",
           !.due = {id \in Rows : row[id].status \in {"pending", "processing"} /\ row[id].next = 0}]]
    /\ UNCHANGED <<row, order, circuit, done, faults>>

\* Rows another claim transaction has written and not yet committed.
LockedBy(s) ==
    IF sweep[s].pc = "claimtx" THEN sweep[s].expired \cup ({sweep[s].id} \ {NoRow}) ELSE {}
LockedByOthers(s) == UNION {LockedBy(q) : q \in Sweeps \ {s}}

ExpiredLeases == {id \in Rows : row[id].status = "processing" /\ row[id].lease = 0}

\* reserveHalfOpenProbes: an open circuit whose time is over admits one probe;
\* open and half-open circuits block their key.
Reservable(w) == {k \in CircuitKeys : circuit[w][k].state = "open" /\ circuit[w][k].openFor = 0}
Blocked(w)    == {k \in CircuitKeys : circuit[w][k].state # "closed"} \ Reservable(w)

\* Mutant of ClaimBegin: the reserved circuits are not marked half-open.
ClaimBeginUnmarked(s) ==
    LET w == workerOf[s] IN
    /\ sweep[s].pc = "claim"
    /\ sweep' = [sweep EXCEPT ![s].pc = "reserved", ![s].lease = leaseTTL,
           ![s].expired = ExpiredLeases, ![s].blocked = Blocked(w), ![s].reserved = Reservable(w)]
    /\ UNCHANGED <<row, order, circuit, done, faults>>

\* claimOne begins: it reads the clock and this process's circuit breakers.  The
\* lease it will grant runs from here, and leases still running are not expired.
ClaimBegin(s) ==
    LET w == workerOf[s] IN
    /\ sweep[s].pc = "claim"
    /\ sweep' = [sweep EXCEPT ![s].pc = "reserved", ![s].lease = leaseTTL,
           ![s].expired = ExpiredLeases, ![s].blocked = Blocked(w), ![s].reserved = Reservable(w)]
    /\ circuit' = [circuit EXCEPT ![w] = [k \in CircuitKeys |->
           IF k \in Reservable(w) THEN [circuit[w][k] EXCEPT !.state = "half-open"]
                                  ELSE circuit[w][k]]]
    /\ UNCHANGED <<row, order, done, faults>>

\* The rows whose expired lease the transaction takes back.
Recovered(s) == sweep[s].expired \cap ExpiredLeases

\* The candidate's WHERE clause, over the rows committed now and this
\* transaction's own lease recovery.
Claimable(s, id) ==
    LET IsDue(a)    == (row[a].status = "pending" \/ a \in Recovered(s)) /\ a \in sweep[s].due
        InFlight(a) == row[a].status = "processing" /\ row[a].lease > 0
    IN  /\ IsDue(id)
        /\ tenantOf[id] \notin sweep[s].seenT
        /\ destinationOf[id] \notin sweep[s].seenD
        /\ KeyOf(id) \notin sweep[s].blocked
        /\ Cardinality({a \in Rows : InFlight(a) /\ destinationOf[a] = destinationOf[id]})
             < maxInFlightPerDestination
        /\ Cardinality({a \in Rows : InFlight(a) /\ tenantOf[a] = tenantOf[id]})
             < maxInFlightPerTenant
        /\ ~\E a \in Rows : IsDue(a) /\ KeyOf(a) = KeyOf(id) /\ Before(a, id)

\* The claim statements: recover expired leases (waiting for their row locks),
\* pick the first claimable row that is not locked (SKIP LOCKED), and lease it.
\* Nothing is visible to others yet.
ClaimExec(s) ==
    LET free == {id \in Rows : Claimable(s, id)} \ LockedByOthers(s) IN
    /\ sweep[s].pc = "reserved"
    /\ Recovered(s) \cap LockedByOthers(s) = {}
    /\ \E id \in free \cup {NoRow} :
         /\ IF id = NoRow THEN free = {} ELSE \A a \in free : ~Before(a, id)
         /\ sweep' = [sweep EXCEPT ![s].pc = "claimtx", ![s].id = id,
                ![s].expired = Recovered(s), ![s].blocked = {}]
    /\ UNCHANGED <<row, order, circuit, done, faults>>

\* Mutant of Release: a reserved circuit that was not claimed stays half-open.
ReleaseNothing(s, claimed) == UNCHANGED circuit

\* releaseUnclaimedHalfOpenProbes: every reserved key but the claimed one.
Release(s, claimed) ==
    LET w == workerOf[s] IN
    circuit' = [circuit EXCEPT ![w] = [k \in CircuitKeys |->
        IF k \in sweep[s].reserved \ claimed /\ circuit[w][k].state = "half-open"
        THEN [circuit[w][k] EXCEPT !.state = "open", !.openFor = 0]
        ELSE circuit[w][k]]]

\* What the claim transaction writes.
Claimed(s) ==
    [a \in Rows |->
        IF a = sweep[s].id
        THEN [row[a] EXCEPT !.status = "processing", !.attempts = Bump(@),
                            !.worker = workerOf[s], !.lease = sweep[s].lease]
        ELSE IF a \in sweep[s].expired
        THEN [row[a] EXCEPT !.status = "pending", !.worker = NoWorker, !.lease = 0]
        ELSE row[a]]

\* The claim commits: the lease is visible and the handler is called.
ClaimCommit(s) ==
    LET id == sweep[s].id IN
    /\ sweep[s].pc = "claimtx"
    /\ id # NoRow
    /\ row' = Claimed(s)
    /\ Release(s, {KeyOf(id)})
    /\ sweep' = [sweep EXCEPT ![s].pc = "delivering", ![s].expired = {},
           ![s].reserved = @ \cap {KeyOf(id)}, ![s].lease = 0,
           ![s].attempts = Bump(row[id].attempts), ![s].left = deliveryTimeout,
           ![s].seenT = @ \cup {tenantOf[id]}, ![s].seenD = @ \cup {destinationOf[id]}]
    /\ UNCHANGED <<order, done, faults>>

\* Nothing claimable: start a new round, or end the Dispatch call.
ClaimNone(s) ==
    /\ sweep[s].pc = "claimtx"
    /\ sweep[s].id = NoRow
    /\ row' = Claimed(s)
    /\ Release(s, {})
    /\ sweep' = [sweep EXCEPT ![s] =
           IF sweep[s].seenT = {} /\ sweep[s].seenD = {} THEN Idle
           ELSE [Idle EXCEPT !.pc = "claim", !.due = sweep[s].due]]
    /\ UNCHANGED <<order, done, faults>>

\* A statement or the commit fails and Dispatch returns.  The transaction rolled
\* back, unless it was the answer to the commit that was lost (landed).
ClaimError(s, landed) ==
    /\ sweep[s].pc \in {"reserved", "claimtx"}
    /\ landed => sweep[s].pc = "claimtx"
    /\ faults < MaxFaults
    /\ faults' = faults + 1
    /\ row' = IF landed THEN Claimed(s) ELSE row
    /\ Release(s, {})
    /\ sweep' = [sweep EXCEPT ![s] = Idle]
    /\ UNCHANGED <<order, done>>

\* The handler returns, by its deadline at the latest.
Deliver(s, ok) ==
    /\ sweep[s].pc = "delivering"
    /\ sweep' = [sweep EXCEPT ![s].pc = "finalize", ![s].ok = ok, ![s].left = 0]
    /\ done' = IF ok THEN done \cup {sweep[s].id} ELSE done
    /\ UNCHANGED <<row, order, circuit, faults>>

\* Mutant of HoldsLease: the row's id will do.
HoldsRow(s) == TRUE

\* finalizeClaim's WHERE clause: still processing, still this worker's id.
HoldsLease(s) ==
    LET id == sweep[s].id IN
    /\ row[id].status = "processing"
    /\ row[id].worker = workerOf[s]

\* The sweep goes on to its next claim.
NextClaim(s) ==
    [Idle EXCEPT !.pc = "claim", !.due = sweep[s].due,
                 !.seenT = sweep[s].seenT, !.seenD = sweep[s].seenD]

\* Success: delivered, and recordCircuitSuccess closes the circuit.
Delivered(id) ==
    row' = [row EXCEPT ![id].status = "delivered", ![id].worker = NoWorker, ![id].lease = 0]

FinalizeSuccess(s) ==
    LET id == sweep[s].id IN
    /\ sweep[s].pc = "finalize" /\ sweep[s].ok
    /\ id \notin LockedByOthers(s)
    /\ HoldsLease(s)
    /\ Delivered(id)
    /\ circuit' = [circuit EXCEPT ![workerOf[s]][KeyOf(id)] = Closed]
    /\ sweep' = [sweep EXCEPT ![s] = NextClaim(s)]
    /\ UNCHANGED <<order, done, faults>>

\* recordCircuitFailure: a failed probe, or the threshold, opens the circuit.
AfterFailure(c) ==
    LET n == Least(c.failures + 1, circuitFailureThreshold) IN
    IF c.state = "half-open" \/ n >= circuitFailureThreshold
    THEN [state |-> "open", failures |-> n, openFor |-> circuitOpenDuration]
    ELSE [c EXCEPT !.failures = n]

\* finalizeClaim's UPDATE after a failure: back to pending after the backoff, or
\* dead-lettered at the cap.  The new next_attempt_at is after every running
\* sweep's cutoff; this sweep continues as t.
Retry(s, d, t) ==
    LET id == sweep[s].id IN
    /\ sweep[s].pc = "finalize" /\ ~sweep[s].ok
    /\ d \in retryDelays(sweep[s].attempts)
    /\ id \notin LockedByOthers(s)
    /\ HoldsLease(s)
    /\ row' = [row EXCEPT ![id] = [@ EXCEPT !.worker = NoWorker, !.lease = 0, !.next = d,
           !.status = IF sweep[s].attempts >= maxAttempts THEN "failed" ELSE "pending"]]
    /\ order' = Requeued(id, d)
    /\ sweep' = [q \in Sweeps |->
           LET u == IF q = s THEN t ELSE sweep[q] IN [u EXCEPT !.due = @ \ {id}]]
    /\ UNCHANGED done

\* Mutant of FinalizeFailure: dead-lettered one attempt early.
FinalizeFailureEarly(s, d) ==
    LET id == sweep[s].id IN
    /\ sweep[s].pc = "finalize" /\ ~sweep[s].ok
    /\ d \in retryDelays(sweep[s].attempts)
    /\ id \notin LockedByOthers(s)
    /\ HoldsLease(s)
    /\ row' = [row EXCEPT ![id] = [@ EXCEPT !.worker = NoWorker, !.lease = 0, !.next = d,
           !.status = IF sweep[s].attempts + 1 >= maxAttempts THEN "failed" ELSE "pending"]]
    /\ order' = Requeued(id, d)
    /\ sweep' = [sweep EXCEPT ![s] = [NextClaim(s) EXCEPT !.due = @ \ {id}]]
    /\ UNCHANGED <<circuit, done, faults>>

\* Failure: the row is retried later and recordCircuitFailure counts it.
FinalizeFailure(s, d) ==
    /\ Retry(s, d, NextClaim(s))
    /\ circuit' = [circuit EXCEPT ![workerOf[s]][KeyOf(sweep[s].id)] = AfterFailure(@)]
    /\ UNCHANGED faults

\* The same when only the answer to its commit is lost: no circuit bookkeeping.
FinalizeFailureUnanswered(s, d) ==
    /\ Retry(s, d, Idle)
    /\ faults < MaxFaults
    /\ faults' = faults + 1
    /\ UNCHANGED circuit

\* "lease was lost": Dispatch returns the error, no circuit bookkeeping.
FinalizeLost(s) ==
    /\ sweep[s].pc = "finalize"
    /\ sweep[s].id \notin LockedByOthers(s)
    /\ ~HoldsLease(s)
    /\ sweep' = [sweep EXCEPT ![s] = Idle]
    /\ UNCHANGED <<row, order, circuit, done, faults>>

\* A database error while finalising: the same, and the row keeps its lease, or
\* a success is recorded after all if only the commit's answer was lost (landed).
FinalizeError(s, landed) ==
    LET id == sweep[s].id IN
    /\ sweep[s].pc = "finalize"
    /\ landed => sweep[s].ok /\ HoldsLease(s) /\ id \notin LockedByOthers(s)
    /\ faults < MaxFaults
    /\ faults' = faults + 1
    /\ IF landed THEN Delivered(id) ELSE UNCHANGED row
    /\ sweep' = [sweep EXCEPT ![s] = Idle]
    /\ UNCHANGED <<order, circuit, done>>

\* A finalisation that takes long enough for the lease to run out.
Stall(s) ==
    /\ sweep[s].pc = "finalize" /\ ~sweep[s].stalled
    /\ faults < MaxFaults
    /\ faults' = faults + 1
    /\ sweep' = [sweep EXCEPT ![s].stalled = TRUE]
    /\ UNCHANGED <<row, order, circuit, done>>

\* outboxgc.Sweep deletes a delivered row past the retention window.
Reclaim(id) ==
    /\ row[id].status = "delivered"
    /\ row' = [row EXCEPT ![id].status = "reclaimed"]
    /\ UNCHANGED <<order, sweep, circuit, done, faults>>

\* A process dies and restarts: its sweeps and its in-memory circuits are gone.
Crash(w) ==
    /\ faults < MaxFaults
    /\ faults' = faults + 1
    /\ sweep' = [s \in Sweeps |-> IF workerOf[s] = w THEN Idle ELSE sweep[s]]
    /\ circuit' = [circuit EXCEPT ![w] = [k \in CircuitKeys |-> Closed]]
    /\ UNCHANGED <<row, order, done>>

\* One unit of time passes.  It cannot pass a delivery's deadline, a claim
\* transaction's latency bound, or a finalisation that has not stalled.
Tick ==
    /\ \A s \in Sweeps :
         /\ sweep[s].pc = "delivering" => sweep[s].left > 0
         /\ sweep[s].pc \in {"reserved", "claimtx"} => sweep[s].lease > leaseTTL - claimLatency
         /\ sweep[s].pc = "finalize" => sweep[s].stalled
    /\ row' = [id \in Rows |-> [row[id] EXCEPT !.next = Less1(@), !.lease = Less1(@)]]
    /\ sweep' = [s \in Sweeps |-> [sweep[s] EXCEPT !.lease = Less1(@), !.left = Less1(@)]]
    /\ circuit' = [w \in Workers |-> [k \in CircuitKeys |->
           [circuit[w][k] EXCEPT !.openFor = Less1(@)]]]
    /\ UNCHANGED <<order, done, faults>>

-----------------------------------------------------------------------------
Init ==
    /\ row = [id \in Rows |-> Absent]
    /\ order = <<>>
    /\ sweep = [s \in Sweeps |-> Idle]
    /\ circuit = [w \in Workers |-> [k \in CircuitKeys |-> Closed]]
    /\ done = {}
    /\ faults = 0

SweepStep(s) ==
    \/ Dispatch(s) \/ ClaimBegin(s) \/ ClaimExec(s) \/ ClaimCommit(s) \/ ClaimNone(s)
    \/ \E landed \in BOOLEAN : ClaimError(s, landed) \/ FinalizeError(s, landed)
    \/ \E ok \in BOOLEAN : Deliver(s, ok)
    \/ FinalizeSuccess(s)
    \/ \E d \in 1..backoffCap : FinalizeFailure(s, d) \/ FinalizeFailureUnanswered(s, d)
    \/ FinalizeLost(s) \/ Stall(s)

Next ==
    \/ \E s \in Sweeps : SweepStep(s)
    \/ \E id \in Rows : Enqueue(id) \/ Reclaim(id)
    \/ \E w \in Workers : Crash(w)
    \/ Tick

Spec == Init /\ [][Next]_vars

\* The dispatcher ticks for ever, a started sweep keeps being scheduled, a
\* handler answers or times out, and time does not stand still (it cannot pass
\* within a claim transaction when claimLatency is 0, hence strong fairness).
FairSpec ==
    /\ Spec
    /\ \A s \in Sweeps : WF_vars(\/ Dispatch(s) \/ ClaimBegin(s) \/ ClaimExec(s) \/ ClaimCommit(s)
                                 \/ ClaimNone(s) \/ \E ok \in BOOLEAN : Deliver(s, ok)
                                 \/ FinalizeSuccess(s)
                                 \/ \E d \in 1..backoffCap : FinalizeFailure(s, d)
                                 \/ FinalizeLost(s))
    /\ SF_vars(Tick)

-----------------------------------------------------------------------------
(* Properties *)

Row   == [status : Statuses, attempts : 0..(maxAttempts + 1), next : 0..backoffCap,
          worker : Workers \cup {NoWorker}, lease : 0..leaseTTL]
Sweep == [pc : {"idle", "claim", "reserved", "claimtx", "delivering", "finalize"},
          due : SUBSET Rows, seenT : SUBSET Tenants, seenD : SUBSET Destinations,
          expired : SUBSET Rows, blocked : SUBSET CircuitKeys,
          reserved : SUBSET CircuitKeys, id : Rows \cup {NoRow},
          attempts : 0..(maxAttempts + 1), lease : 0..leaseTTL, left : 0..deliveryTimeout,
          ok : BOOLEAN, stalled : BOOLEAN]

RowsOK    == row \in [Rows -> Row] /\ done \subseteq Rows
SweepsOK  == sweep \in [Sweeps -> Sweep]
CircuitOK == circuit \in [Workers -> [CircuitKeys ->
                 [state : {"closed", "open", "half-open"}, failures : 0..circuitFailureThreshold,
                  openFor : 0..circuitOpenDuration]]]

\* Rows, sweeps and circuits have their types: leases, deadlines, delays and the
\* breakers' failure counts stay within the limits NewOutbox gives them.
TypeOK == RowsOK /\ SweepsOK /\ CircuitOK

\* Concurrent sweeps are safe: no row is handed to two handlers at the same time,
\* however the claims, the lease recovery, stalled finalisations and crashes
\* interleave.  It is what the server's outbox loop says of the sweeps it submits;
\* a finalisation that outlives its lease refutes it, because the sweeps of a
\* process share the worker id that finalizeClaim compares.
SingleDeliverer ==
    \A s, q \in Sweeps :
        sweep[s].pc = "delivering" /\ sweep[q].pc = "delivering" /\ sweep[s].id = sweep[q].id
        => s = q

\* A row is marked delivered (and later reclaimed by the GC) only if some handler
\* call for it returned nil: a late or misdirected finalisation loses no effect.
DeliveredWasPerformed ==
    \A id \in Rows : row[id].status \in {"delivered", "reclaimed"} => id \in done

\* No row is dead-lettered before it has had maxAttempts claims.
DeadLetteredAfterMaxAttempts ==
    \A id \in Rows : row[id].status = "failed" => row[id].attempts >= maxAttempts

\* A half-open circuit admits one probe: of the sweeps of a process, at most one
\* is delivering the row it claimed as the probe of a tenant/destination.  It
\* needs a circuit that stays open longer than a claim and a delivery together
\* (30 s against 25 s in NewOutbox): a late sweep must not meet the next probe.
OneProbe ==
    \A s, q \in Sweeps : \A k \in CircuitKeys :
        /\ workerOf[s] = workerOf[q]
        /\ sweep[s].pc = "delivering" /\ k \in sweep[s].reserved
        /\ sweep[q].pc = "delivering" /\ k \in sweep[q].reserved
        => s = q

\* The abstract state of a row: pending and processing rows are open.
Phase(st) ==
    CASE st \in {"pending", "processing"} -> "open"
      [] st = "failed"                    -> "dead"
      [] OTHER                            -> st

promised == [id \in Rows |-> Phase(row[id].status)]

Promise == INSTANCE Delivery WITH state <- promised

\* The dispatcher implements Delivery: through claims, lease recovery, late and
\* misdirected finalisations, lost database answers and crashes no open row
\* disappears, a row becomes delivered only after a handler call for it returned
\* nil, and a settled row is never claimed, retried or dead-lettered again.
ImplementsDelivery == Promise!Spec

\* A database error, a stall or a lost lease after the half-open reservation: every
\* process that lives has the circuit of the row half-open and no sweep that probes
\* it, so no claim passes it until that process restarts.
StuckHalfOpen(id) ==
    /\ faults > 0
    /\ \A w \in Workers : /\ circuit[w][KeyOf(id)].state = "half-open"
                           /\ \A s \in Sweeps : workerOf[s] = w => KeyOf(id) \notin sweep[s].reserved

\* Every enqueued row is delivered or dead-lettered in the end, through failures,
\* backoff, open circuits, lease recovery, crashes and database errors, unless such
\* an error has left its circuit half-open for good.
EveryRowSettles ==
    <>[](\A id \in Rows : \/ row[id].status \in {"absent", "delivered", "reclaimed", "failed"}
                           \/ StuckHalfOpen(id))

=============================================================================
