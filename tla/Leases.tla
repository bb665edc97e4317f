-------------------------------- MODULE Leases --------------------------------
(***************************************************************************)
(* Dynamic-secret leases (internal/dynsecret, internal/leaseworker, and    *)
(* their serving in internal/api and internal/server), for one tenant.     *)
(*                                                                         *)
(* Each process has an engine whose leases live in memory; the backend's   *)
(* credentials, the revocation rows of the outbox and the idempotency      *)
(* records survive it.  In each process a request handler and, on the      *)
(* leader, the lease worker use the engine; the leader's dispatcher sees   *)
(* the same outbox rows.                                                   *)
(***************************************************************************)
EXTENDS Naturals, FiniteSets

CONSTANTS
    Procs, NoProc,   \* processes
    Keys, NoKey,     \* idempotency keys of issue requests
    Unreliable,      \* leases whose provider may fail to revoke
    MaxLeases,       \* bound: credentials generated
    MaxFaults        \* bound: crashes, failed or unanswered statements

ASSUME LeasesAssumption ==
    /\ NoProc \notin Procs /\ NoKey \notin Keys
    /\ MaxLeases \in Nat /\ MaxFaults \in Nat
    /\ Unreliable \subseteq 1..MaxLeases

VARIABLES
    engine,     \* the processes whose engine exists
    lease,      \* Engine.leases and Engine.idem: home process, key, state
    due,        \* active leases past their expiry
    cred,       \* the backend's credential of each lease
    row,        \* the dynsecret.revoke outbox row of each lease
    recorded,   \* keys with a completed idempotency record
    job,        \* what the handler and the worker of each process are doing
    leader,     \* the process that runs the leader's workers
    unanswered, \* leases whose Enqueue failed or was not answered
    acked,      \* leases whose row the dispatcher has marked delivered
    faults

vars == <<engine, lease, due, cred, row, recorded, job, leader, unanswered, acked, faults>>

Ids    == 1..MaxLeases
Roles  == {"api", "worker"}
Idle   == [pc |-> "idle", lease |-> 0, key |-> NoKey, items |-> {}]
None   == [home |-> NoProc, key |-> NoKey, state |-> "none"]
Unused == {l \in Ids : cred[l] = "none"}

Here(p)      == {l \in Ids : lease[l].home = p}
At(j, pc)    == [j EXCEPT !.pc = pc]
Step(p, r, j) == job' = [job EXCEPT ![p][r] = j]

\* A failing step spends one of the modelled faults.
Fault(failed) ==
    /\ failed => faults < MaxFaults
    /\ faults' = IF failed THEN faults + 1 ELSE faults

\* Another request holds the key's uncommitted claim.
Claimed(k) == \E p \in Procs : job[p]["api"].key = k

-----------------------------------------------------------------------------
(* issueDynamicLease: the handler runs under the idempotency claim of its key. *)

\* Mutant of IssueBegin: the engine does not look the key up.
IssueBeginAnew(p, k) ==
    /\ job[p]["api"] = Idle
    /\ k \notin recorded /\ ~Claimed(k)
    /\ engine' = engine \cup {p}
    /\ Step(p, "api", [Idle EXCEPT !.pc = "generating", !.key = k])
    /\ UNCHANGED <<lease, due, cred, row, recorded, leader, unanswered, acked, faults>>

\* Engine.Issue replays the lease this process has for the key, or goes on to
\* generate one outside the mutex.
IssueBegin(p, k) ==
    LET replay == {l \in Here(p) : lease[l].key = k} IN
    /\ job[p]["api"] = Idle
    /\ k \notin recorded /\ ~Claimed(k)
    /\ engine' = engine \cup {p}
    /\ Step(p, "api", [Idle EXCEPT !.pc = IF replay = {} THEN "generating" ELSE "recording", !.key = k])
    /\ UNCHANGED <<lease, due, cred, row, recorded, leader, unanswered, acked, faults>>

\* A request that finds no lease, or only reads one, makes the engine too.
dynamicLeaseEngine(p) ==
    /\ p \notin engine
    /\ engine' = engine \cup {p}
    /\ UNCHANGED <<lease, due, cred, row, recorded, job, leader, unanswered, acked, faults>>

\* Provider.Generate: a credential, an error, or a credential whose answer is lost.
Generate(p, l, outcome) ==
    /\ job[p]["api"].pc = "generating"
    /\ l \in Unused /\ \A u \in Unused : l <= u
    /\ Fault(outcome = "lost")
    /\ cred' = IF outcome = "failed" THEN cred ELSE [cred EXCEPT ![l] = "live"]
    /\ Step(p, "api", IF outcome = "ok" THEN [job[p]["api"] EXCEPT !.pc = "opening", !.lease = l] ELSE Idle)
    /\ UNCHANGED <<engine, lease, due, row, recorded, leader, unanswered, acked>>

\* The lease enters the engine's maps.
Open(p) ==
    LET j == job[p]["api"] IN
    /\ j.pc = "opening"
    /\ lease' = [lease EXCEPT ![j.lease] = [home |-> p, key |-> j.key, state |-> "active"]]
    /\ Step(p, "api", At(j, "recording"))
    /\ UNCHANGED <<engine, due, cred, row, recorded, leader, unanswered, acked, faults>>

\* The response is recorded under the key, or the claim is rolled back.
Record(p, ok) ==
    /\ job[p]["api"].pc = "recording"
    /\ Fault(~ok)
    /\ recorded' = IF ok THEN recorded \cup {job[p]["api"].key} ELSE recorded
    /\ Step(p, "api", Idle)
    /\ UNCHANGED <<engine, lease, due, cred, row, leader, unanswered, acked>>

-----------------------------------------------------------------------------
(* Renewal, revocation and expiry. *)

\* A lease's ExpiresAt passes.
Expire(l) ==
    /\ lease[l].state = "active"
    /\ l \notin due
    /\ due' = due \cup {l}
    /\ UNCHANGED <<engine, lease, cred, row, recorded, job, leader, unanswered, acked, faults>>

\* The credential ends on its own: PostgreSQL roles are VALID UNTIL a day from now,
\* Kubernetes tokens last an hour, whatever the lease says.  What the backend made
\* for it (the role, the account) stays.
Lapse(l) ==
    /\ cred[l] = "live"
    /\ cred' = [cred EXCEPT ![l] = "lapsed"]
    /\ UNCHANGED <<engine, lease, due, row, recorded, job, leader, unanswered, acked, faults>>

\* Engine.Renew extends an active lease, past its expiry or not; the backend is
\* not told.
Renew(l) ==
    /\ lease[l].state = "active"
    /\ l \in due
    /\ due' = due \ {l}
    /\ UNCHANGED <<engine, lease, cred, row, recorded, job, leader, unanswered, acked, faults>>

\* Mutant of Flip: the lease stays active until its row is in the outbox.
FlipLater(l) == lease' = lease

\* Engine.Revoke marks the lease before it enqueues the backend revocation.
Flip(l) == lease' = [lease EXCEPT ![l].state = "revoked"]

\* revokeDynamicLease: a lease already revoked has nothing to enqueue.
RevokeBegin(p, l) ==
    /\ job[p]["api"] = Idle
    /\ l \in Here(p)
    /\ IF lease[l].state = "revoked"
       THEN Step(p, "api", At(Idle, "listing")) /\ UNCHANGED lease
       ELSE Step(p, "api", [Idle EXCEPT !.pc = "enqueueing", !.lease = l]) /\ Flip(l)
    /\ UNCHANGED <<engine, due, cred, row, recorded, leader, unanswered, acked, faults>>

\* Mutant of Enqueue: an error ends the worker, not only its tick.
EnqueueStops(p, r, outcome) ==
    LET j == job[p][r] IN
    /\ j.pc = "enqueueing"
    /\ Fault(outcome # "ok")
    /\ row' = [row EXCEPT ![j.lease] = IF outcome # "failed" /\ @ = "none" THEN "pending" ELSE @]
    /\ unanswered' = IF outcome = "ok" THEN unanswered ELSE unanswered \cup {j.lease}
    /\ Step(p, r, At(j, IF outcome # "ok" THEN "idle" ELSE IF r = "api" THEN "listing" ELSE "expiring"))
    /\ UNCHANGED <<engine, lease, due, cred, recorded, leader, acked>>

\* RevokeQueue.Enqueue; on an error the handler answers it and the worker ends
\* its tick.
Enqueue(p, r, outcome) ==
    LET j == job[p][r] IN
    /\ j.pc = "enqueueing"
    /\ Fault(outcome # "ok")
    /\ row' = [row EXCEPT ![j.lease] = IF outcome # "failed" /\ @ = "none" THEN "pending" ELSE @]
    /\ unanswered' = IF outcome = "ok" THEN unanswered ELSE unanswered \cup {j.lease}
    /\ Step(p, r, IF outcome # "ok" THEN Idle ELSE At(j, IF r = "api" THEN "listing" ELSE "expiring"))
    /\ UNCHANGED <<engine, lease, due, cred, recorded, leader, acked>>

\* Worker.Tick, on the leader and for an engine that exists: ExpireDue looks for
\* the leases that are due.
Tick(p) ==
    /\ leader = p /\ p \in engine
    /\ job[p]["worker"] = Idle
    /\ Step(p, "worker", [Idle EXCEPT !.pc = "expiring",
                                      !.items = {l \in Here(p) : lease[l].state = "active" /\ l \in due}])
    /\ UNCHANGED <<engine, lease, due, cred, row, recorded, leader, unanswered, acked, faults>>

\* Mutant of ExpireNext: an expired lease is marked and not enqueued.
ExpireNextUnqueued(p) ==
    LET j == job[p]["worker"] IN
    /\ j.pc = "expiring"
    /\ IF j.items = {}
       THEN Step(p, "worker", At(Idle, "listing")) /\ UNCHANGED lease
       ELSE \E l \in j.items : Step(p, "worker", [j EXCEPT !.items = @ \ {l}]) /\ Flip(l)
    /\ UNCHANGED <<engine, due, cred, row, recorded, leader, unanswered, acked, faults>>

\* ExpireDue revokes one of them, unless a request has; then the queue is drained.
ExpireNext(p) ==
    LET j == job[p]["worker"] IN
    /\ j.pc = "expiring"
    /\ IF j.items = {}
       THEN Step(p, "worker", At(Idle, "listing")) /\ UNCHANGED lease
       ELSE \E l \in j.items :
              IF lease[l].state = "revoked"
              THEN Step(p, "worker", [j EXCEPT !.items = @ \ {l}]) /\ UNCHANGED lease
              ELSE /\ Step(p, "worker", [j EXCEPT !.pc = "enqueueing", !.lease = l, !.items = @ \ {l}])
                   /\ Flip(l)
    /\ UNCHANGED <<engine, due, cred, row, recorded, leader, unanswered, acked, faults>>

-----------------------------------------------------------------------------
(* RunRevocations, by a handler after a revocation or by the worker. *)

\* The rows of the destination that are not delivered.
PendingItems == {l \in Ids : row[l] = "pending"}

\* RevokeQueue.Pending; an error ends the drain.
List(p, r, ok) ==
    /\ job[p][r].pc = "listing"
    /\ Fault(~ok)
    /\ Step(p, r, IF ok THEN [Idle EXCEPT !.pc = "draining", !.items = PendingItems] ELSE Idle)
    /\ UNCHANGED <<engine, lease, due, cred, row, recorded, leader, unanswered, acked>>

\* Provider.Revoke succeeds.
RevokeBackend(p, r, l) ==
    /\ job[p][r].pc = "draining" /\ l \in job[p][r].items
    /\ cred' = [cred EXCEPT ![l] = "revoked"]
    /\ Step(p, r, [job[p][r] EXCEPT !.pc = "settling", !.lease = l, !.items = @ \ {l}])
    /\ UNCHANGED <<engine, lease, due, row, recorded, leader, unanswered, acked, faults>>

\* Provider.Revoke fails: the item stays queued and the next one is tried.
RevokeFails(p, r, l) ==
    /\ job[p][r].pc = "draining" /\ l \in job[p][r].items \cap Unreliable
    /\ Step(p, r, [job[p][r] EXCEPT !.items = @ \ {l}])
    /\ UNCHANGED <<engine, lease, due, cred, row, recorded, leader, unanswered, acked, faults>>

\* RevokeQueue.Done; an error ends the drain.
Done(p, r, ok) ==
    LET j == job[p][r] IN
    /\ j.pc = "settling"
    /\ Fault(~ok)
    /\ row' = IF ok THEN [row EXCEPT ![j.lease] = "delivered"] ELSE row
    /\ Step(p, r, IF ok THEN At(j, "draining") ELSE Idle)
    /\ UNCHANGED <<engine, lease, due, cred, recorded, leader, unanswered, acked>>

\* The list is through.
DrainEnd(p, r) ==
    /\ job[p][r].pc = "draining" /\ job[p][r].items = {}
    /\ Step(p, r, Idle)
    /\ UNCHANGED <<engine, lease, due, cred, row, recorded, leader, unanswered, acked, faults>>

\* The leader's dispatcher claims the row: issuanceDispatcher.Deliver knows no
\* such destination, returns nil, and the row is marked delivered.
Deliver(l) ==
    /\ leader # NoProc
    /\ row[l] = "pending"
    /\ row' = [row EXCEPT ![l] = "delivered"]
    /\ acked' = acked \cup {l}
    /\ UNCHANGED <<engine, lease, due, cred, recorded, job, leader, unanswered, faults>>

-----------------------------------------------------------------------------
(* Leadership and crashes. *)

\* RunDynamicLeaseWorker's context ends between two ticks: a last drain.
StepDown(p) ==
    /\ leader = p
    /\ job[p]["worker"] = Idle
    /\ leader' = NoProc
    /\ Step(p, "worker", IF p \in engine THEN At(Idle, "listing") ELSE Idle)
    /\ UNCHANGED <<engine, lease, due, cred, row, recorded, unanswered, acked, faults>>

\* The next leader, once the last one's workers have returned (module Leader).
Elect(p) ==
    /\ leader = NoProc
    /\ \A q \in Procs : job[q]["worker"] = Idle
    /\ leader' = p
    /\ UNCHANGED <<engine, lease, due, cred, row, recorded, job, unanswered, acked, faults>>

\* A process dies and comes back with no engine.
Crash(p) ==
    /\ Fault(TRUE)
    /\ engine' = engine \ {p}
    /\ lease' = [l \in Ids |-> IF l \in Here(p) THEN [lease[l] EXCEPT !.home = NoProc, !.state = "lost"] ELSE lease[l]]
    /\ due' = due \ Here(p)
    /\ job' = [job EXCEPT ![p] = [r \in Roles |-> Idle]]
    /\ leader' = IF leader = p THEN NoProc ELSE leader
    /\ UNCHANGED <<cred, row, recorded, unanswered, acked>>

-----------------------------------------------------------------------------
Outcomes == {"ok", "failed", "lost"}

Init ==
    /\ engine = {} /\ due = {} /\ recorded = {} /\ unanswered = {} /\ acked = {}
    /\ lease = [l \in Ids |-> None]
    /\ cred = [l \in Ids |-> "none"]
    /\ row = [l \in Ids |-> "none"]
    /\ job = [p \in Procs |-> [r \in Roles |-> Idle]]
    /\ leader = NoProc
    /\ faults = 0

\* The steps of a request or of a tick that has begun ...
Issuing(p) == Open(p) \/ \E ok \in BOOLEAN : Record(p, ok)

Draining(p, r) ==
    \/ \E o \in Outcomes : Enqueue(p, r, o)
    \/ \E ok \in BOOLEAN : List(p, r, ok) \/ Done(p, r, ok)
    \/ DrainEnd(p, r)

\* ... and the answers of a backend: the calls have no deadline of their own.
BackendGenerates(p)  == \E l \in Ids, o \in Outcomes : Generate(p, l, o)
BackendRevokes(p, r) == \E l \in Ids : RevokeBackend(p, r, l) \/ RevokeFails(p, r, l)

Next ==
    \/ \E p \in Procs : \/ \E k \in Keys : IssueBegin(p, k)
                        \/ \E l \in Ids : RevokeBegin(p, l)
                        \/ \E r \in Roles : Draining(p, r) \/ BackendRevokes(p, r)
                        \/ BackendGenerates(p)
                        \/ Issuing(p) \/ ExpireNext(p) \/ dynamicLeaseEngine(p)
                        \/ Tick(p) \/ StepDown(p) \/ Elect(p) \/ Crash(p)
    \/ \E l \in Ids : Expire(l) \/ Lapse(l) \/ Renew(l) \/ Deliver(l)

Spec == Init /\ [][Next]_vars

\* The ticker keeps ticking, and a request or tick that has begun goes on; the
\* expiry of a lease, renewals, the backend and the dispatcher are not scheduled.
FairSpec ==
    /\ Spec
    /\ \A p \in Procs : /\ WF_vars(Tick(p)) /\ WF_vars(ExpireNext(p)) /\ WF_vars(Issuing(p))
                        /\ \A r \in Roles : WF_vars(Draining(p, r))

\* Granted to the claim of the documentation: a leader is elected again and again
\* and stays for a tick often enough, and backends answer.
SteadySpec ==
    /\ FairSpec
    /\ WF_vars(\E p \in Procs : Elect(p))
    /\ \A p \in Procs : /\ SF_vars(Tick(p)) /\ WF_vars(BackendGenerates(p))
                        /\ \A r \in Roles : WF_vars(BackendRevokes(p, r))

-----------------------------------------------------------------------------
(* Properties *)

LeaseStates == [home : Procs \cup {NoProc}, key : Keys \cup {NoKey}, state : {"none", "active", "revoked", "lost"}]
Pcs         == {"idle", "generating", "opening", "recording", "enqueueing", "expiring", "listing", "draining", "settling"}
Jobs        == [pc : Pcs, lease : 0..MaxLeases, key : Keys \cup {NoKey}, items : SUBSET Ids]

\* The variables have their types; a job refers only to leases the backend knows,
\* and the queue holds only those.
TypeOK ==
    /\ engine \subseteq Procs /\ leader \in Procs \cup {NoProc}
    /\ lease \in [Ids -> LeaseStates]
    /\ cred \in [Ids -> {"none", "live", "lapsed", "revoked"}] /\ row \in [Ids -> {"none", "pending", "delivered"}]
    /\ job \in [Procs -> [Roles -> Jobs]]
    /\ due \cup unanswered \cup acked \subseteq Ids /\ recorded \subseteq Keys /\ faults \in 0..MaxFaults
    /\ \A p \in Procs, r \in Roles : \A l \in job[p][r].items : cred[l] # "none"
    /\ \A l \in Ids : row[l] # "none" => cred[l] # "none"

\* A lease the engine calls active is not being revoked: whichever of a request, the
\* worker, another process or a replay of the queue runs when, none of them takes the
\* backend's credential from a lease that can still be renewed.
ActiveLeaseUnrevoked ==
    \A l \in Ids : lease[l].state = "active" => cred[l] \in {"live", "lapsed"} /\ row[l] = "none"

\* A revocation is not forgotten: until the backend has revoked what it made for a
\* lease marked revoked, its row is pending, or is being enqueued, or the Enqueue was
\* reported to have failed, or the dispatcher acknowledged the row.  RunRevocations
\* settles no row the backend has not revoked.
RevocationKept ==
    \A l \in Ids : lease[l].state = "revoked" /\ cred[l] # "revoked" =>
        \/ row[l] = "pending"
        \/ l \in unanswered \cup acked
        \/ \E p \in Procs, r \in Roles : job[p][r].pc = "enqueueing" /\ job[p][r].lease = l

\* Issuing is idempotent by key: a request retried because its response was not
\* recorded meets the lease it has already opened, so a process never has two
\* leases for a key.
OneLeasePerKey ==
    \A p \in Procs : \A l, m \in Here(p) : lease[l].key = lease[m].key => l = m

\* The worker of p waits for the backend's answer to a revocation.
AwaitsBackend(p) == job[p]["worker"].pc = "draining" /\ job[p]["worker"].items # {}

\* The worker keeps up: an expired lease in the leader's engine is marked revoked,
\* through failing statements and failing revocations, unless it is renewed, the
\* leader changes, or the worker's tick hangs in Provider.Revoke for ever (the call
\* has no deadline: a backend that never answers stops the expiry of all leases).
DueLeaseExpires ==
    \A p \in Procs, l \in Ids :
        []<>(~AwaitsBackend(p)) =>
            ((l \in Here(p) /\ l \in due /\ leader = p)
                ~> (lease[l].state # "active" \/ l \notin due \/ leader # p))

\* What docs/features/secrets.md says: when a lease expires its credential is
\* revoked, unless the lease is renewed or the credential has ended by itself.
ExpiryRevokes ==
    \A l \in Ids : (l \in due) ~> (cred[l] # "live" \/ (lease[l].state = "active" /\ l \notin due))

=============================================================================
