------------------------------ MODULE Idempotency ------------------------------
(***************************************************************************)
(* Idempotency.Do of internal/orchestrator/idempotency.go on the bounded   *)
(* connection pool of internal/store/store.go.                             *)
(*                                                                         *)
(* Do claims a key with INSERT ... ON CONFLICT DO NOTHING, runs fn and     *)
(* records its result in one tenant transaction, which keeps one pooled    *)
(* connection for its whole duration.  fn does its own reads and commits   *)
(* its own effects in transactions of its own, each on a second connection *)
(* of the same pool.  Callers are the bulkhead workers that serve API      *)
(* requests, protocol and agent enrolments and outbox handlers.            *)
(***************************************************************************)
EXTENDS Naturals, FiniteSets

CONSTANTS
    Callers,      \* bulkhead workers that may call Do at the same time
    Keys,         \* idempotency keys of one tenant
    NoKey,
    maxConns,     \* size of the connection pool
    MaxFaults,    \* bound: errors, cancellations and lost answers
    MaxReclaims   \* bound: sweeps of idemgc that reach a key

ASSUME IdempotencyAssumption ==
    /\ IsFiniteSet(Callers)
    /\ NoKey \notin Keys
    /\ maxConns \in Nat \ {0} /\ MaxFaults \in Nat /\ MaxReclaims \in Nat

VARIABLES
    keyRow,     \* idempotency_keys: 0, or the result of the completed row
    call,       \* the running Do calls
    effects,    \* per key, how many runs of fn have committed their effects
    replies,    \* per key, the results callers were answered with
    reclaimed,  \* per key, how often idemgc removed its row
    faults

vars == <<keyRow, call, effects, replies, reclaimed, faults>>

Idle == [pc |-> "idle", key |-> NoKey, result |-> 0]

\* Callers inside WithTenant hold a connection; those inside a transaction of
\* fn hold a second one.
Holding == {c \in Callers : call[c].pc \in {"insert", "conflict", "run", "effect", "ran"}}
Nested  == {c \in Callers : call[c].pc = "effect"}
FreeConn == Cardinality(Holding) + Cardinality(Nested) < maxConns

\* The key is claimed by a row that is not yet committed.
Claiming(c) == call[c].pc \in {"run", "effect", "ran"}
ClaimedByOther(c) == \E d \in Callers \ {c} : Claiming(d) /\ call[d].key = call[c].key

-----------------------------------------------------------------------------
\* A request, an enrolment or an outbox handler calls Do.
Do(c, k) ==
    /\ call[c].pc = "idle"
    /\ call' = [call EXCEPT ![c] = [pc |-> "begin", key |-> k, result |-> 0]]
    /\ UNCHANGED <<keyRow, effects, replies, reclaimed, faults>>

\* WithTenant: pool.Begin waits for a connection.
Begin(c) ==
    /\ call[c].pc = "begin"
    /\ FreeConn
    /\ call' = [call EXCEPT ![c].pc = "insert"]
    /\ UNCHANGED <<keyRow, effects, replies, reclaimed, faults>>

\* Mutant of Claim: the INSERT does not wait for another's uncommitted row.
ClaimNoWait(c) ==
    /\ call[c].pc = "insert"
    /\ call' = [call EXCEPT ![c].pc = IF keyRow[call[c].key] = 0 THEN "run" ELSE "conflict"]
    /\ UNCHANGED <<keyRow, effects, replies, reclaimed, faults>>

\* Mutant of Claim: a recorded key is claimed again.
ClaimAgain(c) ==
    /\ call[c].pc = "insert"
    /\ ~ClaimedByOther(c)
    /\ call' = [call EXCEPT ![c].pc = "run"]
    /\ UNCHANGED <<keyRow, effects, replies, reclaimed, faults>>

\* The INSERT waits for another's uncommitted row, then claims or conflicts.
Claim(c) ==
    /\ call[c].pc = "insert"
    /\ ~ClaimedByOther(c)
    /\ call' = [call EXCEPT ![c].pc = IF keyRow[call[c].key] = 0 THEN "run" ELSE "conflict"]
    /\ UNCHANGED <<keyRow, effects, replies, reclaimed, faults>>

\* The recorded result is loaded: a committed row is always 'completed', so
\* ErrInProgress cannot be returned here.
Load(c) ==
    /\ call[c].pc = "conflict"
    /\ keyRow[call[c].key] # 0
    /\ call' = [call EXCEPT ![c].pc = "reply", ![c].result = keyRow[call[c].key]]
    /\ UNCHANGED <<keyRow, effects, replies, reclaimed, faults>>

\* idemgc removed the row between the INSERT and the SELECT: Do returns an error.
LoadMissing(c) ==
    /\ call[c].pc = "conflict"
    /\ keyRow[call[c].key] = 0
    /\ call' = [call EXCEPT ![c] = Idle]
    /\ UNCHANGED <<keyRow, effects, replies, reclaimed, faults>>

\* fn opens a transaction of its own and waits for a second connection.
FnBegin(c) ==
    /\ call[c].pc = "run"
    /\ FreeConn
    /\ call' = [call EXCEPT ![c].pc = "effect"]
    /\ UNCHANGED <<keyRow, effects, replies, reclaimed, faults>>

\* Its effects are committed, and stay whatever becomes of the claim.
FnCommit(c) ==
    LET k == call[c].key IN
    /\ call[c].pc = "effect"
    /\ effects' = [effects EXCEPT ![k] = @ + 1]
    /\ call' = [call EXCEPT ![c] = [pc |-> "ran", key |-> k, result |-> effects[k] + 1]]
    /\ UNCHANGED <<keyRow, replies, reclaimed, faults>>

\* Mutant of Record: the body stored is not the one that is returned.
RecordOther(c) ==
    /\ call[c].pc = "ran"
    /\ keyRow' = [keyRow EXCEPT ![call[c].key] = call[c].result + 1]
    /\ call' = [call EXCEPT ![c].pc = "reply"]
    /\ UNCHANGED <<effects, replies, reclaimed, faults>>

\* The result is recorded with the claim, and both commit.
Record(c) ==
    /\ call[c].pc = "ran"
    /\ keyRow' = [keyRow EXCEPT ![call[c].key] = call[c].result]
    /\ call' = [call EXCEPT ![c].pc = "reply"]
    /\ UNCHANGED <<effects, replies, reclaimed, faults>>

\* Do returns the result.
Answer(c) ==
    /\ call[c].pc = "reply"
    /\ replies' = [replies EXCEPT ![call[c].key] = @ \cup {call[c].result}]
    /\ call' = [call EXCEPT ![c] = Idle]
    /\ UNCHANGED <<keyRow, effects, reclaimed, faults>>

\* Do returns an error: fn failed before or after an effect of its, the client
\* went away, the database refused or the process died.  The claim rolls back,
\* unless only the answer to its commit was lost (landed).
Fail(c, landed) ==
    /\ call[c].pc \notin {"idle", "reply"}
    /\ landed => call[c].pc = "ran"
    /\ faults < MaxFaults
    /\ faults' = faults + 1
    /\ keyRow' = IF landed THEN [keyRow EXCEPT ![call[c].key] = call[c].result] ELSE keyRow
    /\ call' = [call EXCEPT ![c] = Idle]
    /\ UNCHANGED <<effects, replies, reclaimed>>

\* idemgc.Sweep deletes a completed key past the retention window.
Sweep(k) ==
    /\ keyRow[k] # 0
    /\ reclaimed[k] < MaxReclaims
    /\ keyRow' = [keyRow EXCEPT ![k] = 0]
    /\ reclaimed' = [reclaimed EXCEPT ![k] = @ + 1]
    /\ UNCHANGED <<call, effects, replies, faults>>

-----------------------------------------------------------------------------
Init ==
    /\ keyRow = [k \in Keys |-> 0]
    /\ call = [c \in Callers |-> Idle]
    /\ effects = [k \in Keys |-> 0]
    /\ replies = [k \in Keys |-> {}]
    /\ reclaimed = [k \in Keys |-> 0]
    /\ faults = 0

Progress(c) ==
    \/ Begin(c) \/ Claim(c) \/ Load(c) \/ LoadMissing(c)
    \/ FnBegin(c) \/ FnCommit(c) \/ Record(c) \/ Answer(c)

Next ==
    \/ \E c \in Callers, k \in Keys : Do(c, k)
    \/ \E c \in Callers : Progress(c)
    \/ \E c \in Callers, landed \in BOOLEAN : Fail(c, landed)
    \/ \E k \in Keys : Sweep(k)

Spec == Init /\ [][Next]_vars

-----------------------------------------------------------------------------
(* Properties *)

Pcs == {"idle", "begin", "insert", "conflict", "run", "effect", "ran", "reply"}

\* The variables have their types, and the connections that callers hold, with
\* those of fn's own transactions, never exceed the pool (pgxpool MaxConns).
TypeOK ==
    /\ keyRow \in [Keys -> Nat]
    /\ call \in [Callers -> [pc : Pcs, key : Keys \cup {NoKey}, result : Nat]]
    /\ effects \in [Keys -> Nat] /\ reclaimed \in [Keys -> 0..MaxReclaims]
    /\ replies \in [Keys -> SUBSET Nat]
    /\ faults \in 0..MaxFaults
    /\ Cardinality(Holding) + Cardinality(Nested) <= maxConns

\* While one caller runs fn for a key no other does: the uncommitted row of Do's
\* INSERT keeps concurrent requests with the same key out.
OneRunner ==
    \A c, d \in Callers :
        Claiming(c) /\ Claiming(d) /\ call[c].key = call[d].key => c = d

\* Every caller of a key is answered with the same result until idemgc removes
\* the key, whichever callers fail, retry or wait in between.
OneAnswerPerKey ==
    \A k \in Keys : Cardinality(replies[k]) <= 1 + reclaimed[k]

\* fn runs again for a key only if a run failed after its effects were committed
\* or idemgc removed the key.
RerunNeedsFailure == \A k \in Keys : effects[k] <= 1 + reclaimed[k] + faults

=============================================================================
