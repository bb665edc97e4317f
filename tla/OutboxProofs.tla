----------------------------- MODULE OutboxProofs -----------------------------
(***************************************************************************)
(* Theorems about Outbox, for every set of rows, sweeps and processes and  *)
(* every lease, timeout and cap that satisfies the module's assumptions.   *)
(***************************************************************************)
EXTENDS Outbox, TLAPS

\* A claim or a delivery is about a row, and a claim's lease is still fresh.
ClaimShape ==
    \A s \in Sweeps :
        /\ sweep[s].pc \in {"delivering", "finalize"} => sweep[s].id \in Rows
        /\ sweep[s].pc \in {"reserved", "claimtx"} => sweep[s].lease >= leaseTTL - claimLatency

ShapeInv == RowsOK /\ SweepsOK /\ ClaimShape

-----------------------------------------------------------------------------
\* The saturating attempt counter stays in range and never falls.
LEMMA BumpType == ASSUME NEW n \in 0..(maxAttempts + 1) PROVE Bump(n) \in 0..(maxAttempts + 1) /\ Bump(n) >= n
BY OutboxAssumption DEF Bump, Least

\* Counting down stays in range.
LEMMA LessType == ASSUME NEW m \in Nat, NEW n \in 0..m PROVE Less1(n) \in 0..m
BY DEF Less1

\* The state of a sweep that is not running is well formed.
LEMMA IdleType == Idle \in Sweep
BY OutboxAssumption DEF Idle, Sweep

\* The rows a claim transaction writes are rows.
LEMMA ClaimedType ==
    ASSUME ShapeInv, NEW s \in Sweeps
    PROVE  Claimed(s) \in [Rows -> Row]
<1>1. ASSUME NEW a \in Rows PROVE Claimed(s)[a] \in Row
  <2>1. row[a] \in Row /\ row[a].attempts \in 0..(maxAttempts + 1) /\ workerOf[s] \in Workers
        /\ sweep[s].lease \in 0..leaseTTL /\ 0 \in 0..leaseTTL
    BY OutboxAssumption DEF ShapeInv, RowsOK, SweepsOK, Row, Sweep
  <2>2. Bump(row[a].attempts) \in 0..(maxAttempts + 1)
    BY <2>1, BumpType
  <2> QED
    BY <2>1, <2>2 DEF Claimed, Row, Statuses
<1> QED
  BY <1>1 DEF Claimed

\* Marking a row delivered leaves a well-formed table.
LEMMA DeliveredType ==
    ASSUME ShapeInv, NEW id \in Rows, Delivered(id)
    PROVE  row' \in [Rows -> Row]
<1>1. row[id] \in Row /\ 0 \in 0..leaseTTL
  BY OutboxAssumption DEF ShapeInv, RowsOK
<1>2. [row[id] EXCEPT !.status = "delivered", !.worker = NoWorker, !.lease = 0] \in Row
  BY <1>1 DEF Row, Statuses
<1> QED
  BY <1>2 DEF Delivered, ShapeInv, RowsOK

\* The empty table and the idle sweeps are well formed.
LEMMA ShapeInit == Init => ShapeInv
<1> SUFFICES ASSUME Init PROVE ShapeInv
  OBVIOUS
<1>1. RowsOK
  BY OutboxAssumption DEF Init, RowsOK, Row, Absent, Statuses
<1>2. SweepsOK
  BY IdleType DEF Init, SweepsOK
<1>3. ClaimShape
  BY DEF Init, ClaimShape, Idle
<1> QED
  BY <1>1, <1>2, <1>3 DEF ShapeInv

\* Every step of the dispatcher keeps rows and sweeps well formed.
LEMMA ShapeNext == ShapeInv /\ [Next]_vars => ShapeInv'
<1> SUFFICES ASSUME ShapeInv, [Next]_vars PROVE ShapeInv'
  OBVIOUS
<1> USE OutboxAssumption DEF ShapeInv
<1>a. \A s \in Sweeps : sweep[s] \in Sweep
  BY DEF SweepsOK
<1>b. \A id \in Rows : row[id] \in Row
  BY DEF RowsOK
<1>0. ASSUME NEW s \in Sweeps, NEW x \in Sweep, sweep' = [sweep EXCEPT ![s] = x],
             x.pc \in {"idle", "claim"}
      PROVE  SweepsOK' /\ ClaimShape'
  BY <1>0 DEF SweepsOK, ClaimShape
<1>1. ASSUME NEW id \in Rows, Enqueue(id) \/ Reclaim(id) PROVE ShapeInv'
  <2>1. RowsOK'
    BY <1>1 DEF Enqueue, Reclaim, RowsOK, Row, Statuses
  <2>2. SweepsOK' /\ ClaimShape'
    BY <1>1 DEF Enqueue, Reclaim, SweepsOK, ClaimShape
  <2> QED
    BY <2>1, <2>2
<1>2. ASSUME NEW s \in Sweeps, Dispatch(s) PROVE ShapeInv'
  <2> DEFINE D == {id \in Rows : row[id].status \in {"pending", "processing"} /\ row[id].next = 0}
  <2>1. [Idle EXCEPT !.pc = "claim", !.due = D] \in Sweep
    BY IdleType DEF Sweep, Idle
  <2>2. [Idle EXCEPT !.pc = "claim", !.due = D].pc = "claim"
    BY DEF Idle
  <2>3. RowsOK'
    BY <1>2 DEF Dispatch, RowsOK
  <2>4. sweep' = [sweep EXCEPT ![s] = [Idle EXCEPT !.pc = "claim", !.due = D]]
    BY <1>2 DEF Dispatch
  <2> QED
    BY <1>0, <2>1, <2>2, <2>3, <2>4
<1>3. ASSUME NEW s \in Sweeps, ClaimBegin(s) PROVE ShapeInv'
  <2>1. RowsOK'
    BY <1>3 DEF ClaimBegin, RowsOK
  <2>2. ExpiredLeases \subseteq Rows /\ Blocked(workerOf[s]) \subseteq CircuitKeys
        /\ Reservable(workerOf[s]) \subseteq CircuitKeys
    BY DEF ExpiredLeases, Blocked, Reservable
  <2>3. SweepsOK'
    <3>1. [sweep[s] EXCEPT !.pc = "reserved", !.lease = leaseTTL, !.expired = ExpiredLeases,
               !.blocked = Blocked(workerOf[s]), !.reserved = Reservable(workerOf[s])] \in Sweep
      <4>1. sweep[s] \in Sweep /\ leaseTTL \in 0..leaseTTL
        BY <1>a
      <4> QED
        BY <2>2, <4>1 DEF Sweep
    <3> QED
      BY <1>3, <3>1 DEF ClaimBegin, SweepsOK
  <2>4. ClaimShape'
    BY <1>3 DEF ClaimBegin, SweepsOK, Sweep, ClaimShape
  <2> QED
    BY <2>1, <2>3, <2>4
<1>4. ASSUME NEW s \in Sweeps, ClaimExec(s) PROVE ShapeInv'
  <2>1. RowsOK'
    BY <1>4 DEF ClaimExec, RowsOK
  <2>2. PICK id \in Rows \cup {NoRow} :
             sweep' = [sweep EXCEPT ![s].pc = "claimtx", ![s].id = id,
                           ![s].expired = Recovered(s), ![s].blocked = {}]
    BY <1>4 DEF ClaimExec
  <2>3. Recovered(s) \subseteq Rows
    BY DEF Recovered, ExpiredLeases
  <2>4. SweepsOK'
    <3>1. [sweep[s] EXCEPT !.pc = "claimtx", !.id = id, !.expired = Recovered(s),
               !.blocked = {}] \in Sweep
      BY ZenonT(30), <1>a, <2>3 DEF Sweep
    <3> QED
      BY <2>2, <3>1 DEF SweepsOK
  <2>5. ClaimShape'
    BY <1>4, <2>2 DEF ClaimExec, SweepsOK, Sweep, ClaimShape
  <2> QED
    BY <2>1, <2>4, <2>5
<1>5. ASSUME NEW s \in Sweeps, ClaimCommit(s) PROVE ShapeInv'
  <2>1. RowsOK'
    BY <1>5, ClaimedType DEF ClaimCommit, RowsOK
  <2>2. sweep[s] \in Sweep /\ sweep[s].id \in Rows
    BY <1>5 DEF ClaimCommit, SweepsOK, Sweep
  <2>3. Bump(row[sweep[s].id].attempts) \in 0..(maxAttempts + 1)
    BY <2>2, BumpType DEF RowsOK, Row
  <2>4. tenantOf[sweep[s].id] \in Tenants /\ destinationOf[sweep[s].id] \in Destinations
        /\ deliveryTimeout \in 0..deliveryTimeout /\ 0 \in 0..leaseTTL
    BY <2>2
  <2>5. SweepsOK'
    <3>1. [sweep[s] EXCEPT !.pc = "delivering", !.expired = {},
               !.reserved = @ \cap {KeyOf(sweep[s].id)}, !.lease = 0,
               !.attempts = Bump(row[sweep[s].id].attempts), !.left = deliveryTimeout,
               !.seenT = @ \cup {tenantOf[sweep[s].id]},
               !.seenD = @ \cup {destinationOf[sweep[s].id]}] \in Sweep
      BY <2>2, <2>3, <2>4 DEF Sweep
    <3> QED
      BY <1>5, <3>1 DEF ClaimCommit, SweepsOK
  <2>6. ClaimShape'
    BY ZenonT(30), <1>5, <2>2 DEF ClaimCommit, SweepsOK, Sweep, ClaimShape
  <2> QED
    BY <2>1, <2>5, <2>6
<1>6. ASSUME NEW s \in Sweeps, ClaimNone(s) PROVE ShapeInv'
  <2>1. RowsOK'
    BY <1>6, ClaimedType DEF ClaimNone, RowsOK
  <2>2. [Idle EXCEPT !.pc = "claim", !.due = sweep[s].due] \in Sweep
        /\ [Idle EXCEPT !.pc = "claim", !.due = sweep[s].due].pc = "claim" /\ Idle.pc = "idle"
    BY IdleType DEF Sweep, Idle, SweepsOK
  <2>3. PICK x \in Sweep : x.pc \in {"idle", "claim"} /\ sweep' = [sweep EXCEPT ![s] = x]
    BY <1>6, <2>2, IdleType DEF ClaimNone
  <2> QED
    BY <1>0, <2>1, <2>3
<1>7. ASSUME NEW s \in Sweeps, NEW landed \in BOOLEAN, ClaimError(s, landed) PROVE ShapeInv'
  <2>1. RowsOK'
    BY <1>7, ClaimedType DEF ClaimError, RowsOK
  <2>2. Idle.pc = "idle"
    BY DEF Idle
  <2> QED
    BY <1>0, <1>7, <2>1, <2>2, IdleType DEF ClaimError
<1>8. ASSUME NEW s \in Sweeps, NEW ok \in BOOLEAN, Deliver(s, ok) PROVE ShapeInv'
  <2>1. sweep[s].id \in Rows
    BY <1>8 DEF Deliver, ClaimShape
  <2>2. RowsOK'
    BY <1>8, <2>1 DEF Deliver, RowsOK
  <2>3. 0 \in 0..deliveryTimeout
    OBVIOUS
  <2>4. SweepsOK'
    <3>1. [sweep[s] EXCEPT !.pc = "finalize", !.ok = ok, !.left = 0] \in Sweep
      BY ZenonT(30), <1>a, <2>3 DEF Sweep
    <3> QED
      BY <1>8, <3>1 DEF Deliver, SweepsOK
  <2>5. ClaimShape'
    BY <1>8, <2>1 DEF Deliver, SweepsOK, Sweep, ClaimShape
  <2> QED
    BY <2>2, <2>4, <2>5
<1>9. ASSUME NEW s \in Sweeps PROVE NextClaim(s) \in Sweep /\ NextClaim(s).pc = "claim"
  BY IdleType DEF NextClaim, Sweep, Idle, SweepsOK
<1>10. ASSUME NEW s \in Sweeps, FinalizeSuccess(s) PROVE ShapeInv'
  <2>1. RowsOK'
    BY <1>10, DeliveredType DEF FinalizeSuccess, ClaimShape, RowsOK
  <2> QED
    BY <1>0, <1>9, <1>10, <2>1 DEF FinalizeSuccess
<1>11. ASSUME NEW s \in Sweeps, NEW d \in 1..backoffCap, NEW t \in Sweep,
              t.pc \in {"idle", "claim"}, Retry(s, d, t)
       PROVE  ShapeInv'
  <2>1. RowsOK'
    <3>1. 0 \in 0..leaseTTL /\ d \in 0..backoffCap
      OBVIOUS
    <3> QED
      <4>1. sweep[s].id \in Rows /\ row[sweep[s].id] \in Row
        BY <1>b, <1>11 DEF Retry, ClaimShape
      <4>2. ASSUME NEW st \in {"failed", "pending"}
            PROVE  [row[sweep[s].id] EXCEPT !.worker = NoWorker, !.lease = 0, !.next = d,
                                            !.status = st] \in Row
        BY <3>1, <4>1 DEF Row, Statuses
      <4> QED
        BY <1>11, <4>1, <4>2 DEF Retry, RowsOK
  <2>2. ASSUME NEW q \in Sweeps
        PROVE  /\ sweep'[q] \in Sweep
               /\ q # s => /\ sweep'[q].pc = sweep[q].pc /\ sweep'[q].id = sweep[q].id
                           /\ sweep'[q].lease = sweep[q].lease
               /\ q = s => sweep'[q].pc \in {"idle", "claim"}
    <3>1. CASE q = s
      <4>1. sweep'[q] = [t EXCEPT !.due = @ \ {sweep[s].id}]
        BY <1>11, <3>1 DEF Retry
      <4> QED
        BY <1>11, <3>1, <4>1 DEF Sweep
    <3>2. CASE q # s
      <4>1. sweep'[q] = [sweep[q] EXCEPT !.due = @ \ {sweep[s].id}]
        BY <1>11, <3>2 DEF Retry
      <4> QED
        BY <3>2, <4>1 DEF SweepsOK, Sweep
    <3> QED
      BY <3>1, <3>2
  <2>3. SweepsOK'
    BY <1>11, <2>2 DEF Retry, SweepsOK
  <2>4. ClaimShape'
    BY <2>2 DEF ClaimShape
  <2> QED
    BY <2>1, <2>3, <2>4
<1>12. ASSUME NEW s \in Sweeps, FinalizeLost(s) PROVE ShapeInv'
  <2>1. RowsOK' /\ Idle.pc = "idle"
    BY <1>12 DEF FinalizeLost, RowsOK, Idle
  <2> QED
    BY <1>0, <1>12, <2>1, IdleType DEF FinalizeLost
<1>13. ASSUME NEW s \in Sweeps, NEW landed \in BOOLEAN, FinalizeError(s, landed) PROVE ShapeInv'
  <2>1. RowsOK' /\ Idle.pc = "idle"
    BY <1>13, DeliveredType DEF FinalizeError, ClaimShape, RowsOK, Idle
  <2> QED
    BY <1>0, <1>13, <2>1, IdleType DEF FinalizeError
<1>14. ASSUME NEW s \in Sweeps, Stall(s) PROVE ShapeInv'
  <2>1. [sweep[s] EXCEPT !.stalled = TRUE] \in Sweep
    BY ZenonT(30), <1>a DEF Sweep
  <2>3. RowsOK' /\ SweepsOK'
    BY <1>14, <2>1 DEF Stall, RowsOK, SweepsOK
  <2>2. ClaimShape'
    BY <1>14 DEF Stall, SweepsOK, Sweep, ClaimShape
  <2> QED
    BY <2>2, <2>3
<1>15. ASSUME NEW w \in Workers, Crash(w) PROVE ShapeInv'
  <2>1. RowsOK' /\ SweepsOK'
    BY <1>15, IdleType DEF Crash, RowsOK, SweepsOK
  <2>2. ClaimShape'
    BY <1>15 DEF Crash, Idle, ClaimShape
  <2> QED
    BY <2>1, <2>2
<1>16. ASSUME Tick PROVE ShapeInv'
  <2>1. ASSUME NEW id \in Rows PROVE row'[id] \in Row
    <3>1. Less1(row[id].next) \in 0..backoffCap /\ Less1(row[id].lease) \in 0..leaseTTL
      BY LessType DEF RowsOK, Row
    <3>2. row'[id] = [row[id] EXCEPT !.next = Less1(@), !.lease = Less1(@)]
      BY <1>16 DEF Tick
    <3> QED
      BY <1>b, <3>1, <3>2 DEF Row
  <2>2. RowsOK'
    BY <1>16, <2>1 DEF Tick, RowsOK
  <2>3. ASSUME NEW s \in Sweeps
        PROVE  /\ sweep'[s] \in Sweep
               /\ sweep'[s].pc = sweep[s].pc /\ sweep'[s].id = sweep[s].id
               /\ sweep'[s].lease = Less1(sweep[s].lease)
    <3>1. Less1(sweep[s].lease) \in 0..leaseTTL /\ Less1(sweep[s].left) \in 0..deliveryTimeout
      BY LessType DEF SweepsOK, Sweep
    <3>2. sweep'[s] = [sweep[s] EXCEPT !.lease = Less1(@), !.left = Less1(@)]
      BY <1>16 DEF Tick
    <3> QED
      BY ZenonT(30), <1>a, <3>1, <3>2 DEF Sweep
  <2>4. SweepsOK'
    BY <1>16, <2>3 DEF Tick, SweepsOK
  <2>5. ClaimShape'
    <3>1. ASSUME NEW s \in Sweeps, sweep[s].pc \in {"reserved", "claimtx"}
          PROVE  Less1(sweep[s].lease) >= leaseTTL - claimLatency
      <4>1. sweep[s].lease \in Nat /\ sweep[s].lease > leaseTTL - claimLatency
        <5>1. sweep[s] \in Sweep
          BY <1>a
        <5>2. sweep[s].lease > leaseTTL - claimLatency
          BY <1>16, <3>1 DEF Tick
        <5> QED
          BY <5>1, <5>2 DEF Sweep
      <4>2. leaseTTL - claimLatency >= 0
        BY LeaseOutlivesDelivery
      <4> QED
        BY <4>1, <4>2 DEF Less1
    <3> QED
      BY <2>3, <3>1 DEF ClaimShape
  <2> QED
    BY <2>2, <2>4, <2>5
<1>17. ASSUME UNCHANGED vars PROVE ShapeInv'
  BY <1>17 DEF vars, RowsOK, SweepsOK, ClaimShape
<1>18. ASSUME NEW s \in Sweeps, NEW d \in 1..backoffCap,
              FinalizeFailure(s, d) \/ FinalizeFailureUnanswered(s, d)
       PROVE  ShapeInv'
  <2>1. Idle.pc = "idle"
    BY DEF Idle
  <2> QED
    BY <1>9, <1>11, <1>18, <2>1, IdleType DEF FinalizeFailure, FinalizeFailureUnanswered
<1> QED
  <2>1. ASSUME NEW s \in Sweeps, SweepStep(s) PROVE ShapeInv'
    BY <1>2, <1>3, <1>4, <1>5, <1>6, <1>7, <1>8, <1>10, <1>12, <1>13, <1>14, <1>18, <2>1
       DEF SweepStep
  <2> QED
    BY <1>1, <1>15, <1>16, <1>17, <2>1 DEF Next

-----------------------------------------------------------------------------
(* The lease excludes *)

\* No sweep is still finalising a row that another sweep of its own process has
\* claimed again and is delivering.  (Sweeps of a process share its worker id, so
\* finalizeClaim's WHERE clause does not tell the two claims apart.)
NoLateFinalizer ==
    \A s, q \in Sweeps :
        /\ sweep[s].pc = "finalize" /\ sweep[q].pc = "delivering"
        /\ workerOf[s] = workerOf[q]
        => sweep[s].id # sweep[q].id

\* The rows an open claim transaction has written were pending or expired, and
\* their row locks keep them so until it ends.
ClaimLocks ==
    \A s \in Sweeps : sweep[s].pc = "claimtx" =>
        /\ \A a \in sweep[s].expired : row[a].status = "processing" /\ row[a].lease = 0
        /\ sweep[s].id \in Rows =>
             row[sweep[s].id].status = "pending" \/ sweep[s].id \in sweep[s].expired

LocksDisjoint == \A s, q \in Sweeps : s # q => LockedBy(s) \cap LockedBy(q) = {}

\* A delivery in progress owns its row, and the lease outlasts the deadline.
LeaseHeld ==
    \A s \in Sweeps : sweep[s].pc = "delivering" =>
        /\ row[sweep[s].id].status = "processing"
        /\ row[sweep[s].id].worker = workerOf[s]
        /\ row[sweep[s].id].lease > sweep[s].left

ExclusionInv == ClaimLocks /\ LocksDisjoint

\* What a step keeps: the row locks always, the leases if no finaliser is late.
Alone         == LeaseHeld /\ NoLateFinalizer
ExclusionKept == ExclusionInv' /\ (Alone => LeaseHeld')

\* A row with an open delivery is not written by any claim transaction.
LEMMA DeliveringNotLocked ==
    ASSUME ShapeInv, ExclusionInv, Alone,
           NEW s \in Sweeps, NEW q \in Sweeps, sweep[s].pc = "delivering"
    PROVE  sweep[s].id \notin LockedBy(q)
<1>1. sweep[s] \in Sweep /\ sweep[s].id \in Rows /\ row[sweep[s].id] \in Row
  BY DEF ShapeInv, SweepsOK, RowsOK, ClaimShape
<1>2. row[sweep[s].id].status = "processing" /\ row[sweep[s].id].lease # 0
  BY <1>1 DEF Alone, LeaseHeld, Sweep, Row
<1> QED
  BY <1>1, <1>2 DEF ExclusionInv, ClaimLocks, LockedBy

\* A step that starts no claim and no delivery, and writes no row that an open
\* claim or delivery is about, keeps the invariant.
LEMMA Frame ==
    ASSUME ExclusionInv,
           \A q \in Sweeps : sweep'[q].pc \in {"claimtx", "delivering"} =>
               /\ sweep'[q].pc = sweep[q].pc /\ sweep'[q].id = sweep[q].id
               /\ sweep'[q].expired = sweep[q].expired /\ sweep'[q].left = sweep[q].left,
           \A q \in Sweeps : sweep'[q].pc = "claimtx" =>
               \A a \in LockedBy(q) : row'[a] = row[a],
           Alone => \A q \in Sweeps :
               sweep'[q].pc = "delivering" => row'[sweep[q].id] = row[sweep[q].id]
    PROVE  ExclusionKept
<1>1. ClaimLocks'
  <2> SUFFICES ASSUME NEW s \in Sweeps, sweep'[s].pc = "claimtx"
               PROVE  /\ \A a \in sweep'[s].expired : row'[a].status = "processing" /\ row'[a].lease = 0
                      /\ sweep'[s].id \in Rows =>
                           row'[sweep'[s].id].status = "pending" \/ sweep'[s].id \in sweep'[s].expired
    BY DEF ClaimLocks
  <2>1. LockedBy(s) = sweep[s].expired \cup ({sweep[s].id} \ {NoRow})
    BY DEF LockedBy
  <2>2. sweep[s].id \in Rows => sweep[s].id # NoRow
    BY OutboxAssumption
  <2> QED
    BY <2>1, <2>2 DEF ExclusionInv, ClaimLocks
<1>2. LocksDisjoint'
  <2>1. \A q \in Sweeps : LockedBy(q)' \subseteq LockedBy(q)
    BY DEF LockedBy
  <2> QED
    BY <2>1 DEF ExclusionInv, LocksDisjoint
<1>3. Alone => LeaseHeld'
  BY DEF Alone, LeaseHeld
<1> QED
  BY <1>1, <1>2, <1>3 DEF ExclusionInv, ExclusionKept

\* Every step keeps the row locks and the leases exclusive, one case per action.
LEMMA ExclusionNext ==
    ShapeInv /\ ExclusionInv /\ [Next]_vars => ExclusionKept
<1> SUFFICES ASSUME ShapeInv, ExclusionInv, [Next]_vars PROVE ExclusionKept
  OBVIOUS
<1>a. \A s \in Sweeps : sweep[s] \in Sweep
  BY DEF ShapeInv, SweepsOK
<1>b. \A id \in Rows : row[id] \in Row
  BY DEF ShapeInv, RowsOK
<1>1. ASSUME NEW id \in Rows, Enqueue(id) \/ Reclaim(id) PROVE ExclusionKept
  <2>1. sweep' = sweep /\ row[id].status \in {"absent", "delivered"}
        /\ \A a \in Rows \ {id} : row'[a] = row[a]
    BY <1>1 DEF Enqueue, Reclaim, ShapeInv, RowsOK
  <2>2. \A q \in Sweeps : id \notin LockedBy(q)
    BY <2>1 DEF ExclusionInv, ClaimLocks, LockedBy
  <2>3. \A q \in Sweeps : LockedBy(q) \subseteq Rows
    BY <1>a DEF LockedBy, Sweep
  <2>4. Alone => \A q \in Sweeps : sweep[q].pc = "delivering" => sweep[q].id \in Rows \ {id}
    BY <2>1 DEF Alone, LeaseHeld, ShapeInv, ClaimShape
  <2> QED
    BY <2>1, <2>2, <2>3, <2>4, Frame
<1>2. ASSUME NEW s \in Sweeps, row' = row, \A q \in Sweeps \ {s} : sweep'[q] = sweep[q],
             sweep'[s].pc \notin {"claimtx", "delivering"}
      PROVE  ExclusionKept
  BY <1>2, Frame
<1>3. ASSUME NEW s \in Sweeps, Dispatch(s) \/ ClaimBegin(s) \/ FinalizeLost(s) \/ Stall(s)
      PROVE  ExclusionKept
  <2>1. row' = row /\ \A q \in Sweeps \ {s} : sweep'[q] = sweep[q]
    BY <1>3 DEF Dispatch, ClaimBegin, FinalizeLost, Stall, ShapeInv, SweepsOK
  <2>2. sweep'[s].pc \notin {"claimtx", "delivering"}
    <3>1. CASE Dispatch(s)
      <4>1. PICK D : sweep'[s] = [Idle EXCEPT !.pc = "claim", !.due = D]
        BY <3>1 DEF Dispatch, ShapeInv, SweepsOK
      <4> QED
        BY <4>1 DEF Idle
    <3>4. CASE FinalizeLost(s)
      BY <3>4 DEF FinalizeLost, Idle, ShapeInv, SweepsOK
    <3>2. CASE ClaimBegin(s)
      BY <3>2, <1>a DEF ClaimBegin, Sweep, ShapeInv, SweepsOK
    <3>3. CASE Stall(s)
      <4>1. sweep'[s] = [sweep[s] EXCEPT !.stalled = TRUE] /\ sweep[s].pc = "finalize"
        BY <3>3, <1>a DEF Stall, ShapeInv, SweepsOK
      <4> QED
        BY <4>1, <1>a DEF Sweep
    <3> QED
      BY <1>3, <3>1, <3>2, <3>3, <3>4
  <2> QED
    BY <1>2, <2>1, <2>2
<1>4. ASSUME NEW s \in Sweeps, NEW ok \in BOOLEAN, Deliver(s, ok) PROVE ExclusionKept
  <2>1. row' = row /\ (\A q \in Sweeps \ {s} : sweep'[q] = sweep[q]) /\ sweep'[s].pc = "finalize"
    BY <1>4 DEF Deliver, ShapeInv, SweepsOK, Sweep
  <2> QED
    BY <1>2, <2>1
\* What a claim transaction leaves alone when it commits.
<1>5. ASSUME NEW s \in Sweeps, sweep[s].pc = "claimtx", row' = Claimed(s)
      PROVE  /\ \A q \in Sweeps \ {s} : \A a \in LockedBy(q) : row'[a] = row[a]
             /\ Alone => \A q \in Sweeps :
                    sweep[q].pc = "delivering" => row'[sweep[q].id] = row[sweep[q].id]
  <2>1. \A a \in Rows : a \notin LockedBy(s) => row'[a] = row[a]
    BY <1>5, OutboxAssumption DEF Claimed, LockedBy
  <2>2. \A q \in Sweeps : LockedBy(q) \subseteq Rows
    BY <1>a DEF LockedBy, Sweep
  <2>3. Alone => \A q \in Sweeps : sweep[q].pc = "delivering" => sweep[q].id \in Rows \ LockedBy(s)
    BY DeliveringNotLocked DEF ShapeInv, ClaimShape
  <2> QED
    BY <2>1, <2>2, <2>3 DEF ExclusionInv, LocksDisjoint
<1>6. ASSUME NEW s \in Sweeps, ClaimNone(s) PROVE ExclusionKept
  <2>1. /\ \A q \in Sweeps \ {s} : sweep'[q] = sweep[q]
        /\ sweep'[s].pc \in {"idle", "claim"} /\ sweep[s].pc = "claimtx" /\ row' = Claimed(s)
    BY <1>6 DEF ClaimNone, Idle, ShapeInv, SweepsOK
  <2> QED
    BY <1>5, <2>1, Frame
<1>7. ASSUME NEW s \in Sweeps, NEW landed \in BOOLEAN, ClaimError(s, landed) PROVE ExclusionKept
  <2>1. (\A q \in Sweeps \ {s} : sweep'[q] = sweep[q]) /\ sweep'[s].pc = "idle"
    BY <1>7 DEF ClaimError, Idle, ShapeInv, SweepsOK
  <2>2. CASE landed
    <3>1. sweep[s].pc = "claimtx" /\ row' = Claimed(s)
      BY <1>7, <2>2 DEF ClaimError
    <3> QED
      BY <1>5, <2>1, <3>1, Frame
  <2>3. CASE ~landed
    BY <1>2, <1>7, <2>1, <2>3 DEF ClaimError
  <2> QED
    BY <2>2, <2>3
\* A finalisation writes its own row, which no claim has locked and - unless it is
\* late - no other sweep is delivering.
<1>8. ASSUME NEW s \in Sweeps, sweep[s].pc = "finalize", HoldsLease(s),
             sweep[s].id \notin LockedByOthers(s),
             \A a \in Rows \ {sweep[s].id} : row'[a] = row[a],
             sweep'[s].pc \in {"idle", "claim"},
             \A q \in Sweeps \ {s} : /\ sweep'[q].pc = sweep[q].pc /\ sweep'[q].id = sweep[q].id
                                     /\ sweep'[q].expired = sweep[q].expired
                                     /\ sweep'[q].left = sweep[q].left
      PROVE  ExclusionKept
  <2>1. \A q \in Sweeps \ {s} : sweep[s].id \notin LockedBy(q) /\ LockedBy(q) \subseteq Rows
    BY <1>a, <1>8 DEF LockedByOthers, LockedBy, Sweep
  <2>2. Alone => \A q \in Sweeps \ {s} :
            sweep[q].pc = "delivering" => sweep[q].id \in Rows \ {sweep[s].id}
    BY <1>8 DEF Alone, NoLateFinalizer, HoldsLease, LeaseHeld, ShapeInv, ClaimShape
  <2> QED
    BY <1>8, <2>1, <2>2, Frame
<1>9. ASSUME NEW s \in Sweeps, FinalizeSuccess(s) PROVE ExclusionKept
  <2>1. /\ sweep[s].pc = "finalize" /\ HoldsLease(s) /\ sweep[s].id \notin LockedByOthers(s)
        /\ \A a \in Rows \ {sweep[s].id} : row'[a] = row[a]
        /\ \A q \in Sweeps \ {s} : sweep'[q] = sweep[q]
    BY <1>9 DEF FinalizeSuccess, Delivered, ShapeInv, SweepsOK, RowsOK
  <2>2. sweep'[s].pc = "claim"
    BY <1>9 DEF FinalizeSuccess, NextClaim, Idle, ShapeInv, SweepsOK
  <2> QED
    BY <1>8, <2>1, <2>2
<1>10. ASSUME NEW s \in Sweeps, NEW d \in 1..backoffCap,
              FinalizeFailure(s, d) \/ FinalizeFailureUnanswered(s, d)
       PROVE  ExclusionKept
  <2>0. PICK t : Retry(s, d, t) /\ t \in {NextClaim(s), Idle}
    BY <1>10 DEF FinalizeFailure, FinalizeFailureUnanswered
  <2>1. /\ sweep[s].pc = "finalize" /\ HoldsLease(s) /\ sweep[s].id \notin LockedByOthers(s)
        /\ \A a \in Rows \ {sweep[s].id} : row'[a] = row[a]
    BY <2>0 DEF Retry, ShapeInv, RowsOK
  <2>2. ASSUME NEW q \in Sweeps \ {s}
        PROVE  /\ sweep'[q].pc = sweep[q].pc /\ sweep'[q].id = sweep[q].id
               /\ sweep'[q].expired = sweep[q].expired /\ sweep'[q].left = sweep[q].left
    <3>1. sweep'[q] = [sweep[q] EXCEPT !.due = @ \ {sweep[s].id}] /\ sweep[q] \in Sweep
      BY <2>0, <1>a DEF Retry
    <3> QED
      BY <3>1 DEF Sweep
  <2>3. sweep'[s].pc \in {"claim", "idle"}
    <3>1. sweep'[s] = [t EXCEPT !.due = @ \ {sweep[s].id}]
      BY <2>0 DEF Retry
    <3>2. t \in Sweep /\ t.pc \in {"claim", "idle"}
      <4>1. CASE t = NextClaim(s)
        BY <1>a, <4>1, IdleType DEF NextClaim, Idle, Sweep
      <4>2. CASE t = Idle
        BY <4>2, IdleType DEF Idle
      <4> QED
        BY <2>0, <4>1, <4>2
    <3> QED
      BY <3>1, <3>2 DEF Sweep
  <2> QED
    BY <1>8, <2>1, <2>2, <2>3
<1>11. ASSUME NEW s \in Sweeps, NEW landed \in BOOLEAN, FinalizeError(s, landed) PROVE ExclusionKept
  <2>1. (\A q \in Sweeps \ {s} : sweep'[q] = sweep[q]) /\ sweep'[s].pc = "idle"
        /\ sweep[s].pc = "finalize"
    BY <1>11 DEF FinalizeError, Idle, ShapeInv, SweepsOK
  <2>2. CASE landed
    <3>1. /\ HoldsLease(s) /\ sweep[s].id \notin LockedByOthers(s)
          /\ \A a \in Rows \ {sweep[s].id} : row'[a] = row[a]
      BY <1>11, <2>2 DEF FinalizeError, Delivered, ShapeInv, RowsOK
    <3> QED
      BY <1>8, <2>1, <3>1
  <2>3. CASE ~landed
    BY <1>2, <1>11, <2>1, <2>3 DEF FinalizeError
  <2> QED
    BY <2>2, <2>3
<1>12. ASSUME NEW w \in Workers, Crash(w) PROVE ExclusionKept
  <2>1. row' = row /\ \A q \in Sweeps : sweep'[q] = sweep[q] \/ sweep'[q].pc = "idle"
    BY <1>12 DEF Crash, Idle
  <2> QED
    BY <2>1, Frame
<1>13. ASSUME NEW s \in Sweeps, ClaimExec(s) PROVE ExclusionKept
  <2>1. PICK id \in Rows \cup {NoRow} :
          /\ id # NoRow => Claimable(s, id) /\ id \notin LockedByOthers(s)
          /\ sweep' = [sweep EXCEPT ![s].pc = "claimtx", ![s].id = id,
                           ![s].expired = Recovered(s), ![s].blocked = {}]
    BY <1>13 DEF ClaimExec
  <2>2. /\ \A q \in Sweeps \ {s} : sweep'[q] = sweep[q]
        /\ sweep'[s].pc = "claimtx" /\ sweep'[s].id = id /\ sweep'[s].expired = Recovered(s)
    BY <2>1, <1>a DEF ShapeInv, SweepsOK, Sweep
  <2>3. row' = row /\ Recovered(s) \cap LockedByOthers(s) = {}
    BY <1>13 DEF ClaimExec
  <2>4. id \in Rows => row[id].status = "pending" \/ id \in Recovered(s)
    BY <2>1, OutboxAssumption DEF Claimable
  <2>5. ClaimLocks'
    BY <2>2, <2>3, <2>4 DEF ExclusionInv, ClaimLocks, Recovered, ExpiredLeases
  <2>6. LocksDisjoint'
    <3>1. \A q \in Sweeps \ {s} : LockedBy(q)' = LockedBy(q)
      BY <2>2 DEF LockedBy
    <3>2. LockedBy(s)' = Recovered(s) \cup ({id} \ {NoRow})
      BY <2>2 DEF LockedBy
    <3>3. \A q \in Sweeps \ {s} : LockedBy(s)' \cap LockedBy(q) = {}
      BY <2>1, <2>3, <3>2 DEF LockedByOthers
    <3> QED
      BY <3>1, <3>3 DEF ExclusionInv, LocksDisjoint
  <2>7. Alone => LeaseHeld'
    BY <2>2, <2>3 DEF Alone, LeaseHeld
  <2> QED
    BY <2>5, <2>6, <2>7 DEF ExclusionInv, ExclusionKept
<1>14. ASSUME NEW s \in Sweeps, ClaimCommit(s) PROVE ExclusionKept
  <2>1. sweep[s].pc = "claimtx" /\ sweep[s].id \in Rows /\ row' = Claimed(s)
    BY <1>14, <1>a DEF ClaimCommit, Sweep
  <2>2. /\ \A q \in Sweeps \ {s} : sweep'[q] = sweep[q]
        /\ sweep'[s].pc = "delivering" /\ sweep'[s].id = sweep[s].id
        /\ sweep'[s].left = deliveryTimeout
    BY <1>14 DEF ClaimCommit, ShapeInv, SweepsOK, Sweep
  <2>3. /\ \A q \in Sweeps \ {s} : \A a \in LockedBy(q) : row'[a] = row[a]
        /\ Alone => \A q \in Sweeps :
               sweep[q].pc = "delivering" => row'[sweep[q].id] = row[sweep[q].id]
    BY <1>5, <2>1
  <2>4. ClaimLocks'
    <3> SUFFICES ASSUME NEW q \in Sweeps \ {s}, sweep[q].pc = "claimtx"
                 PROVE  /\ \A a \in sweep[q].expired : row'[a].status = "processing" /\ row'[a].lease = 0
                        /\ sweep[q].id \in Rows =>
                             row'[sweep[q].id].status = "pending" \/ sweep[q].id \in sweep[q].expired
      BY <2>2 DEF ClaimLocks
    <3>1. LockedBy(q) = sweep[q].expired \cup ({sweep[q].id} \ {NoRow})
      BY DEF LockedBy
    <3> QED
      BY <2>3, <3>1, OutboxAssumption DEF ExclusionInv, ClaimLocks
  <2>5. LocksDisjoint'
    <3>1. \A q \in Sweeps : LockedBy(q)' \subseteq LockedBy(q)
      BY <2>2 DEF LockedBy
    <3> QED
      BY <3>1 DEF ExclusionInv, LocksDisjoint
  <2>6. Alone => LeaseHeld'
    <3>1. /\ row'[sweep[s].id].status = "processing" /\ row'[sweep[s].id].worker = workerOf[s]
          /\ row'[sweep[s].id].lease = sweep[s].lease
      BY <2>1, <1>b DEF Claimed, Row
    <3>2. sweep[s].lease > deliveryTimeout
      <4>1. sweep[s].lease >= leaseTTL - claimLatency /\ sweep[s].lease \in Nat
        BY <1>a, <2>1 DEF ShapeInv, ClaimShape, Sweep
      <4> QED
        BY <4>1, LeaseOutlivesDelivery, OutboxAssumption
    <3> QED
      BY <2>2, <2>3, <3>1, <3>2 DEF Alone, LeaseHeld
  <2> QED
    BY <2>4, <2>5, <2>6 DEF ExclusionInv, ExclusionKept
<1>15. ASSUME Tick PROVE ExclusionKept
  <2>1. ASSUME NEW s \in Sweeps
        PROVE  /\ sweep'[s].pc = sweep[s].pc /\ sweep'[s].id = sweep[s].id
               /\ sweep'[s].expired = sweep[s].expired /\ sweep'[s].left = Less1(sweep[s].left)
    <3>1. sweep'[s] = [sweep[s] EXCEPT !.lease = Less1(@), !.left = Less1(@)] /\ sweep[s] \in Sweep
      BY <1>15, <1>a DEF Tick
    <3> QED
      BY <3>1 DEF Sweep
  <2>2. ASSUME NEW id \in Rows
        PROVE  /\ row'[id].status = row[id].status /\ row'[id].worker = row[id].worker
               /\ row'[id].lease = Less1(row[id].lease)
    <3>1. row'[id] = [row[id] EXCEPT !.next = Less1(@), !.lease = Less1(@)] /\ row[id] \in Row
      BY <1>15, <1>b DEF Tick
    <3> QED
      BY <3>1 DEF Row
  <2>3. ClaimLocks'
    <3>1. \A s \in Sweeps : sweep[s].expired \subseteq Rows
      BY <1>a DEF Sweep
    <3> QED
      BY <2>1, <2>2, <3>1 DEF ExclusionInv, ClaimLocks, Less1
  <2>4. LocksDisjoint'
    BY <2>1 DEF ExclusionInv, LocksDisjoint, LockedBy
  <2>5. Alone => LeaseHeld'
    <3> SUFFICES ASSUME Alone, NEW s \in Sweeps, sweep[s].pc = "delivering"
                 PROVE  /\ row'[sweep[s].id].status = "processing"
                        /\ row'[sweep[s].id].worker = workerOf[s]
                        /\ row'[sweep[s].id].lease > sweep'[s].left
      BY <2>1 DEF LeaseHeld
    <3>1. sweep[s].id \in Rows /\ sweep[s].left > 0 /\ sweep[s].left \in Nat
          /\ row[sweep[s].id].lease \in Nat
      <4>1. sweep[s].id \in Rows /\ sweep[s].left > 0
        BY <1>15 DEF Tick, ShapeInv, ClaimShape
      <4>2. row[sweep[s].id] \in Row /\ sweep[s] \in Sweep
        BY <1>a, <1>b, <4>1
      <4> QED
        BY <4>1, <4>2, OutboxAssumption DEF Row, Sweep
    <3> QED
      BY <2>1, <2>2, <3>1 DEF Alone, LeaseHeld, Less1
  <2> QED
    BY <2>3, <2>4, <2>5 DEF ExclusionInv, ExclusionKept
<1>16. ASSUME UNCHANGED vars PROVE ExclusionKept
  BY <1>16 DEF vars, ExclusionInv, ClaimLocks, LocksDisjoint, LeaseHeld, LockedBy, ExclusionKept, Alone
<1> QED
  <2>1. ASSUME NEW s \in Sweeps, SweepStep(s) PROVE ExclusionKept
    BY <1>3, <1>4, <1>6, <1>7, <1>9, <1>10, <1>11, <1>13, <1>14, <2>1 DEF SweepStep
  <2> QED
    BY <1>1, <1>12, <1>15, <1>16, <2>1 DEF Next

\* The row locks and leases of the empty table exclude one another.
LEMMA ExclusionInit == Init => ExclusionInv /\ LeaseHeld
BY DEF Init, ExclusionInv, ClaimLocks, LocksDisjoint, LeaseHeld, LockedBy, Idle

-----------------------------------------------------------------------------
(* The dispatcher implements Delivery *)

\* What a finalisation relies on: its row exists, and if its handler returned nil
\* that is on record.
FinalizeSound ==
    \A s \in Sweeps :
        /\ sweep[s].pc \in {"delivering", "finalize"} => row[sweep[s].id].status # "absent"
        /\ sweep[s].pc = "finalize" /\ sweep[s].ok => sweep[s].id \in done

DeliveryInv == ShapeInv /\ ExclusionInv /\ DeliveredWasPerformed /\ FinalizeSound

\* A step that writes no row's status, and performs nothing, is a stutter.
LEMMA SamePhase ==
    ASSUME \A id \in Rows : Phase(row'[id].status) = Phase(row[id].status), done' = done
    PROVE  UNCHANGED Promise!vars
BY DEF promised, Promise!vars

\* A step that writes the status of one row moves its abstract state alone.
LEMMA OnePhase ==
    ASSUME NEW id \in Rows, \A a \in Rows \ {id} : row'[a] = row[a]
    PROVE  promised' = [promised EXCEPT ![id] = Phase(row'[id].status)]
BY DEF promised

\* The rows of a claim transaction are open, and stay open when it commits.
LEMMA ClaimedPhase ==
    ASSUME DeliveryInv, NEW s \in Sweeps, sweep[s].pc = "claimtx", row' = Claimed(s)
    PROVE  /\ \A id \in Rows : /\ Phase(row'[id].status) = Phase(row[id].status)
                               /\ row'[id].status = "absent" <=> row[id].status = "absent"
                               /\ row'[id].status \in {"delivered", "reclaimed"}
                                    <=> row[id].status \in {"delivered", "reclaimed"}
           /\ sweep[s].id \in Rows => row'[sweep[s].id].status = "processing"
<1>1. ASSUME NEW id \in Rows
      PROVE  /\ Phase(row'[id].status) = Phase(row[id].status)
             /\ row'[id].status = "absent" <=> row[id].status = "absent"
             /\ row'[id].status \in {"delivered", "reclaimed"}
                  <=> row[id].status \in {"delivered", "reclaimed"}
             /\ id = sweep[s].id => row'[id].status = "processing"
  <2>1. row[id] \in Row
    BY DEF DeliveryInv, ShapeInv, RowsOK
  <2>2. CASE id = sweep[s].id
    <3>1. row'[id].status = "processing" /\ row[id].status \in {"pending", "processing"}
      BY <2>1, <2>2 DEF Claimed, Row, DeliveryInv, ExclusionInv, ClaimLocks
    <3> QED
      BY <3>1 DEF Phase
  <2>3. CASE id # sweep[s].id /\ id \in sweep[s].expired
    <3>1. row'[id].status = "pending" /\ row[id].status = "processing"
      BY <2>1, <2>3 DEF Claimed, Row, DeliveryInv, ExclusionInv, ClaimLocks
    <3> QED
      BY <2>3, <3>1 DEF Phase
  <2>4. CASE id # sweep[s].id /\ id \notin sweep[s].expired
    BY <2>4 DEF Claimed
  <2> QED
    BY <2>2, <2>3, <2>4
<1> QED
  BY <1>1

\* A step that performs nothing, takes no row to "delivered" and starts no
\* finalisation keeps what finalisations rely on.
LEMMA SoundFrame ==
    ASSUME DeliveryInv, done' = done,
           \A id \in Rows : /\ row'[id].status = "absent" => row[id].status = "absent"
                            /\ row'[id].status \in {"delivered", "reclaimed"}
                                 => row[id].status \in {"delivered", "reclaimed"},
           \A q \in Sweeps : sweep'[q].pc \in {"delivering", "finalize"} =>
               /\ sweep'[q].pc = sweep[q].pc /\ sweep'[q].id = sweep[q].id
               /\ sweep'[q].ok = sweep[q].ok
    PROVE  DeliveredWasPerformed' /\ FinalizeSound'
<1>1. DeliveredWasPerformed'
  BY DEF DeliveryInv, DeliveredWasPerformed
<1>2. FinalizeSound'
  BY DEF DeliveryInv, FinalizeSound, ShapeInv, ClaimShape
<1> QED
  BY <1>1, <1>2

\* Every step of the dispatcher is a step of Delivery or a stutter, and keeps what
\* finalisations rely on; one case per action.
LEMMA DeliveryNext ==
    DeliveryInv /\ [Next]_vars
    => [Promise!Next]_(Promise!vars) /\ DeliveredWasPerformed' /\ FinalizeSound'
<1> DEFINE Goal == [Promise!Next]_(Promise!vars) /\ DeliveredWasPerformed' /\ FinalizeSound'
<1> SUFFICES ASSUME DeliveryInv, [Next]_vars PROVE Goal
  OBVIOUS
<1>a. \A s \in Sweeps : sweep[s] \in Sweep
  BY DEF DeliveryInv, ShapeInv, SweepsOK
<1>b. \A id \in Rows : row[id] \in Row
  BY DEF DeliveryInv, ShapeInv, RowsOK
<1>c. sweep = [q \in Sweeps |-> sweep[q]] /\ row = [id \in Rows |-> row[id]]
  BY DEF DeliveryInv, ShapeInv, SweepsOK, RowsOK
\* A step that leaves the phases and the finalisations alone.
<1>0. ASSUME done' = done,
             \A id \in Rows : /\ Phase(row'[id].status) = Phase(row[id].status)
                              /\ row'[id].status = "absent" => row[id].status = "absent"
                              /\ row'[id].status \in {"delivered", "reclaimed"}
                                   => row[id].status \in {"delivered", "reclaimed"},
             \A q \in Sweeps : sweep'[q].pc \in {"delivering", "finalize"} =>
                 /\ sweep'[q].pc = sweep[q].pc /\ sweep'[q].id = sweep[q].id
                 /\ sweep'[q].ok = sweep[q].ok
      PROVE  Goal
  BY <1>0, SamePhase, SoundFrame
<1>1. ASSUME NEW id \in Rows, Enqueue(id) PROVE Goal
  <2>1. /\ row[id].status = "absent" /\ row'[id].status = "pending" /\ done' = done
        /\ sweep' = sweep /\ \A a \in Rows \ {id} : row'[a] = row[a]
    BY <1>1, <1>b, <1>c DEF Enqueue, Row
  <2>2. Promise!Enqueue(id)
    BY <2>1, OnePhase DEF Promise!Enqueue, promised, Phase
  <2>3. DeliveredWasPerformed' /\ FinalizeSound'
    BY <2>1, SoundFrame
  <2> QED
    BY <2>2, <2>3 DEF Promise!Next
<1>2. ASSUME NEW id \in Rows, Reclaim(id) PROVE Goal
  <2>1. /\ row[id].status = "delivered" /\ row'[id].status = "reclaimed" /\ done' = done
        /\ sweep' = sweep /\ \A a \in Rows \ {id} : row'[a] = row[a]
    BY <1>2, <1>b, <1>c DEF Reclaim, Row
  <2>2. Promise!Reclaim(id)
    BY <2>1, OnePhase DEF Promise!Reclaim, promised, Phase
  <2>3. DeliveredWasPerformed' /\ FinalizeSound'
    BY <2>1, SoundFrame
  <2> QED
    BY <2>2, <2>3 DEF Promise!Next
<1>3. ASSUME NEW s \in Sweeps, row' = row, done' = done,
             \A q \in Sweeps \ {s} : sweep'[q] = sweep[q],
             sweep'[s].pc \notin {"delivering", "finalize"}
      PROVE  Goal
  BY <1>0, <1>3
<1>4. ASSUME NEW s \in Sweeps, Dispatch(s) PROVE Goal
  <2>1. PICK D : sweep' = [sweep EXCEPT ![s] = [Idle EXCEPT !.pc = "claim", !.due = D]]
    BY <1>4 DEF Dispatch
  <2>2. (\A q \in Sweeps \ {s} : sweep'[q] = sweep[q]) /\ sweep'[s].pc = "claim"
    BY <2>1, <1>c DEF Idle
  <2> QED
    BY <1>3, <1>4, <2>2 DEF Dispatch
<1>5. ASSUME NEW s \in Sweeps, ClaimBegin(s) PROVE Goal
  <2>1. (\A q \in Sweeps \ {s} : sweep'[q] = sweep[q]) /\ sweep'[s].pc = "reserved"
    BY <1>5, <1>a, <1>c DEF ClaimBegin, Sweep
  <2> QED
    BY <1>3, <1>5, <2>1 DEF ClaimBegin
<1>6. ASSUME NEW s \in Sweeps, ClaimExec(s) PROVE Goal
  <2>1. PICK id : sweep' = [sweep EXCEPT ![s].pc = "claimtx", ![s].id = id,
                                ![s].expired = Recovered(s), ![s].blocked = {}]
    BY <1>6 DEF ClaimExec
  <2>2. (\A q \in Sweeps \ {s} : sweep'[q] = sweep[q]) /\ sweep'[s].pc = "claimtx"
    BY <2>1, <1>a, <1>c DEF Sweep
  <2> QED
    BY <1>3, <1>6, <2>2 DEF ClaimExec
<1>7. ASSUME NEW s \in Sweeps, FinalizeLost(s) PROVE Goal
  <2>1. (\A q \in Sweeps \ {s} : sweep'[q] = sweep[q]) /\ sweep'[s].pc = "idle"
    BY <1>7, <1>c DEF FinalizeLost, Idle
  <2> QED
    BY <1>3, <1>7, <2>1 DEF FinalizeLost
<1>8. ASSUME NEW s \in Sweeps, Stall(s) PROVE Goal
  <2>1. \A q \in Sweeps : /\ sweep'[q].pc = sweep[q].pc /\ sweep'[q].id = sweep[q].id
                          /\ sweep'[q].ok = sweep[q].ok
    BY <1>8, <1>a, <1>c DEF Stall, Sweep
  <2> QED
    BY <1>0, <1>8, <2>1 DEF Stall
<1>9. ASSUME NEW s \in Sweeps, ClaimNone(s) PROVE Goal
  <2>1. /\ \A q \in Sweeps \ {s} : sweep'[q] = sweep[q]
        /\ sweep'[s].pc \in {"idle", "claim"} /\ sweep[s].pc = "claimtx" /\ row' = Claimed(s)
        /\ done' = done
    BY <1>9, <1>c DEF ClaimNone, Idle
  <2> QED
    BY <1>0, <2>1, ClaimedPhase
<1>10. ASSUME NEW s \in Sweeps, NEW landed \in BOOLEAN, ClaimError(s, landed) PROVE Goal
  <2>1. (\A q \in Sweeps \ {s} : sweep'[q] = sweep[q]) /\ sweep'[s].pc = "idle" /\ done' = done
    BY <1>10, <1>c DEF ClaimError, Idle
  <2>2. CASE landed
    <3>1. sweep[s].pc = "claimtx" /\ row' = Claimed(s)
      BY <1>10, <2>2 DEF ClaimError
    <3> QED
      BY <1>0, <2>1, <3>1, ClaimedPhase
  <2>3. CASE ~landed
    BY <1>3, <1>10, <2>1, <2>3 DEF ClaimError
  <2> QED
    BY <2>2, <2>3
<1>11. ASSUME NEW s \in Sweeps, ClaimCommit(s) PROVE Goal
  <2>1. sweep[s].pc = "claimtx" /\ sweep[s].id \in Rows /\ row' = Claimed(s) /\ done' = done
    BY <1>11, <1>a DEF ClaimCommit, Sweep
  <2>2. /\ \A q \in Sweeps \ {s} : sweep'[q] = sweep[q]
        /\ sweep'[s].pc = "delivering" /\ sweep'[s].id = sweep[s].id
    BY <1>11 DEF ClaimCommit, DeliveryInv, ShapeInv, SweepsOK, Sweep
  <2>3. UNCHANGED Promise!vars
    BY <2>1, ClaimedPhase, SamePhase
  <2>4. DeliveredWasPerformed'
    BY <2>1, ClaimedPhase DEF DeliveryInv, DeliveredWasPerformed
  <2>5. FinalizeSound'
    <3>1. \A q \in Sweeps \ {s} : sweep[q].pc \in {"delivering", "finalize"} => sweep[q].id \in Rows
      BY DEF DeliveryInv, ShapeInv, ClaimShape
    <3> QED
      BY <2>1, <2>2, <3>1, ClaimedPhase DEF DeliveryInv, FinalizeSound
  <2> QED
    BY <2>3, <2>4, <2>5
<1>12. ASSUME NEW s \in Sweeps, NEW ok \in BOOLEAN, Deliver(s, ok) PROVE Goal
  <2>1. /\ sweep[s].pc = "delivering" /\ row' = row /\ sweep[s].id \in Rows
        /\ done' = IF ok THEN done \cup {sweep[s].id} ELSE done
    BY <1>12 DEF Deliver, DeliveryInv, ShapeInv, ClaimShape
  <2>2. /\ \A q \in Sweeps \ {s} : sweep'[q] = sweep[q]
        /\ sweep'[s].pc = "finalize" /\ sweep'[s].id = sweep[s].id /\ sweep'[s].ok = ok
    BY <1>12, <1>a, <1>c DEF Deliver, Sweep
  <2>3. [Promise!Next]_(Promise!vars)
    <3>1. promised' = promised
      BY <2>1 DEF promised
    <3>2. promised[sweep[s].id] # "absent"
      BY <2>1, <1>b DEF promised, Phase, DeliveryInv, FinalizeSound, Row, Statuses
    <3>3. CASE ok
      <4>1. Promise!Perform(sweep[s].id)
        BY <2>1, <3>1, <3>2, <3>3 DEF Promise!Perform
      <4> QED
        BY <2>1, <4>1 DEF Promise!Next
    <3>4. CASE ~ok
      BY <2>1, <3>1, <3>4 DEF Promise!vars
    <3> QED
      BY <3>3, <3>4
  <2>4. DeliveredWasPerformed'
    BY <2>1 DEF DeliveryInv, DeliveredWasPerformed
  <2>5. FinalizeSound'
    BY <2>1, <2>2 DEF DeliveryInv, FinalizeSound
  <2> QED
    BY <2>3, <2>4, <2>5
\* A success is recorded, with or without its answer.
<1>13. ASSUME NEW s \in Sweeps, sweep[s].pc = "finalize", sweep[s].ok, HoldsLease(s),
              Delivered(sweep[s].id), done' = done,
              \A q \in Sweeps \ {s} : sweep'[q] = sweep[q], sweep'[s].pc \in {"idle", "claim"}
       PROVE  Goal
  <2>1. sweep[s].id \in Rows /\ sweep[s].id \in done
    BY <1>13 DEF DeliveryInv, ShapeInv, ClaimShape, FinalizeSound
  <2>2. /\ row[sweep[s].id].status = "processing" /\ row'[sweep[s].id].status = "delivered"
        /\ \A a \in Rows \ {sweep[s].id} : row'[a] = row[a]
    BY <1>13, <1>b, <1>c, <2>1 DEF HoldsLease, Delivered, Row
  <2>3. Promise!Settle(sweep[s].id)
    BY <1>13, <2>1, <2>2, OnePhase DEF Promise!Settle, promised, Phase
  <2>4. DeliveredWasPerformed'
    BY <1>13, <2>1, <2>2 DEF DeliveryInv, DeliveredWasPerformed
  <2>5. FinalizeSound'
    BY <1>13, <2>1, <2>2 DEF DeliveryInv, FinalizeSound, ShapeInv, ClaimShape
  <2> QED
    BY <2>1, <2>3, <2>4, <2>5 DEF Promise!Next
<1>14. ASSUME NEW s \in Sweeps, FinalizeSuccess(s) PROVE Goal
  <2>1. (\A q \in Sweeps \ {s} : sweep'[q] = sweep[q]) /\ sweep'[s].pc = "claim"
    BY <1>14, <1>c DEF FinalizeSuccess, NextClaim, Idle
  <2> QED
    BY <1>13, <1>14, <2>1 DEF FinalizeSuccess
<1>15. ASSUME NEW s \in Sweeps, NEW landed \in BOOLEAN, FinalizeError(s, landed) PROVE Goal
  <2>1. (\A q \in Sweeps \ {s} : sweep'[q] = sweep[q]) /\ sweep'[s].pc = "idle"
        /\ sweep[s].pc = "finalize" /\ done' = done
    BY <1>15, <1>c DEF FinalizeError, Idle
  <2>2. CASE landed
    BY <1>13, <1>15, <2>1, <2>2 DEF FinalizeError
  <2>3. CASE ~landed
    BY <1>3, <1>15, <2>1, <2>3 DEF FinalizeError
  <2> QED
    BY <2>2, <2>3
<1>16. ASSUME NEW s \in Sweeps, NEW d \in 1..backoffCap,
              FinalizeFailure(s, d) \/ FinalizeFailureUnanswered(s, d)
       PROVE  Goal
  <2>0. PICK t : Retry(s, d, t) /\ t \in {NextClaim(s), Idle}
    BY <1>16 DEF FinalizeFailure, FinalizeFailureUnanswered
  <2>1. /\ sweep[s].pc = "finalize" /\ HoldsLease(s) /\ sweep[s].id \in Rows /\ done' = done
        /\ \A a \in Rows \ {sweep[s].id} : row'[a] = row[a]
    BY <2>0, <1>c DEF Retry, DeliveryInv, ShapeInv, ClaimShape
  <2>2. row'[sweep[s].id].status \in {"failed", "pending"}
        /\ row[sweep[s].id].status = "processing"
    <3>1. PICK st \in {"failed", "pending"} :
            row' = [row EXCEPT ![sweep[s].id] =
                       [@ EXCEPT !.worker = NoWorker, !.lease = 0, !.next = d, !.status = st]]
      BY <2>0 DEF Retry
    <3> QED
      BY <2>1, <3>1, <1>b, <1>c DEF Row, HoldsLease
  <2>3. ASSUME NEW q \in Sweeps \ {s}
        PROVE  sweep'[q].pc = sweep[q].pc /\ sweep'[q].id = sweep[q].id /\ sweep'[q].ok = sweep[q].ok
    <3>1. sweep'[q] = [sweep[q] EXCEPT !.due = @ \ {sweep[s].id}] /\ sweep[q] \in Sweep
      BY <2>0, <1>a DEF Retry
    <3> QED
      BY <3>1 DEF Sweep
  <2>4. sweep'[s].pc \in {"claim", "idle"}
    <3>1. sweep'[s] = [t EXCEPT !.due = @ \ {sweep[s].id}]
      BY <2>0 DEF Retry
    <3>2. t \in Sweep /\ t.pc \in {"claim", "idle"}
      <4>1. CASE t = NextClaim(s)
        BY <1>a, <4>1, IdleType DEF NextClaim, Idle, Sweep
      <4>2. CASE t = Idle
        BY <4>2, IdleType DEF Idle
      <4> QED
        BY <2>0, <4>1, <4>2
    <3> QED
      BY <3>1, <3>2 DEF Sweep
  <2>5. DeliveredWasPerformed' /\ FinalizeSound'
    BY <2>1, <2>2, <2>3, <2>4, SoundFrame
  <2>6. CASE row'[sweep[s].id].status = "pending"
    <3>1. \A a \in Rows : Phase(row'[a].status) = Phase(row[a].status)
      BY <2>1, <2>2, <2>6 DEF Phase
    <3> QED
      BY <2>1, <2>5, <3>1, SamePhase
  <2>7. CASE row'[sweep[s].id].status = "failed"
    <3>1. Promise!Bury(sweep[s].id)
      BY <2>1, <2>2, <2>7, OnePhase DEF Promise!Bury, promised, Phase
    <3> QED
      BY <2>1, <2>5, <3>1 DEF Promise!Next
  <2> QED
    BY <2>2, <2>6, <2>7
<1>17. ASSUME NEW w \in Workers, Crash(w) PROVE Goal
  <2>1. row' = row /\ done' = done /\ \A q \in Sweeps : sweep'[q] = sweep[q] \/ sweep'[q].pc = "idle"
    BY <1>17 DEF Crash, Idle
  <2> QED
    BY <1>0, <2>1
<1>18. ASSUME Tick PROVE Goal
  <2>1. ASSUME NEW q \in Sweeps
        PROVE  sweep'[q].pc = sweep[q].pc /\ sweep'[q].id = sweep[q].id /\ sweep'[q].ok = sweep[q].ok
    <3>1. sweep'[q] = [sweep[q] EXCEPT !.lease = Less1(@), !.left = Less1(@)] /\ sweep[q] \in Sweep
      BY <1>18, <1>a DEF Tick
    <3> QED
      BY <3>1 DEF Sweep
  <2>2. ASSUME NEW id \in Rows PROVE row'[id].status = row[id].status
    <3>1. row'[id] = [row[id] EXCEPT !.next = Less1(@), !.lease = Less1(@)] /\ row[id] \in Row
      BY <1>18, <1>b DEF Tick
    <3> QED
      BY <3>1 DEF Row
  <2> QED
    BY <1>0, <1>18, <2>1, <2>2 DEF Tick
<1>19. ASSUME UNCHANGED vars PROVE Goal
  BY <1>0, <1>19 DEF vars
<1> QED
  <2>1. ASSUME NEW s \in Sweeps, SweepStep(s) PROVE Goal
    BY <1>4, <1>5, <1>6, <1>7, <1>8, <1>9, <1>10, <1>11, <1>12, <1>14, <1>15, <1>16, <2>1 DEF SweepStep
  <2> QED
    BY <1>1, <1>2, <1>17, <1>18, <1>19, <2>1 DEF Next

\* Along every behaviour of the dispatcher, finalisations rely on what is true.
LEMMA DeliveryInvariant == Spec => []DeliveryInv
<1>1. Init => DeliveryInv
  BY ShapeInit, ExclusionInit
     DEF Init, DeliveryInv, DeliveredWasPerformed, FinalizeSound, Absent, Idle
<1>2. DeliveryInv /\ [Next]_vars => DeliveryInv'
  BY ShapeNext, ExclusionNext, DeliveryNext DEF DeliveryInv, ExclusionKept
<1> QED
  BY <1>1, <1>2, PTL DEF Spec

\* No lost effect: a row is recorded as delivered, and reclaimed, only after a
\* handler call for it returned nil, for any number of rows, sweeps and processes,
\* also when sweeps share a worker id.
THEOREM DeliveredEffectsHappened == Spec => []DeliveredWasPerformed
BY DeliveryInvariant, PTL DEF DeliveryInv

\* The dispatcher implements Delivery: every claim, recovery, finalisation, crash
\* and lost answer is a step the abstract promise allows, or none at all.
THEOREM Implementation == Spec => ImplementsDelivery
<1>1. Init => Promise!Init
  BY DEF Init, Promise!Init, promised, Phase, Absent
<1>2. DeliveryInv /\ [Next]_vars => [Promise!Next]_(Promise!vars)
  BY DeliveryNext
<1> QED
  BY <1>1, <1>2, DeliveryInvariant, PTL DEF Spec, ImplementsDelivery, Promise!Spec

-----------------------------------------------------------------------------
(* Types *)

Circuit == [state : {"closed", "open", "half-open"}, failures : 0..circuitFailureThreshold,
            openFor : 0..circuitOpenDuration]

\* What the breakers' bookkeeping writes is a circuit within its limits.
LEMMA CircuitType ==
    ASSUME NEW c \in Circuit
    PROVE  /\ Closed \in Circuit /\ AfterFailure(c) \in Circuit
           /\ [c EXCEPT !.state = "half-open"] \in Circuit
           /\ [c EXCEPT !.state = "open", !.openFor = 0] \in Circuit
           /\ [c EXCEPT !.openFor = Less1(@)] \in Circuit
<1> USE OutboxAssumption DEF Circuit
<1>1. 0 \in 0..circuitFailureThreshold /\ 0 \in 0..circuitOpenDuration
      /\ circuitOpenDuration \in 0..circuitOpenDuration
  OBVIOUS
<1>2. Least(c.failures + 1, circuitFailureThreshold) \in 0..circuitFailureThreshold
  BY DEF Least
<1>3. Less1(c.openFor) \in 0..circuitOpenDuration
  BY LessType
<1>4. Closed \in Circuit
  BY <1>1 DEF Closed
<1>5. AfterFailure(c) \in Circuit
  BY <1>1, <1>2 DEF AfterFailure
<1> QED
  BY <1>1, <1>3, <1>4, <1>5

\* Every step keeps the breakers within their limits.
LEMMA CircuitNext == ShapeInv /\ CircuitOK /\ [Next]_vars => CircuitOK'
<1> SUFFICES ASSUME ShapeInv, CircuitOK, [Next]_vars PROVE CircuitOK'
  OBVIOUS
<1>0. circuit \in [Workers -> [CircuitKeys -> Circuit]]
      /\ (CircuitOK' <=> circuit' \in [Workers -> [CircuitKeys -> Circuit]])
  BY DEF CircuitOK, Circuit
<1>1. \A w \in Workers, k \in CircuitKeys : circuit[w][k] \in Circuit
  BY <1>0
<1>2. ASSUME NEW s \in Sweeps PROVE workerOf[s] \in Workers
  BY OutboxAssumption
<1>3. ASSUME NEW w \in Workers, NEW g \in [CircuitKeys -> Circuit], circuit' = [circuit EXCEPT ![w] = g]
      PROVE  CircuitOK'
  BY <1>0, <1>3
<1>4. ASSUME NEW w \in Workers, NEW k \in CircuitKeys, NEW c \in Circuit,
             circuit' = [circuit EXCEPT ![w][k] = c]
      PROVE  CircuitOK'
  BY <1>0, <1>4
<1>5. ASSUME NEW s \in Sweeps, sweep[s].pc = "finalize" PROVE KeyOf(sweep[s].id) \in CircuitKeys
  BY <1>5, OutboxAssumption DEF ShapeInv, ClaimShape, KeyOf, CircuitKeys
<1>6. ASSUME NEW s \in Sweeps, NEW claimed, Release(s, claimed) PROVE CircuitOK'
  <2> DEFINE w == workerOf[s]
             g == [k \in CircuitKeys |->
                     IF k \in sweep[s].reserved \ claimed /\ circuit[w][k].state = "half-open"
                     THEN [circuit[w][k] EXCEPT !.state = "open", !.openFor = 0]
                     ELSE circuit[w][k]]
  <2>1. g \in [CircuitKeys -> Circuit]
    BY <1>1, <1>2, CircuitType
  <2>2. circuit' = [circuit EXCEPT ![w] = g]
    BY <1>6 DEF Release
  <2> QED
    BY <1>2, <1>3, <2>1, <2>2
<1>7. ASSUME NEW s \in Sweeps, ClaimBegin(s) PROVE CircuitOK'
  <2> DEFINE w == workerOf[s]
             g == [k \in CircuitKeys |->
                     IF k \in Reservable(w) THEN [circuit[w][k] EXCEPT !.state = "half-open"]
                                            ELSE circuit[w][k]]
  <2>1. g \in [CircuitKeys -> Circuit]
    BY <1>1, <1>2, CircuitType
  <2>2. circuit' = [circuit EXCEPT ![w] = g]
    BY <1>7 DEF ClaimBegin
  <2> QED
    BY <1>2, <1>3, <2>1, <2>2
<1>8. ASSUME NEW s \in Sweeps, FinalizeSuccess(s) PROVE CircuitOK'
  <2>1. KeyOf(sweep[s].id) \in CircuitKeys
    BY <1>5, <1>8 DEF FinalizeSuccess
  <2>2. Closed \in Circuit
    BY <1>1, <1>2, <2>1, CircuitType
  <2>3. circuit' = [circuit EXCEPT ![workerOf[s]][KeyOf(sweep[s].id)] = Closed]
    BY <1>8 DEF FinalizeSuccess
  <2> QED
    BY <1>2, <1>4, <2>1, <2>2, <2>3
<1>9. ASSUME NEW s \in Sweeps, NEW d \in 1..backoffCap, FinalizeFailure(s, d) PROVE CircuitOK'
  <2> DEFINE k == KeyOf(sweep[s].id)
  <2>1. k \in CircuitKeys
    BY <1>5, <1>9 DEF FinalizeFailure, Retry
  <2>2. AfterFailure(circuit[workerOf[s]][k]) \in Circuit
    BY <1>1, <1>2, <2>1, CircuitType
  <2>3. circuit' = [circuit EXCEPT ![workerOf[s]][k] = AfterFailure(circuit[workerOf[s]][k])]
    BY <1>0, <1>2, <1>9, <2>1 DEF FinalizeFailure
  <2> QED
    BY <1>2, <1>4, <2>1, <2>2, <2>3
<1>10. ASSUME NEW w \in Workers, Crash(w) PROVE CircuitOK'
  <2>1. \A k \in CircuitKeys : Closed \in Circuit
    BY <1>1, CircuitType
  <2>2. [k \in CircuitKeys |-> Closed] \in [CircuitKeys -> Circuit]
    BY <2>1
  <2>3. circuit' = [circuit EXCEPT ![w] = [k \in CircuitKeys |-> Closed]]
    BY <1>10 DEF Crash
  <2> QED
    BY <1>3, <2>2, <2>3
<1>11. ASSUME Tick PROVE CircuitOK'
  <2>1. \A w \in Workers, k \in CircuitKeys : [circuit[w][k] EXCEPT !.openFor = Less1(@)] \in Circuit
    BY <1>1, CircuitType
  <2>2. circuit' = [w \in Workers |-> [k \in CircuitKeys |-> [circuit[w][k] EXCEPT !.openFor = Less1(@)]]]
    BY <1>11 DEF Tick
  <2> QED
    BY <1>0, <2>1, <2>2
<1>12. ASSUME UNCHANGED circuit PROVE CircuitOK'
  BY <1>0, <1>12
<1>13. ASSUME NEW s \in Sweeps, SweepStep(s) PROVE CircuitOK'
  BY <1>6, <1>7, <1>8, <1>9, <1>12, <1>13
     DEF SweepStep, Dispatch, ClaimExec, ClaimCommit, ClaimNone, ClaimError, Deliver,
         FinalizeFailureUnanswered, FinalizeLost, FinalizeError, Stall
<1> QED
  BY <1>10, <1>11, <1>12, <1>13 DEF Next, vars, Enqueue, Reclaim

\* Type correctness: leases, deadlines, delays and the breakers' failure counts stay
\* within the limits of NewOutbox, for any number of rows, sweeps and processes.
THEOREM TypeCorrect == Spec => []TypeOK
<1>1. Init => CircuitOK
  BY OutboxAssumption DEF Init, CircuitOK, Closed
<1>2. ShapeInv /\ CircuitOK => TypeOK
  BY DEF ShapeInv, TypeOK
<1> QED
  BY <1>1, <1>2, ShapeInit, ShapeNext, CircuitNext, PTL DEF Spec

-----------------------------------------------------------------------------
(* What a step does to the sweeps *)

\* A sweep that a step leaves alone, ends or sends to its next claim, or takes
\* further into its finalisation.
Kept(q) ==
    /\ sweep'[q].pc = sweep[q].pc /\ sweep'[q].id = sweep[q].id
    /\ sweep'[q].attempts = sweep[q].attempts /\ sweep'[q].reserved = sweep[q].reserved
    /\ sweep'[q].lease = sweep[q].lease /\ sweep'[q].left = sweep[q].left
Rests(q) == sweep'[q].pc \in {"idle", "claim"}
Ends(q) ==
    /\ sweep[q].pc \in {"delivering", "finalize"} /\ sweep'[q].pc = "finalize"
    /\ sweep'[q].id = sweep[q].id /\ sweep'[q].attempts = sweep[q].attempts

\* Apart from the three steps of a claim and the passing of time, a step only
\* ends sweeps or moves them towards their end.
LEMMA SweepSteps ==
    ASSUME ShapeInv, [Next]_vars
    PROVE  \/ \A q \in Sweeps : Kept(q) \/ Rests(q) \/ Ends(q)
           \/ \E s \in Sweeps : ClaimBegin(s) \/ ClaimExec(s) \/ ClaimCommit(s)
           \/ Tick
<1> DEFINE Goal == \A q \in Sweeps : Kept(q) \/ Rests(q) \/ Ends(q)
<1>a. \A s \in Sweeps : sweep[s] \in Sweep
  BY DEF ShapeInv, SweepsOK
<1>0. DOMAIN sweep = Sweeps
  BY DEF ShapeInv, SweepsOK
<1>1. CASE sweep' = sweep
  BY <1>1 DEF Kept
<1>2. ASSUME NEW s \in Sweeps, NEW x \in Sweep, x.pc \in {"idle", "claim"},
             sweep' = [sweep EXCEPT ![s] = x]
      PROVE  Goal
  BY <1>0, <1>2 DEF Kept, Rests
<1>3. Idle.pc = "idle" /\ Idle \in Sweep
  BY IdleType DEF Idle
<1>4. ASSUME NEW s \in Sweeps PROVE NextClaim(s).pc = "claim" /\ NextClaim(s) \in Sweep
  BY <1>a, IdleType DEF NextClaim, Idle, Sweep
<1>5. ASSUME NEW s \in Sweeps, Dispatch(s) PROVE Goal
  <2> DEFINE D == {id \in Rows : row[id].status \in {"pending", "processing"} /\ row[id].next = 0}
  <2>1. [Idle EXCEPT !.pc = "claim", !.due = D] \in Sweep
    BY IdleType DEF Sweep, Idle
  <2>2. [Idle EXCEPT !.pc = "claim", !.due = D].pc = "claim"
    BY DEF Idle
  <2>3. sweep' = [sweep EXCEPT ![s] = [Idle EXCEPT !.pc = "claim", !.due = D]]
    BY <1>5 DEF Dispatch
  <2> QED
    BY <1>2, <2>1, <2>2, <2>3
<1>6. ASSUME NEW s \in Sweeps, ClaimNone(s) PROVE Goal
  <2>1. [Idle EXCEPT !.pc = "claim", !.due = sweep[s].due] \in Sweep
        /\ [Idle EXCEPT !.pc = "claim", !.due = sweep[s].due].pc = "claim"
    BY <1>a, IdleType DEF Sweep, Idle
  <2>2. PICK x \in Sweep : x.pc \in {"idle", "claim"} /\ sweep' = [sweep EXCEPT ![s] = x]
    BY <1>3, <1>6, <2>1 DEF ClaimNone
  <2> QED
    BY <1>2, <2>2
<1>7. ASSUME NEW s \in Sweeps, NEW landed \in BOOLEAN, ClaimError(s, landed) \/ FinalizeError(s, landed)
      PROVE  Goal
  BY <1>2, <1>3, <1>7 DEF ClaimError, FinalizeError
<1>8. ASSUME NEW s \in Sweeps, FinalizeSuccess(s) \/ FinalizeLost(s) PROVE Goal
  BY <1>2, <1>3, <1>4, <1>8 DEF FinalizeSuccess, FinalizeLost
<1>9. ASSUME NEW s \in Sweeps, NEW ok \in BOOLEAN, Deliver(s, ok) PROVE Goal
  <2>1. Ends(s)
    BY <1>0, <1>9, <1>a DEF Deliver, Sweep, Ends
  <2>2. \A q \in Sweeps \ {s} : Kept(q)
    BY <1>0, <1>9 DEF Deliver, Kept
  <2> QED
    BY <2>1, <2>2
<1>10. ASSUME NEW s \in Sweeps, Stall(s) PROVE Goal
  <2>1. sweep'[s] = [sweep[s] EXCEPT !.stalled = TRUE] /\ sweep[s].pc = "finalize"
    BY <1>0, <1>10 DEF Stall
  <2>2. Ends(s)
    BY <1>a, <2>1 DEF Sweep, Ends
  <2>3. \A q \in Sweeps \ {s} : Kept(q)
    BY <1>0, <1>10 DEF Stall, Kept
  <2> QED
    BY <2>2, <2>3
<1>11. ASSUME NEW s \in Sweeps, NEW d \in 1..backoffCap,
              FinalizeFailure(s, d) \/ FinalizeFailureUnanswered(s, d)
       PROVE  Goal
  <2>1. PICK t : Retry(s, d, t) /\ t \in {NextClaim(s), Idle}
    BY <1>11 DEF FinalizeFailure, FinalizeFailureUnanswered
  <2>2. t \in Sweep /\ t.pc \in {"idle", "claim"}
    BY <1>3, <1>4, <2>1, IdleType
  <2>3. sweep'[s] = [t EXCEPT !.due = @ \ {sweep[s].id}]
    BY <2>1 DEF Retry
  <2>4. Rests(s)
    BY <2>2, <2>3 DEF Sweep, Rests
  <2>5. ASSUME NEW q \in Sweeps \ {s} PROVE Kept(q)
    <3>1. sweep'[q] = [sweep[q] EXCEPT !.due = @ \ {sweep[s].id}] /\ sweep[q] \in Sweep
      BY <1>a, <2>1 DEF Retry
    <3> QED
      BY <3>1 DEF Sweep, Kept
  <2> QED
    BY <2>4, <2>5
<1>12. ASSUME NEW w \in Workers, Crash(w) PROVE Goal
  BY <1>3, <1>12 DEF Crash, Kept, Rests
<1>13. ASSUME NEW s \in Sweeps, SweepStep(s), ~ClaimBegin(s), ~ClaimExec(s), ~ClaimCommit(s) PROVE Goal
  BY <1>5, <1>6, <1>7, <1>8, <1>9, <1>10, <1>11, <1>13 DEF SweepStep
<1> QED
  BY <1>1, <1>12, <1>13 DEF Next, vars, Enqueue, Reclaim

\* What the steps of a claim do to the fields of the sweep, and to no other sweep.
LEMMA ClaimSteps ==
    ASSUME ShapeInv, NEW s \in Sweeps, ClaimBegin(s) \/ ClaimExec(s) \/ ClaimCommit(s)
    PROVE  /\ \A q \in Sweeps \ {s} : Kept(q)
           /\ ClaimBegin(s) => /\ sweep'[s].pc = "reserved" /\ sweep'[s].lease = leaseTTL
                               /\ sweep'[s].reserved = Reservable(workerOf[s])
           /\ ClaimExec(s) => /\ sweep[s].pc = "reserved" /\ sweep'[s].pc = "claimtx"
                              /\ sweep'[s].lease = sweep[s].lease
                              /\ sweep'[s].reserved = sweep[s].reserved
           /\ ClaimCommit(s) => /\ sweep[s].pc = "claimtx" /\ sweep'[s].pc = "delivering"
                                /\ sweep'[s].id = sweep[s].id /\ sweep[s].id \in Rows
                                /\ sweep'[s].attempts = Bump(row[sweep[s].id].attempts)
                                /\ sweep'[s].left = deliveryTimeout
                                /\ sweep'[s].reserved = sweep[s].reserved \cap {KeyOf(sweep[s].id)}
<1>a. sweep[s] \in Sweep /\ DOMAIN sweep = Sweeps
  BY DEF ShapeInv, SweepsOK
<1>1. \A q \in Sweeps \ {s} : Kept(q)
  BY <1>a DEF ClaimBegin, ClaimExec, ClaimCommit, Kept
<1>2. ASSUME ClaimBegin(s)
      PROVE  /\ sweep'[s].pc = "reserved" /\ sweep'[s].lease = leaseTTL
             /\ sweep'[s].reserved = Reservable(workerOf[s])
  BY <1>2, <1>a DEF ClaimBegin, Sweep
<1>3. ASSUME ClaimExec(s)
      PROVE  /\ sweep[s].pc = "reserved" /\ sweep'[s].pc = "claimtx"
             /\ sweep'[s].lease = sweep[s].lease /\ sweep'[s].reserved = sweep[s].reserved
  <2>1. PICK id : sweep' = [sweep EXCEPT ![s].pc = "claimtx", ![s].id = id,
                                ![s].expired = Recovered(s), ![s].blocked = {}]
    BY <1>3 DEF ClaimExec
  <2> QED
    BY <1>3, <1>a, <2>1 DEF ClaimExec, Sweep
<1>4. ASSUME ClaimCommit(s)
      PROVE  /\ sweep[s].pc = "claimtx" /\ sweep'[s].pc = "delivering"
             /\ sweep'[s].id = sweep[s].id /\ sweep[s].id \in Rows
             /\ sweep'[s].attempts = Bump(row[sweep[s].id].attempts)
             /\ sweep'[s].left = deliveryTimeout
             /\ sweep'[s].reserved = sweep[s].reserved \cap {KeyOf(sweep[s].id)}
  BY <1>4, <1>a DEF ClaimCommit, Sweep
<1> QED
  BY <1>1, <1>2, <1>3, <1>4

\* Time passes for every sweep alike.
LEMMA TickSweeps ==
    ASSUME ShapeInv, Tick, NEW q \in Sweeps
    PROVE  /\ sweep'[q].pc = sweep[q].pc /\ sweep'[q].id = sweep[q].id
           /\ sweep'[q].attempts = sweep[q].attempts /\ sweep'[q].reserved = sweep[q].reserved
           /\ sweep'[q].lease = Less1(sweep[q].lease) /\ sweep'[q].left = Less1(sweep[q].left)
<1>1. sweep'[q] = [sweep[q] EXCEPT !.lease = Less1(@), !.left = Less1(@)] /\ sweep[q] \in Sweep
  BY DEF Tick, ShapeInv, SweepsOK
<1> QED
  BY <1>1 DEF Sweep

-----------------------------------------------------------------------------
(* No row is delivered twice at once *)

\* A delivery starts with a claim of a row that no sweep is delivering.
LEMMA SingleNext ==
    ASSUME ShapeInv, ExclusionInv, Alone, SingleDeliverer, [Next]_vars
    PROVE  SingleDeliverer'
<1>1. ASSUME NEW q \in Sweeps, sweep'[q].pc = "delivering", ~ClaimCommit(q)
      PROVE  sweep[q].pc = "delivering" /\ sweep'[q].id = sweep[q].id
  BY <1>1, SweepSteps, ClaimSteps, TickSweeps DEF Kept, Rests, Ends
<1>2. ASSUME NEW s \in Sweeps, NEW q \in Sweeps, s # q, ClaimCommit(s),
             sweep'[q].pc = "delivering"
      PROVE  sweep'[s].id # sweep'[q].id
  <2>1. sweep[s].pc = "claimtx" /\ sweep[s].id \in Rows /\ sweep'[s].id = sweep[s].id /\ Kept(q)
    BY <1>2, ClaimSteps
  <2>2. sweep[q].pc = "delivering" /\ sweep'[q].id = sweep[q].id
    BY <1>2, <2>1 DEF Kept
  <2>3. sweep[q].id \notin LockedBy(s) /\ sweep[s].id \in LockedBy(s)
    BY <2>1, <2>2, DeliveringNotLocked, OutboxAssumption DEF LockedBy
  <2> QED
    BY <2>1, <2>2, <2>3
<1> QED
  BY <1>1, <1>2 DEF SingleDeliverer

\* The lease excludes, for any number of processes, sweeps that share a worker id,
\* crashes, stalls and lost database answers: a row is handed to two handlers at
\* once only in a behaviour in which some finalisation was still under way when
\* another sweep of its own process was already delivering its row again.
THEOREM LeaseExcludes == Spec => ([]NoLateFinalizer => []SingleDeliverer)
<1>1. Spec => [](ShapeInv /\ ExclusionInv)
  BY ShapeInit, ShapeNext, ExclusionInit, ExclusionNext, PTL DEF Spec, ExclusionKept
<1>2. /\ ShapeInv /\ ExclusionInv /\ LeaseHeld /\ SingleDeliverer /\ NoLateFinalizer
      /\ [Next]_vars
      => (LeaseHeld /\ SingleDeliverer)'
  BY ExclusionNext, SingleNext DEF ExclusionKept, Alone
<1>3. Init => LeaseHeld /\ SingleDeliverer
  BY ExclusionInit DEF Init, SingleDeliverer, Idle
<1> QED
  BY <1>1, <1>2, <1>3, PTL DEF Spec

-----------------------------------------------------------------------------
(* Dead letters *)

\* The attempts a delivery was told are attempts its row has had.
AttemptsCounted ==
    \A s \in Sweeps : sweep[s].pc \in {"delivering", "finalize"} =>
        sweep[s].attempts <= row[sweep[s].id].attempts

\* A row's attempts never fall, and it fails only by a finalisation at the cap.
LEMMA RowSteps ==
    ASSUME ShapeInv, [Next]_vars, NEW id \in Rows
    PROVE  /\ row'[id].attempts >= row[id].attempts
           /\ row'[id].status = "failed" =>
                \/ row[id].status = "failed"
                \/ \E s \in Sweeps : /\ sweep[s].pc = "finalize" /\ sweep[s].id = id
                                     /\ sweep[s].attempts >= maxAttempts
<1> DEFINE Fails == \E s \in Sweeps : /\ sweep[s].pc = "finalize" /\ sweep[s].id = id
                                      /\ sweep[s].attempts >= maxAttempts
           Goal == /\ row'[id].attempts >= row[id].attempts
                   /\ row'[id].status = "failed" => row[id].status = "failed" \/ Fails
<1>a. row[id] \in Row /\ row[id].attempts \in 0..(maxAttempts + 1) /\ DOMAIN row = Rows
  BY DEF ShapeInv, RowsOK, Row
<1>0. row[id].attempts >= row[id].attempts
  BY <1>a
<1>1. CASE row' = row
  BY <1>0, <1>1
<1>2. ASSUME NEW a \in Rows, Enqueue(a) \/ Reclaim(a) PROVE Goal
  BY <1>0, <1>2, <1>a DEF Enqueue, Reclaim, Row
<1>3. ASSUME NEW s \in Sweeps, row' = Claimed(s) PROVE Goal
  <2>1. Bump(row[id].attempts) >= row[id].attempts
    BY <1>a, BumpType
  <2>2. CASE id = sweep[s].id
    <3>1. row'[id] = [row[id] EXCEPT !.status = "processing", !.attempts = Bump(@),
                                     !.worker = workerOf[s], !.lease = sweep[s].lease]
      BY <1>3, <2>2 DEF Claimed
    <3> QED
      BY <1>a, <2>1, <3>1 DEF Row
  <2>3. CASE id # sweep[s].id /\ id \in sweep[s].expired
    <3>1. row'[id] = [row[id] EXCEPT !.status = "pending", !.worker = NoWorker, !.lease = 0]
      BY <1>3, <2>3 DEF Claimed
    <3> QED
      BY <1>0, <1>a, <3>1 DEF Row
  <2>4. CASE id # sweep[s].id /\ id \notin sweep[s].expired
    BY <1>0, <1>3, <2>4 DEF Claimed
  <2> QED
    BY <2>2, <2>3, <2>4
<1>4. ASSUME NEW a \in Rows, Delivered(a) PROVE Goal
  BY <1>0, <1>4, <1>a DEF Delivered, Row
<1>5. ASSUME NEW s \in Sweeps, NEW d \in 1..backoffCap, NEW t, Retry(s, d, t) PROVE Goal
  <2>1. PICK st : /\ row' = [row EXCEPT ![sweep[s].id] = [@ EXCEPT !.worker = NoWorker, !.lease = 0,
                                                             !.next = d, !.status = st]]
                  /\ st = IF sweep[s].attempts >= maxAttempts THEN "failed" ELSE "pending"
    BY <1>5 DEF Retry
  <2>2. sweep[s].pc = "finalize"
    BY <1>5 DEF Retry
  <2>3. CASE id = sweep[s].id
    <3>1. row'[id] = [row[id] EXCEPT !.worker = NoWorker, !.lease = 0, !.next = d, !.status = st]
      BY <1>a, <2>1, <2>3
    <3>2. row'[id].attempts = row[id].attempts /\ row'[id].status = st
      BY <1>a, <3>1 DEF Row
    <3>3. st = "failed" => Fails
      BY <2>1, <2>2, <2>3
    <3> QED
      BY <1>0, <3>2, <3>3
  <2>4. CASE id # sweep[s].id
    BY <1>0, <1>a, <2>1, <2>4
  <2> QED
    BY <2>3, <2>4
<1>6. ASSUME Tick PROVE Goal
  <2>1. row'[id] = [row[id] EXCEPT !.next = Less1(@), !.lease = Less1(@)]
    BY <1>6 DEF Tick
  <2> QED
    BY <1>0, <1>a, <2>1 DEF Row
<1>7. ASSUME NEW s \in Sweeps, SweepStep(s) PROVE Goal
  <2>1. sweep[s].pc = "finalize" => sweep[s].id \in Rows
    BY DEF ShapeInv, ClaimShape
  <2>2. ASSUME NEW landed \in BOOLEAN, ClaimError(s, landed) \/ FinalizeError(s, landed) PROVE Goal
    BY <1>1, <1>3, <1>4, <2>1, <2>2 DEF ClaimError, FinalizeError
  <2>3. ASSUME NEW d \in 1..backoffCap, FinalizeFailure(s, d) \/ FinalizeFailureUnanswered(s, d) PROVE Goal
    BY <1>5, <2>3 DEF FinalizeFailure, FinalizeFailureUnanswered
  <2>4. CASE ClaimCommit(s) \/ ClaimNone(s)
    BY <1>3, <2>4 DEF ClaimCommit, ClaimNone
  <2>5. CASE FinalizeSuccess(s)
    BY <1>4, <2>1, <2>5 DEF FinalizeSuccess
  <2>6. CASE Dispatch(s) \/ ClaimBegin(s) \/ ClaimExec(s) \/ (\E ok \in BOOLEAN : Deliver(s, ok))
               \/ FinalizeLost(s) \/ Stall(s)
    BY <1>1, <2>6 DEF Dispatch, ClaimBegin, ClaimExec, Deliver, FinalizeLost, Stall
  <2> QED
    BY <1>7, <2>2, <2>3, <2>4, <2>5, <2>6 DEF SweepStep
<1> QED
  BY <1>1, <1>2, <1>6, <1>7 DEF Next, vars, Crash

\* Every step keeps the attempts accounted for.
LEMMA AttemptsNext ==
    ASSUME ShapeInv, AttemptsCounted, DeadLetteredAfterMaxAttempts, [Next]_vars
    PROVE  AttemptsCounted' /\ DeadLetteredAfterMaxAttempts'
<1>1. \A id \in Rows : row[id].attempts \in Nat /\ row'[id].attempts \in Nat
  BY ShapeNext, OutboxAssumption DEF ShapeInv, RowsOK, Row
<1>2. \A s \in Sweeps : sweep[s].attempts \in Nat
  BY OutboxAssumption DEF ShapeInv, SweepsOK, Sweep
<1>3. \A s \in Sweeps : sweep[s].pc \in {"delivering", "finalize"} => sweep[s].id \in Rows
  BY DEF ShapeInv, ClaimShape
<1>4. DeadLetteredAfterMaxAttempts'
  <2> SUFFICES ASSUME NEW id \in Rows, row'[id].status = "failed" PROVE row'[id].attempts >= maxAttempts
    BY DEF DeadLetteredAfterMaxAttempts
  <2>1. row'[id].attempts >= row[id].attempts
    BY RowSteps
  <2>2. CASE row[id].status = "failed"
    BY <1>1, <2>1, <2>2, OutboxAssumption DEF DeadLetteredAfterMaxAttempts
  <2>3. ASSUME NEW s \in Sweeps, sweep[s].pc = "finalize", sweep[s].id = id,
               sweep[s].attempts >= maxAttempts
        PROVE  row'[id].attempts >= maxAttempts
    BY <1>1, <1>2, <2>1, <2>3, OutboxAssumption DEF AttemptsCounted
  <2> QED
    BY <2>2, <2>3, RowSteps
<1>5. ASSUME NEW q \in Sweeps, sweep[q].pc \in {"delivering", "finalize"},
             sweep'[q].id = sweep[q].id, sweep'[q].attempts = sweep[q].attempts
      PROVE  sweep'[q].attempts <= row'[sweep'[q].id].attempts
  <2>1. sweep[q].id \in Rows /\ row'[sweep[q].id].attempts >= row[sweep[q].id].attempts
    BY <1>3, <1>5, RowSteps
  <2> QED
    BY <1>1, <1>2, <1>5, <2>1 DEF AttemptsCounted
<1>6. AttemptsCounted'
  <2> SUFFICES ASSUME NEW q \in Sweeps, sweep'[q].pc \in {"delivering", "finalize"}
               PROVE  sweep'[q].attempts <= row'[sweep'[q].id].attempts
    BY DEF AttemptsCounted
  <2>1. CASE Kept(q) \/ Rests(q) \/ Ends(q)
    BY <1>5, <2>1 DEF Kept, Rests, Ends
  <2>2. CASE Tick
    BY <1>5, <2>2, TickSweeps
  <2>3. ASSUME NEW s \in Sweeps, ClaimBegin(s) \/ ClaimExec(s), q = s PROVE FALSE
    BY <2>3, ClaimSteps
  <2>4. CASE ClaimCommit(q)
    <3>1. /\ sweep'[q].id = sweep[q].id /\ sweep[q].id \in Rows
          /\ sweep'[q].attempts = Bump(row[sweep[q].id].attempts)
      BY <2>4, ClaimSteps
    <3>2. row'[sweep[q].id] = [row[sweep[q].id] EXCEPT !.status = "processing", !.attempts = Bump(@),
                                 !.worker = workerOf[q], !.lease = sweep[q].lease]
      BY <2>4, <3>1 DEF ClaimCommit, Claimed
    <3>3. row'[sweep[q].id].attempts = Bump(row[sweep[q].id].attempts)
      BY <3>1, <3>2 DEF ShapeInv, RowsOK, Row
    <3> QED
      BY <1>1, <3>1, <3>3
  <2> QED
    BY <2>1, <2>2, <2>3, <2>4, SweepSteps, ClaimSteps
<1> QED
  BY <1>4, <1>6

\* No row is dead-lettered before it has had maxAttempts claims, also when a late
\* finalisation of an earlier claim meets a later claim of the same process.
THEOREM DeadLettersAreEarned == Spec => []DeadLetteredAfterMaxAttempts
<1>1. Init => AttemptsCounted /\ DeadLetteredAfterMaxAttempts
  BY DEF Init, AttemptsCounted, DeadLetteredAfterMaxAttempts, Idle, Absent
<1>2. Spec => [](ShapeInv /\ AttemptsCounted /\ DeadLetteredAfterMaxAttempts)
  BY <1>1, ShapeInit, ShapeNext, AttemptsNext, PTL DEF Spec
<1> QED
  BY <1>2, PTL

-----------------------------------------------------------------------------
(* Half-open probes *)

\* A sweep that may still hand its reserved row to a handler, and the longest time
\* until that handler has returned.
Probing(s)  == sweep[s].pc \in {"reserved", "claimtx", "delivering"}
TimeLeft(s) ==
    IF sweep[s].pc = "delivering" THEN sweep[s].left
    ELSE (sweep[s].lease + claimLatency + deliveryTimeout) - leaseTTL

\* Whoever opens the circuit while a probe is out keeps it open past the probe's end.
ProbeTimed ==
    \A s \in Sweeps : \A k \in sweep[s].reserved : Probing(s) =>
        \/ circuit[workerOf[s]][k].state # "open"
        \/ circuit[workerOf[s]][k].openFor > TimeLeft(s)

\* A key is reserved by one sweep of the process at a time.
ProbeAlone ==
    \A s, q \in Sweeps : \A k \in sweep[s].reserved \cap sweep[q].reserved :
        workerOf[s] = workerOf[q] /\ Probing(s) /\ Probing(q) => s = q

\* A circuit stays open longer than a claim and a delivery together take.
CircuitOutlivesProbe == claimLatency + deliveryTimeout < circuitOpenDuration

\* A probe's time left is that of a whole claim and delivery at most.
LEMMA TimeLeftType ==
    ASSUME ShapeInv, NEW s \in Sweeps, Probing(s)
    PROVE  TimeLeft(s) \in 0..(claimLatency + deliveryTimeout)
<1>1. sweep[s] \in Sweep
  BY DEF ShapeInv, SweepsOK
<1>2. sweep[s].lease \in 0..leaseTTL /\ sweep[s].left \in 0..deliveryTimeout
  BY <1>1 DEF Sweep
<1>3. sweep[s].pc # "delivering" => sweep[s].lease >= leaseTTL - claimLatency
  BY DEF ShapeInv, ClaimShape, Probing
<1> QED
  BY <1>2, <1>3, OutboxAssumption DEF TimeLeft

\* A probe that did not begin in this step was one before, with no more keys and
\* no more time; time that passes is taken from what it has left.
LEMMA ProbeKept ==
    ASSUME ShapeInv, [Next]_vars, NEW q \in Sweeps, Probing(q)', ~ClaimBegin(q)
    PROVE  /\ Probing(q) /\ sweep'[q].reserved \subseteq sweep[q].reserved
           /\ TimeLeft(q)' <= TimeLeft(q)
           /\ Tick => TimeLeft(q)' + 1 = TimeLeft(q)
<1>1. sweep'[q].pc \in {"reserved", "claimtx", "delivering"}
  BY DEF Probing
<1>2. Probing(q) => TimeLeft(q) \in Nat
  BY TimeLeftType, OutboxAssumption
<1>3. CASE ~Tick /\ (Kept(q) \/ Rests(q) \/ Ends(q))
  <2>1. Kept(q)
    BY <1>1, <1>3 DEF Rests, Ends
  <2>2. TimeLeft(q)' = TimeLeft(q) /\ Probing(q)
    BY <1>1, <2>1 DEF Kept, TimeLeft, Probing
  <2> QED
    BY <1>2, <1>3, <2>1, <2>2 DEF Kept
<1>4. CASE Tick
  <2>1. /\ sweep'[q].pc = sweep[q].pc /\ sweep'[q].reserved = sweep[q].reserved
        /\ sweep'[q].lease = Less1(sweep[q].lease) /\ sweep'[q].left = Less1(sweep[q].left)
    BY <1>4, TickSweeps
  <2>2. sweep[q].lease \in Nat /\ sweep[q].left \in Nat
    BY OutboxAssumption DEF ShapeInv, SweepsOK, Sweep
  <2>3. sweep[q].pc = "delivering" => sweep[q].left > 0
    BY <1>4 DEF Tick
  <2>4. sweep[q].pc # "delivering" => sweep[q].lease > 0
    <3>1. sweep[q].pc # "delivering" => sweep[q].lease > leaseTTL - claimLatency
      BY <1>1, <1>4, <2>1 DEF Tick
    <3> QED
      BY <2>2, <3>1, OutboxAssumption, LeaseOutlivesDelivery
  <2>5. TimeLeft(q)' + 1 = TimeLeft(q) /\ TimeLeft(q)' <= TimeLeft(q)
    BY <2>1, <2>2, <2>3, <2>4, OutboxAssumption DEF TimeLeft, Less1
  <2>6. Probing(q)
    BY <1>1, <2>1 DEF Probing
  <2> QED
    BY <2>1, <2>5, <2>6
<1>5. CASE ClaimExec(q) /\ ~Tick
  <2>1. /\ sweep[q].pc = "reserved" /\ sweep'[q].pc = "claimtx"
        /\ sweep'[q].lease = sweep[q].lease /\ sweep'[q].reserved = sweep[q].reserved
    BY <1>5, ClaimSteps
  <2>2. TimeLeft(q)' = TimeLeft(q) /\ Probing(q)
    BY <2>1 DEF TimeLeft, Probing
  <2> QED
    BY <1>2, <1>5, <2>1, <2>2
<1>6. CASE ClaimCommit(q) /\ ~Tick
  <2>1. /\ sweep[q].pc = "claimtx" /\ sweep'[q].pc = "delivering"
        /\ sweep'[q].left = deliveryTimeout
        /\ sweep'[q].reserved = sweep[q].reserved \cap {KeyOf(sweep[q].id)}
    BY <1>6, ClaimSteps
  <2>2. sweep[q].lease >= leaseTTL - claimLatency /\ sweep[q].lease \in Nat
    BY <2>1, OutboxAssumption DEF ShapeInv, ClaimShape, SweepsOK, Sweep
  <2>3. TimeLeft(q)' = deliveryTimeout /\ TimeLeft(q) >= deliveryTimeout /\ Probing(q)
    BY <2>1, <2>2, OutboxAssumption DEF TimeLeft, Probing
  <2> QED
    BY <1>6, <2>1, <2>3
<1> QED
  BY <1>3, <1>4, <1>5, <1>6, SweepSteps, ClaimSteps

\* What a step does to a circuit: apart from time, it leaves it, closes it, marks
\* it half-open, opens it for the full duration, or its prober gives it back.
LEMMA CircuitSteps ==
    ASSUME ShapeInv, CircuitOK, [Next]_vars, NEW w \in Workers, NEW k \in CircuitKeys
    PROVE  \/ /\ circuit'[w][k].state = circuit[w][k].state
              /\ circuit'[w][k].openFor = circuit[w][k].openFor
           \/ circuit'[w][k].state # "open"
           \/ circuit'[w][k].openFor = circuitOpenDuration
           \/ \E s \in Sweeps : /\ workerOf[s] = w /\ Probing(s) /\ k \in sweep[s].reserved
                                /\ Rests(s) \/ k \notin sweep'[s].reserved
           \/ Tick
<1> DEFINE Same   == /\ circuit'[w][k].state = circuit[w][k].state
                     /\ circuit'[w][k].openFor = circuit[w][k].openFor
           Opened == circuit'[w][k].openFor = circuitOpenDuration
           Back   == \E s \in Sweeps : /\ workerOf[s] = w /\ Probing(s) /\ k \in sweep[s].reserved
                                       /\ Rests(s) \/ k \notin sweep'[s].reserved
           Goal   == Same \/ circuit'[w][k].state # "open" \/ Opened \/ Back
<1>1. /\ circuit \in [Workers -> [CircuitKeys -> Circuit]] /\ circuit[w][k] \in Circuit
      /\ DOMAIN circuit = Workers /\ DOMAIN circuit[w] = CircuitKeys
  BY DEF CircuitOK, Circuit
<1>2. CASE circuit' = circuit
  BY <1>2
<1>3. ASSUME NEW s \in Sweeps PROVE workerOf[s] \in Workers
  BY OutboxAssumption
\* A release gives back reserved keys only.
<1>4. ASSUME NEW s \in Sweeps, NEW claimed, Release(s, claimed), Probing(s),
             Rests(s) \/ sweep'[s].reserved \subseteq claimed
      PROVE  Goal
  <2>1. CASE w = workerOf[s] /\ k \in sweep[s].reserved \ claimed
    <3>1. Back
      BY <1>4, <2>1
    <3> QED
      BY <3>1
  <2>2. CASE ~(w = workerOf[s] /\ k \in sweep[s].reserved \ claimed)
    <3>1. circuit'[w][k] = circuit[w][k]
      BY <1>1, <1>3, <1>4, <2>2 DEF Release
    <3> QED
      BY <3>1
  <2> QED
    BY <2>1, <2>2
<1>5. ASSUME NEW s \in Sweeps, ClaimBegin(s) PROVE Goal
  <2>1. circuit'[w][k] = circuit[w][k] \/ circuit'[w][k] = [circuit[w][k] EXCEPT !.state = "half-open"]
    BY <1>1, <1>3, <1>5 DEF ClaimBegin
  <2> QED
    BY <1>1, <2>1 DEF Circuit
<1>6. ASSUME NEW s \in Sweeps, ClaimCommit(s) PROVE Goal
  <2>1. Release(s, {KeyOf(sweep[s].id)}) /\ Probing(s)
    BY <1>6 DEF ClaimCommit, Probing
  <2>2. sweep'[s].reserved \subseteq {KeyOf(sweep[s].id)}
    BY <1>6, ClaimSteps
  <2> QED
    BY <1>4, <2>1, <2>2
<1>7. ASSUME NEW s \in Sweeps, ClaimNone(s) PROVE Goal
  <2>1. Release(s, {}) /\ Probing(s)
    BY <1>7 DEF ClaimNone, Probing
  <2>2. Rests(s)
    BY <1>7 DEF ClaimNone, Rests, Idle, ShapeInv, SweepsOK
  <2> QED
    BY <1>4, <2>1, <2>2
<1>8. ASSUME NEW s \in Sweeps, NEW landed \in BOOLEAN, ClaimError(s, landed) PROVE Goal
  <2>1. Release(s, {}) /\ Probing(s)
    BY <1>8 DEF ClaimError, Probing
  <2>2. Rests(s)
    BY <1>8 DEF ClaimError, Rests, Idle, ShapeInv, SweepsOK
  <2> QED
    BY <1>4, <2>1, <2>2
<1>9. ASSUME NEW s \in Sweeps, FinalizeSuccess(s) PROVE Goal
  <2>1. circuit' = [circuit EXCEPT ![workerOf[s]][KeyOf(sweep[s].id)] = Closed]
    BY <1>9 DEF FinalizeSuccess
  <2>2. circuit'[w][k] = circuit[w][k] \/ circuit'[w][k] = Closed
    BY <1>1, <1>3, <2>1
  <2> QED
    BY <2>2 DEF Closed
<1>10. ASSUME NEW s \in Sweeps, NEW d \in 1..backoffCap, FinalizeFailure(s, d) PROVE Goal
  <2>1. circuit'[w][k] = circuit[w][k] \/ circuit'[w][k] = AfterFailure(circuit[w][k])
    BY <1>1, <1>3, <1>10 DEF FinalizeFailure
  <2>2. \/ AfterFailure(circuit[w][k]).openFor = circuitOpenDuration
        \/ /\ AfterFailure(circuit[w][k]).state = circuit[w][k].state
           /\ AfterFailure(circuit[w][k]).openFor = circuit[w][k].openFor
    BY <1>1 DEF AfterFailure, Circuit
  <2> QED
    BY <2>1, <2>2
<1>11. ASSUME NEW v \in Workers, Crash(v) PROVE Goal
  <2>1. circuit'[w][k] = circuit[w][k] \/ circuit'[w][k] = Closed
    BY <1>1, <1>11 DEF Crash
  <2> QED
    BY <2>1 DEF Closed
<1>12. ASSUME NEW s \in Sweeps, SweepStep(s) PROVE Goal
  <2>1. CASE Dispatch(s) \/ ClaimExec(s) \/ (\E ok \in BOOLEAN : Deliver(s, ok)) \/ FinalizeLost(s)
               \/ Stall(s) \/ (\E landed \in BOOLEAN : FinalizeError(s, landed))
               \/ (\E d \in 1..backoffCap : FinalizeFailureUnanswered(s, d))
    BY <1>2, <2>1 DEF Dispatch, ClaimExec, Deliver, FinalizeLost, Stall, FinalizeError,
       FinalizeFailureUnanswered
  <2> QED
    BY <1>5, <1>6, <1>7, <1>8, <1>9, <1>10, <1>12, <2>1 DEF SweepStep
<1> QED
  BY <1>2, <1>11, <1>12 DEF Next, vars, Enqueue, Reclaim

\* Every step keeps the probes apart: a key can be reserved again only when the
\* circuit has been open for its full duration, and by then the last probe is over.
LEMMA ProbeNext ==
    ASSUME CircuitOutlivesProbe, ShapeInv, CircuitOK, ProbeTimed, ProbeAlone, [Next]_vars
    PROVE  ProbeTimed' /\ ProbeAlone'
<1>1. ShapeInv'
  BY ShapeNext
<1>2. ASSUME NEW s \in Sweeps PROVE workerOf[s] \in Workers /\ sweep[s].reserved \subseteq CircuitKeys
  BY OutboxAssumption DEF ShapeInv, SweepsOK, Sweep
<1>3. ASSUME NEW s \in Sweeps, Probing(s), NEW k \in sweep[s].reserved
      PROVE  ~(circuit[workerOf[s]][k].state = "open" /\ circuit[workerOf[s]][k].openFor = 0)
  BY <1>3, TimeLeftType, OutboxAssumption DEF ProbeTimed
<1>4. ASSUME NEW q \in Sweeps, Probing(q)' PROVE TimeLeft(q)' \in 0..(claimLatency + deliveryTimeout)
  <2>1. sweep'[q] \in Sweep
    BY <1>1 DEF ShapeInv, SweepsOK
  <2>2. sweep'[q].lease \in 0..leaseTTL /\ sweep'[q].left \in 0..deliveryTimeout
    BY <2>1 DEF Sweep
  <2>3. sweep'[q].pc # "delivering" => sweep'[q].lease >= leaseTTL - claimLatency
    BY <1>1, <1>4 DEF ShapeInv, ClaimShape, Probing
  <2> QED
    BY <2>2, <2>3, OutboxAssumption DEF TimeLeft
<1>5. ProbeTimed'
  <2> SUFFICES ASSUME NEW q \in Sweeps, NEW k \in sweep'[q].reserved, Probing(q)'
               PROVE  \/ circuit'[workerOf[q]][k].state # "open"
                      \/ circuit'[workerOf[q]][k].openFor > TimeLeft(q)'
    BY DEF ProbeTimed
  <2>1. PICK w \in Workers : w = workerOf[q]
    BY <1>2
  <2>2. CASE ClaimBegin(q)
    <3>1. k \in Reservable(w)
      BY <2>1, <2>2, ClaimSteps
    <3>2. k \in CircuitKeys /\ circuit[w][k] \in Circuit /\ DOMAIN circuit = Workers
      BY <2>1, <3>1 DEF Reservable, CircuitOK, Circuit
    <3>3. circuit'[w][k] = [circuit[w][k] EXCEPT !.state = "half-open"]
      BY <2>1, <2>2, <3>1, <3>2 DEF ClaimBegin
    <3> QED
      BY <2>1, <3>2, <3>3 DEF Circuit
  <2>3. CASE ~ClaimBegin(q)
    <3>1. /\ Probing(q) /\ k \in sweep[q].reserved /\ k \in CircuitKeys
          /\ TimeLeft(q)' <= TimeLeft(q) /\ (Tick => TimeLeft(q)' + 1 = TimeLeft(q))
      BY <1>2, <2>3, ProbeKept
    <3>2. TimeLeft(q) \in Nat /\ TimeLeft(q)' \in Nat /\ TimeLeft(q)' <= claimLatency + deliveryTimeout
      BY <1>4, <3>1, TimeLeftType, OutboxAssumption
    <3>3. circuit[w][k] \in Circuit /\ circuit[w][k].openFor \in Nat
      BY <3>1, OutboxAssumption DEF CircuitOK, Circuit
    <3>4. circuit[w][k].state # "open" \/ circuit[w][k].openFor > TimeLeft(q)
      BY <2>1, <3>1 DEF ProbeTimed
    <3>5. CASE Tick
      <4>1. circuit'[w][k] = [circuit[w][k] EXCEPT !.openFor = Less1(@)]
        BY <3>1, <3>5 DEF Tick
      <4>2. circuit'[w][k].state = circuit[w][k].state
            /\ circuit'[w][k].openFor = Less1(circuit[w][k].openFor)
        BY <3>3, <4>1 DEF Circuit
      <4>3. circuit[w][k].openFor > TimeLeft(q) => Less1(circuit[w][k].openFor) > TimeLeft(q)'
        BY <3>1, <3>2, <3>3, <3>5 DEF Less1
      <4> QED
        BY <2>1, <3>4, <4>2, <4>3
    <3>6. CASE ~Tick
      <4>1. CASE /\ circuit'[w][k].state = circuit[w][k].state
                 /\ circuit'[w][k].openFor = circuit[w][k].openFor
        BY <2>1, <3>1, <3>2, <3>3, <3>4, <4>1
      <4>2. CASE circuit'[w][k].openFor = circuitOpenDuration
        BY <2>1, <3>2, <4>2, OutboxAssumption DEF CircuitOutlivesProbe
      <4>3. ASSUME NEW s \in Sweeps, workerOf[s] = w, Probing(s), k \in sweep[s].reserved,
                   Rests(s) \/ k \notin sweep'[s].reserved
            PROVE  FALSE
        <5>1. s = q
          BY <2>1, <3>1, <4>3 DEF ProbeAlone
        <5> QED
          BY <4>3, <5>1 DEF Probing, Rests
      <4> QED
        BY <2>1, <3>1, <3>6, <4>1, <4>2, <4>3, CircuitSteps
    <3> QED
      BY <3>5, <3>6
  <2> QED
    BY <2>2, <2>3
<1>6. ProbeAlone'
  <2>1. ASSUME NEW s \in Sweeps, NEW q \in Sweeps, s # q, workerOf[s] = workerOf[q],
               NEW k \in sweep'[s].reserved \cap sweep'[q].reserved, Probing(s)', Probing(q)'
        PROVE  ~ClaimBegin(s)
    <3> SUFFICES ASSUME ClaimBegin(s) PROVE FALSE
      OBVIOUS
    <3>1. k \in Reservable(workerOf[q])
      BY <2>1, ClaimSteps
    <3>2. Kept(q)
      BY <2>1, ClaimSteps
    <3>3. Probing(q) /\ k \in sweep[q].reserved
      BY <2>1, <3>2 DEF Kept, Probing
    <3> QED
      BY <1>3, <3>1, <3>3 DEF Reservable
  <2>2. ASSUME NEW s \in Sweeps, NEW q \in Sweeps, s # q, workerOf[s] = workerOf[q],
               NEW k \in sweep'[s].reserved \cap sweep'[q].reserved, Probing(s)', Probing(q)'
        PROVE  FALSE
    <3>1. ~ClaimBegin(s)
      BY <2>1, <2>2
    <3>2. ~ClaimBegin(q)
      BY <2>1, <2>2
    <3>3. Probing(s) /\ Probing(q) /\ k \in sweep[s].reserved \cap sweep[q].reserved
      BY <2>2, <3>1, <3>2, ProbeKept
    <3> QED
      BY <2>2, <3>3 DEF ProbeAlone
  <2> QED
    BY <2>2 DEF ProbeAlone
<1> QED
  BY <1>5, <1>6

\* A half-open circuit admits one probe of its process, for any number of sweeps,
\* crashes, failed claims and late finalisations, when a circuit stays open longer
\* than a claim and a delivery together (30 s against 25 s in NewOutbox).
THEOREM ProbesAreSingle ==
    ASSUME CircuitOutlivesProbe
    PROVE  Spec => []OneProbe
<1>1. Init => CircuitOK
  BY OutboxAssumption DEF Init, CircuitOK, Closed
<1>2. Init => ProbeTimed /\ ProbeAlone
  BY DEF Init, ProbeTimed, ProbeAlone, Idle
<1>3. ProbeAlone => OneProbe
  BY DEF ProbeAlone, OneProbe, Probing
<1>4. Spec => [](ShapeInv /\ CircuitOK /\ ProbeTimed /\ ProbeAlone)
  BY <1>1, <1>2, ShapeInit, ShapeNext, CircuitNext, ProbeNext, PTL DEF Spec
<1> QED
  BY <1>3, <1>4, PTL

=============================================================================
