---------------------------- MODULE LeaderProofs ----------------------------
(***************************************************************************)
(* Proof that leader workers of two replicas overlap only after a lost     *)
(* connection, for any number of replicas and faults.                      *)
(***************************************************************************)
EXTENDS Leader, TLAPS

\* A live lease connection is the session that holds the advisory lock.
LiveConnectionHoldsLock == \A r \in Replicas : conn[r] = "live" => lock = r

\* Workers run only under an elector that has not released its lease.
WorkersUnderLease ==
    \A r \in Replicas : workers[r] # "off" => elector[r] \in {"leading", "stopping", "leaving"}

\* OverlapNeedsLoss is not inductive: it says nothing of the replica that is about
\* to win the lock.  With these parts it is: the winner finds the lock free, so no
\* other lease connection is live.
IInv == TypeOK /\ LiveConnectionHoldsLock /\ WorkersUnderLease

\* The inductive invariant holds before any replica is started.
LEMMA InitIInv == Init => IInv
  BY LeaderAssumption DEF Init, IInv, TypeOK, LiveConnectionHoldsLock, WorkersUnderLease

\* Every step of every replica, and every fault, preserves the inductive invariant.
LEMMA NextIInv == IInv /\ [Next]_vars => IInv'
<1> SUFFICES ASSUME IInv, [Next]_vars PROVE IInv'
  OBVIOUS
<1> USE LeaderAssumption DEF IInv, TypeOK, LiveConnectionHoldsLock, WorkersUnderLease
<1>1. ASSUME NEW r \in Replicas, Campaign(r) PROVE IInv'
  BY <1>1 DEF Campaign
<1>2. ASSUME NEW r \in Replicas, CampaignUnanswered(r) PROVE IInv'
  BY <1>2 DEF CampaignUnanswered, Fault
<1>3. ASSUME NEW r \in Replicas, LoseConnection(r) PROVE IInv'
  BY <1>3 DEF LoseConnection, Fault
<1>4. ASSUME NEW r \in Replicas, SessionEnds(r) PROVE IInv'
  BY <1>4 DEF SessionEnds
<1>5. ASSUME NEW r \in Replicas, HealthCheck(r) PROVE IInv'
  BY <1>5 DEF HealthCheck
<1>6. ASSUME NEW r \in Replicas, WorkersExit(r) PROVE IInv'
  BY <1>6 DEF WorkersExit, Fault
<1>7. ASSUME NEW r \in Replicas, Shutdown(r) PROVE IInv'
  BY <1>7 DEF Shutdown, Fault
<1>8. ASSUME NEW r \in Replicas, WorkersDone(r) PROVE IInv'
  BY <1>8 DEF WorkersDone
<1>9. ASSUME NEW r \in Replicas, StepDown(r) PROVE IInv'
  BY <1>9 DEF StepDown
<1>10. ASSUME NEW r \in Replicas, Crash(r) PROVE IInv'
  BY <1>10 DEF Crash, Fault
<1>11. ASSUME NEW r \in Replicas, Restart(r) PROVE IInv'
  BY <1>11 DEF Restart
<1>12. CASE UNCHANGED vars
  BY <1>12 DEF vars
<1>13. QED
  BY <1>1, <1>2, <1>3, <1>4, <1>5, <1>6, <1>7, <1>8, <1>9, <1>10, <1>11, <1>12 DEF Next

\* Two replicas run leader workers at once only while the lease connection of one of
\* them is lost: serveAsLeader waits for the workers before it releases the lease, so
\* every orderly handover is exclusive, with any number of replicas and faults.
THEOREM HandoverIsExclusive == Spec => []OverlapNeedsLoss
<1>1. IInv => OverlapNeedsLoss
  BY DEF IInv, TypeOK, LiveConnectionHoldsLock, WorkersUnderLease, OverlapNeedsLoss
<1>2. QED
  BY <1>1, InitIInv, NextIInv, PTL DEF Spec

\* Type correctness: while a replica leads it has a lease connection, live or lost,
\* whatever sessions the database drops and replicas crash.
THEOREM TypeCorrect == Spec => []TypeOK
BY InitIInv, NextIInv, PTL DEF Spec, IInv

=============================================================================
