-------------------------------- MODULE Leader --------------------------------
(***************************************************************************)
(* Leader election of internal/leader/leader.go over the session advisory  *)
(* lock of internal/store/leader.go.                                       *)
(*                                                                         *)
(* A replica that wins pg_try_advisory_lock keeps the connection that      *)
(* holds it, runs the background workers (server.leaderRuntimeWork) and    *)
(* pings the connection on a timer.  When the connection dies PostgreSQL   *)
(* frees the lock at a moment of its own, and the replica learns of it     *)
(* only at its next ping.                                                  *)
(***************************************************************************)
EXTENDS Naturals

CONSTANTS
    Replicas,
    NoReplica,
    MaxFaults    \* bound: lost connections, crashes, shutdowns, worker exits

ASSUME LeaderAssumption == NoReplica \notin Replicas /\ MaxFaults \in Nat

VARIABLES
    lock,     \* the replica whose session holds the advisory lock, in PostgreSQL
    elector,  \* the Elector.Run loop of each replica
    conn,     \* the connection of its lease
    workers,  \* its leader function
    faults

vars == <<lock, elector, conn, workers, faults>>

Fault == faults < MaxFaults /\ faults' = faults + 1

-----------------------------------------------------------------------------
\* TryBecomeLeader succeeds and serveAsLeader starts the leader function.  When
\* the lock is taken or the query fails the replica stays a follower.
Campaign(r) ==
    /\ elector[r] = "follower"
    /\ lock = NoReplica
    /\ lock' = r
    /\ elector' = [elector EXCEPT ![r] = "leading"]
    /\ conn' = [conn EXCEPT ![r] = "live"]
    /\ workers' = [workers EXCEPT ![r] = "running"]
    /\ UNCHANGED faults

\* PostgreSQL grants the lock and the answer is lost: the replica stays a follower
\* and its connection, closed with the error, still holds the lock for a while.
CampaignUnanswered(r) ==
    /\ elector[r] = "follower"
    /\ lock = NoReplica
    /\ Fault
    /\ lock' = r
    /\ UNCHANGED <<elector, conn, workers>>

\* The lease's connection dies, unnoticed by both ends.
LoseConnection(r) ==
    /\ conn[r] = "live"
    /\ Fault
    /\ conn' = [conn EXCEPT ![r] = "broken"]
    /\ UNCHANGED <<lock, elector, workers>>

\* PostgreSQL ends the session of a connection that is gone.
SessionEnds(r) ==
    /\ lock = r
    /\ conn[r] # "live"
    /\ lock' = NoReplica
    /\ UNCHANGED <<elector, conn, workers, faults>>

\* Mutant of HealthCheck: a failed ping is only logged.
HealthCheckLogs(r) ==
    /\ elector[r] = "leading"
    /\ conn[r] = "broken"
    /\ UNCHANGED vars

\* The ping fails: cancel the leader context and wait for the workers.
HealthCheck(r) ==
    /\ elector[r] = "leading"
    /\ conn[r] = "broken"
    /\ elector' = [elector EXCEPT ![r] = "stopping"]
    /\ workers' = [workers EXCEPT ![r] = "cancelled"]
    /\ UNCHANGED <<lock, conn, faults>>

\* The leader function returns on its own.
WorkersExit(r) ==
    /\ elector[r] = "leading"
    /\ Fault
    /\ elector' = [elector EXCEPT ![r] = "stopping"]
    /\ workers' = [workers EXCEPT ![r] = "off"]
    /\ UNCHANGED <<lock, conn>>

\* The process is asked to stop: a follower returns, a leader steps down first.
Shutdown(r) ==
    /\ elector[r] \in {"follower", "leading", "stopping"}
    /\ Fault
    /\ elector' = [elector EXCEPT ![r] = IF @ = "follower" THEN "down" ELSE "leaving"]
    /\ workers' = [workers EXCEPT ![r] = IF @ = "running" THEN "cancelled" ELSE @]
    /\ UNCHANGED <<lock, conn>>

\* The cancelled workers have all returned.
WorkersDone(r) ==
    /\ workers[r] = "cancelled"
    /\ workers' = [workers EXCEPT ![r] = "off"]
    /\ UNCHANGED <<lock, elector, conn, faults>>

\* Mutant of StepDown: the lease is released without waiting for the workers.
StepDownEarly(r) ==
    /\ elector[r] \in {"stopping", "leaving"}
    /\ lock' = IF conn[r] = "live" THEN NoReplica ELSE lock
    /\ conn' = [conn EXCEPT ![r] = "none"]
    /\ elector' = [elector EXCEPT ![r] = IF @ = "stopping" THEN "follower" ELSE "down"]
    /\ UNCHANGED <<workers, faults>>

\* Mutant of StepDown: the connection goes back to the pool with the lock held.
StepDownKeepsLock(r) ==
    /\ elector[r] \in {"stopping", "leaving"}
    /\ workers[r] = "off"
    /\ elector' = [elector EXCEPT ![r] = IF @ = "stopping" THEN "follower" ELSE "down"]
    /\ UNCHANGED <<lock, conn, workers, faults>>

\* lease.Release unlocks if its connection still works, and gives it back.
StepDown(r) ==
    /\ elector[r] \in {"stopping", "leaving"}
    /\ workers[r] = "off"
    /\ lock' = IF conn[r] = "live" THEN NoReplica ELSE lock
    /\ conn' = [conn EXCEPT ![r] = "none"]
    /\ elector' = [elector EXCEPT ![r] = IF @ = "stopping" THEN "follower" ELSE "down"]
    /\ UNCHANGED <<workers, faults>>

\* The process dies; its session outlives it until PostgreSQL notices.
Crash(r) ==
    /\ elector[r] # "down"
    /\ Fault
    /\ elector' = [elector EXCEPT ![r] = "down"]
    /\ conn' = [conn EXCEPT ![r] = "none"]
    /\ workers' = [workers EXCEPT ![r] = "off"]
    /\ UNCHANGED lock

Restart(r) ==
    /\ elector[r] = "down"
    /\ elector' = [elector EXCEPT ![r] = "follower"]
    /\ UNCHANGED <<lock, conn, workers, faults>>

-----------------------------------------------------------------------------
Init ==
    /\ lock = NoReplica
    /\ elector = [r \in Replicas |-> "down"]
    /\ conn = [r \in Replicas |-> "none"]
    /\ workers = [r \in Replicas |-> "off"]
    /\ faults = 0

Next ==
    \E r \in Replicas :
        \/ Campaign(r) \/ CampaignUnanswered(r) \/ LoseConnection(r) \/ SessionEnds(r)
        \/ HealthCheck(r) \/ WorkersExit(r) \/ Shutdown(r) \/ WorkersDone(r)
        \/ StepDown(r) \/ Crash(r) \/ Restart(r)

Spec == Init /\ [][Next]_vars

\* The campaign and health timers keep firing, cancelled workers return, a dead
\* session is ended by PostgreSQL's keepalives, and a replica that went down is
\* started again.
FairSpec ==
    /\ Spec
    /\ \A r \in Replicas :
         /\ WF_vars(Campaign(r)) /\ WF_vars(HealthCheck(r)) /\ WF_vars(WorkersDone(r))
         /\ WF_vars(StepDown(r)) /\ WF_vars(SessionEnds(r)) /\ WF_vars(Restart(r))

-----------------------------------------------------------------------------
(* Properties *)

\* The variables have their types, and a replica that leads or is stepping down
\* still owns the connection its lease was granted on.
TypeOK ==
    /\ lock \in Replicas \cup {NoReplica}
    /\ elector \in [Replicas -> {"down", "follower", "leading", "stopping", "leaving"}]
    /\ conn \in [Replicas -> {"none", "live", "broken"}]
    /\ workers \in [Replicas -> {"off", "running", "cancelled"}]
    /\ faults \in 0..MaxFaults
    /\ \A r \in Replicas : elector[r] \in {"leading", "stopping", "leaving"} => conn[r] # "none"

\* Two replicas run leader workers at the same time only if one of them has lost
\* its lease's connection and not yet noticed or not yet stopped: on a shutdown or
\* a worker exit the lock is handed over after the workers have stopped.
OverlapNeedsLoss ==
    \A r, q \in Replicas :
        r # q /\ workers[r] # "off" /\ workers[q] # "off"
        => conn[r] = "broken" \/ conn[q] = "broken"

\* A leader whose lease connection is gone stops its workers (serveAsLeader's health
\* check), so an overlap with the next leader ends.
LostLeaderStops ==
    \A r \in Replicas : conn[r] = "broken" ~> workers[r] = "off"

\* Whatever connections, processes and answers were lost, some replica always comes
\* to hold the lock and run the workers again: Run re-campaigns for ever.
AlwaysReelected == []<>(\E r \in Replicas : lock = r /\ workers[r] = "running")

=============================================================================
