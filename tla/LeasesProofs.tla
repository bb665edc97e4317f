----------------------------- MODULE LeasesProofs -----------------------------
(***************************************************************************)
(* Proofs about the dynamic-secret leases, for any number of processes,    *)
(* keys, leases and failures: nothing revokes the credential of an active  *)
(* lease, a revocation is not forgotten, and a process has one lease for   *)
(* a key.                                                                  *)
(***************************************************************************)
EXTENDS Leases, TLAPS

\* A lease is in an engine exactly while it is active or revoked there, the backend
\* knows its credential, only a revoked one is queued, and a row is delivered because
\* the backend revoked the credential or the dispatcher acknowledged the row.
LeaseSound ==
    \A l \in Ids :
        /\ lease[l].home # NoProc <=> lease[l].state \in {"active", "revoked"}
        /\ lease[l].state # "none" => cred[l] # "none"
        /\ row[l] # "none" => lease[l].state \in {"revoked", "lost"}
        /\ cred[l] = "revoked" => row[l] # "none"
        /\ row[l] = "delivered" => cred[l] = "revoked" \/ l \in acked

\* What a handler or worker r of process p relies on while it does job j: between
\* two of its steps nobody else has opened its key's lease, touched the credential
\* it has generated, or let go of a lease it is revoking.
JobSound(p, r, j) ==
    /\ j.pc \in {"generating", "opening"} => r = "api" /\ \A l \in Here(p) : lease[l].key # j.key
    /\ j.pc \in {"generating", "opening", "recording"} => j.key \in Keys
    /\ j.pc = "opening" => j.lease \in Ids /\ cred[j.lease] \in {"live", "lapsed"} /\ lease[j.lease].state = "none"
    /\ j.pc = "enqueueing" => j.lease \in Ids /\ lease[j.lease].home = p /\ lease[j.lease].state = "revoked"
    /\ j.pc \in {"expiring", "enqueueing"} => \A l \in j.items : lease[l].home = p
    /\ j.pc = "settling" => j.lease \in Ids /\ cred[j.lease] = "revoked"
    /\ j.pc \in {"draining", "settling"} => \A l \in j.items : row[l] # "none"

JobsSound == \A p \in Procs, r \in Roles : JobSound(p, r, job[p][r])

\* Two handlers never open the same lease.
OpeningDistinct ==
    \A p, q \in Procs :
        /\ job[p]["api"].pc = "opening" /\ job[q]["api"].pc = "opening"
        /\ job[p]["api"].lease = job[q]["api"].lease
        => p = q

\* None of the three properties is inductive by itself: each depends on what the
\* jobs under way are about to do.
IInv ==
    /\ TypeOK /\ LeaseSound /\ JobsSound /\ OpeningDistinct
    /\ ActiveLeaseUnrevoked /\ RevocationKept /\ OneLeasePerKey

-----------------------------------------------------------------------------
(* Jobs *)

\* A job that has ended, or not begun, is sound and holds nothing.
LEMMA IdleTyped ==
    Idle \in Jobs /\ Idle.pc = "idle" /\ Idle.items = {} /\ Idle.key = NoKey /\ Idle.lease = 0
  BY LeasesAssumption DEF Idle, Jobs, Pcs

LEMMA ListingTyped ==
    At(Idle, "listing") \in Jobs /\ At(Idle, "listing").pc = "listing" /\ At(Idle, "listing").items = {}
  BY IdleTyped DEF At, Jobs, Pcs

\* Step replaces one job and leaves the others.
LEMMA StepJob ==
    ASSUME job \in [Procs -> [Roles -> Jobs]], NEW p \in Procs, NEW r \in Roles, NEW j \in Jobs, Step(p, r, j)
    PROVE  /\ job' \in [Procs -> [Roles -> Jobs]]
           /\ job'[p][r] = j
           /\ \A q \in Procs, s \in Roles : q # p \/ s # r => job'[q][s] = job[q][s]
  BY DEF Step

\* A failing step leaves the count of faults within its bound.
LEMMA FaultBounded ==
    ASSUME faults \in 0..MaxFaults, NEW failed \in BOOLEAN, Fault(failed)
    PROVE  faults' \in 0..MaxFaults
  BY LeasesAssumption DEF Fault

\* A step of one job that changes no lease, credential or row: the job's new place
\* has to be sound, it must not be the one that a revocation waits for, and it opens
\* no lease.
LEMMA JobStep ==
    ASSUME IInv, NEW p \in Procs, NEW r \in Roles, NEW j \in Jobs, Step(p, r, j),
           UNCHANGED <<lease, cred, row, unanswered, acked>>,
           job[p][r].pc # "enqueueing", j.pc # "opening",
           JobSound(p, r, j), \A l \in j.items : cred[l] # "none"
    PROVE  /\ job' \in [Procs -> [Roles -> Jobs]]
           /\ \A q \in Procs, s \in Roles : \A l \in job'[q][s].items : cred'[l] # "none"
           /\ LeaseSound' /\ JobsSound' /\ OpeningDistinct'
           /\ ActiveLeaseUnrevoked' /\ RevocationKept' /\ OneLeasePerKey'
  <1>1. /\ job' \in [Procs -> [Roles -> Jobs]] /\ job'[p][r] = j
        /\ \A q \in Procs, s \in Roles : q # p \/ s # r => job'[q][s] = job[q][s]
    BY StepJob DEF IInv, TypeOK
  <1>2. \A q \in Procs, s \in Roles : \A l \in job'[q][s].items : cred'[l] # "none"
    BY SMTT(30), <1>1 DEF IInv, TypeOK
  <1>3. LeaseSound' /\ ActiveLeaseUnrevoked' /\ OneLeasePerKey'
    BY DEF IInv, LeaseSound, ActiveLeaseUnrevoked, OneLeasePerKey, Here
  <1>4. JobsSound'
    BY <1>1 DEF IInv, JobsSound, JobSound, Here
  <1>5. OpeningDistinct'
    BY <1>1 DEF IInv, OpeningDistinct, Roles
  <1>6. RevocationKept'
    BY <1>1 DEF IInv, RevocationKept
  <1>7. QED BY <1>1, <1>2, <1>3, <1>4, <1>5, <1>6

-----------------------------------------------------------------------------
(* Issuing *)

\* Issue replays a lease this process has for the key, or generates one.
LEMMA IssueBeginIInv ==
    ASSUME IInv, NEW p \in Procs, NEW k \in Keys, IssueBegin(p, k)
    PROVE  IInv'
  <1> DEFINE replay == {l \in Here(p) : lease[l].key = k}
             j == [Idle EXCEPT !.pc = IF replay = {} THEN "generating" ELSE "recording", !.key = k]
  <1>1. /\ j \in Jobs /\ j.items = {} /\ j.key = k
        /\ j.pc \in {"generating", "recording"} /\ (j.pc = "generating" => replay = {})
    BY IdleTyped DEF Jobs, Pcs
  <1>2. job[p]["api"].pc = "idle" /\ Step(p, "api", j)
    BY IdleTyped DEF IssueBegin
  <1>3. JobSound(p, "api", j)
    <2> HIDE DEF j
    <2>1. QED BY <1>1 DEF JobSound
  <1>4. UNCHANGED <<lease, due, cred, row, recorded, leader, unanswered, acked, faults>> /\ engine' = engine \cup {p}
    BY DEF IssueBegin
  <1> HIDE DEF j
  <1>5. "api" \in Roles
    BY DEF Roles
  <1>6. QED BY <1>1, <1>2, <1>3, <1>4, <1>5, JobStep DEF IInv, TypeOK

LEMMA EngineIInv ==
    ASSUME IInv, NEW p \in Procs, dynamicLeaseEngine(p)
    PROVE  IInv'
  BY DEF IInv, dynamicLeaseEngine, TypeOK, LeaseSound, JobsSound, JobSound, OpeningDistinct, ActiveLeaseUnrevoked,
         RevocationKept, OneLeasePerKey, Here

\* Generate takes an unused lease, which no job and no row knows.
LEMMA GenerateIInv ==
    ASSUME IInv, NEW p \in Procs, NEW l \in Ids, NEW o \in Outcomes, Generate(p, l, o)
    PROVE  IInv'
  <1>1. /\ cred[l] = "none" /\ lease[l].state = "none" /\ row[l] = "none" /\ lease[l].home = NoProc
        /\ job[p]["api"].pc = "generating" /\ "api" \in Roles
    BY DEF IInv, Generate, Unused, LeaseSound, Roles
  <1>2. CASE o = "failed"
    BY <1>1, <1>2, IdleTyped, JobStep, FaultBounded DEF IInv, TypeOK, Generate, JobSound
  <1>3. CASE o # "failed"
    <2> DEFINE j == IF o = "ok" THEN [job[p]["api"] EXCEPT !.pc = "opening", !.lease = l] ELSE Idle
    <2>1. cred' = [cred EXCEPT ![l] = "live"] /\ Step(p, "api", j) /\ UNCHANGED <<lease, row, unanswered, acked>>
      BY <1>3 DEF Generate
    <2>2. job[p]["api"] \in Jobs /\ JobSound(p, "api", job[p]["api"])
      BY <1>1 DEF IInv, TypeOK, JobsSound
    <2>3. /\ j \in Jobs /\ j.pc \in {"opening", "idle"} /\ \A m \in j.items : cred[m] # "none"
          /\ j.pc = "opening" => j.lease = l /\ j.key = job[p]["api"].key
      <3>1. \A m \in job[p]["api"].items : cred[m] # "none"
        BY <1>1 DEF IInv, TypeOK
      <3>2. l \in 0..MaxLeases
        BY LeasesAssumption DEF Ids
      <3>3. CASE o = "ok"
        BY <2>2, <3>1, <3>2, <3>3 DEF Jobs, Pcs
      <3>4. CASE o # "ok"
        BY <3>4, IdleTyped
      <3>5. QED BY <3>3, <3>4
    <2> HIDE DEF j
    <2>4. /\ job' \in [Procs -> [Roles -> Jobs]] /\ job'[p]["api"] = j
          /\ \A q \in Procs, s \in Roles : q # p \/ s # "api" => job'[q][s] = job[q][s]
      BY <1>1, <2>1, <2>3, StepJob DEF IInv, TypeOK
    <2>5. cred' \in [Ids -> {"none", "live", "lapsed", "revoked"}] /\ cred'[l] = "live" /\ \A m \in Ids : m # l => cred'[m] = cred[m]
      BY <2>1 DEF IInv, TypeOK
    <2>6. TypeOK'
      <3>1. faults' \in 0..MaxFaults
        BY FaultBounded DEF IInv, TypeOK, Generate
      <3>2. \A q \in Procs, s \in Roles : \A m \in job'[q][s].items : cred'[m] # "none"
        <4> SUFFICES ASSUME NEW q \in Procs, NEW s \in Roles, NEW m \in job'[q][s].items PROVE cred'[m] # "none"
          OBVIOUS
        <4>1. m \in Ids
          BY <2>4 DEF Jobs
        <4>2. cred[m] # "none"
          BY <2>3, <2>4 DEF IInv, TypeOK
        <4>3. QED BY <2>5, <4>1, <4>2
      <3>3. \A m \in Ids : row'[m] # "none" => cred'[m] # "none"
        BY <2>1, <2>5 DEF IInv, TypeOK
      <3>4. QED BY <2>1, <2>4, <2>5, <3>1, <3>2, <3>3 DEF IInv, TypeOK, Generate
    <2>7. LeaseSound' /\ ActiveLeaseUnrevoked' /\ OneLeasePerKey'
      BY <1>1, <2>1, <2>5 DEF IInv, LeaseSound, ActiveLeaseUnrevoked, OneLeasePerKey, Here
    <2>8. JobsSound'
      <3> SUFFICES ASSUME NEW q \in Procs, NEW s \in Roles PROVE JobSound(q, s, job[q][s])'
        BY DEF JobsSound
      <3>1. CASE q = p /\ s = "api"
        BY <1>1, <2>1, <2>2, <2>3, <2>4, <2>5, <3>1 DEF JobSound, Here
      <3>2. CASE q # p \/ s # "api"
        BY <1>1, <2>1, <2>4, <2>5, <3>2 DEF IInv, JobsSound, JobSound, Here
      <3>3. QED BY <3>1, <3>2
    <2>9. OpeningDistinct'
      <3>1. \A q \in Procs : job[q]["api"].pc = "opening" => job[q]["api"].lease # l
        BY <1>1 DEF IInv, JobsSound, JobSound
      <3>2. QED BY <1>1, <2>3, <2>4, <3>1 DEF IInv, OpeningDistinct
    <2>10. RevocationKept'
      BY <1>1, <2>1, <2>4, <2>5 DEF IInv, RevocationKept
    <2>11. QED BY <2>6, <2>7, <2>8, <2>9, <2>10 DEF IInv
  <1>4. QED BY <1>2, <1>3

\* The lease enters the engine's map: nobody else has opened it, and this process
\* has none for the key.
LEMMA OpenIInv ==
    ASSUME IInv, NEW p \in Procs, Open(p)
    PROVE  IInv'
  <1> DEFINE l == job[p]["api"].lease
             k == job[p]["api"].key
             j == At(job[p]["api"], "recording")
  <1>1. job[p]["api"] \in Jobs /\ JobSound(p, "api", job[p]["api"]) /\ job[p]["api"].pc = "opening" /\ "api" \in Roles
    BY DEF IInv, TypeOK, JobsSound, Open, Roles
  <1>2. /\ l \in Ids /\ cred[l] \in {"live", "lapsed"} /\ lease[l].state = "none" /\ lease[l].home = NoProc /\ row[l] = "none"
        /\ k \in Keys /\ \A m \in Here(p) : lease[m].key # k
    BY <1>1 DEF IInv, JobSound, LeaseSound
  <1>3. j \in Jobs /\ j.pc = "recording" /\ j.key = k /\ j.items = job[p]["api"].items
    BY <1>1 DEF At, Jobs, Pcs
  <1>4. /\ lease' = [lease EXCEPT ![l] = [home |-> p, key |-> k, state |-> "active"]] /\ Step(p, "api", j)
        /\ UNCHANGED <<engine, due, cred, row, recorded, leader, unanswered, acked, faults>>
    BY DEF Open
  <1> HIDE DEF l, k, j
  <1>5. /\ job' \in [Procs -> [Roles -> Jobs]] /\ job'[p]["api"] = j
        /\ \A q \in Procs, s \in Roles : q # p \/ s # "api" => job'[q][s] = job[q][s]
    BY <1>1, <1>3, <1>4, StepJob DEF IInv, TypeOK
  <1>6. /\ lease' \in [Ids -> LeaseStates] /\ lease'[l].home = p /\ lease'[l].key = k /\ lease'[l].state = "active"
        /\ \A m \in Ids : m # l => lease'[m] = lease[m]
    BY <1>2, <1>4 DEF IInv, TypeOK, LeaseStates
  <1>7. TypeOK'
    BY SMTT(30), <1>1, <1>3, <1>4, <1>5, <1>6 DEF IInv, TypeOK
  <1>8. LeaseSound' /\ ActiveLeaseUnrevoked'
    BY <1>2, <1>4, <1>6, LeasesAssumption DEF IInv, LeaseSound, ActiveLeaseUnrevoked
  <1>9. OneLeasePerKey'
    BY <1>2, <1>6, LeasesAssumption DEF IInv, OneLeasePerKey, Here
  <1>10. \A q \in Procs : q # p /\ job[q]["api"].pc = "opening" => job[q]["api"].lease # l
    BY <1>1 DEF IInv, OpeningDistinct, l
  <1>11. JobsSound'
    <2> SUFFICES ASSUME NEW q \in Procs, NEW s \in Roles PROVE JobSound(q, s, job[q][s])'
      BY DEF JobsSound
    <2>1. CASE q = p /\ s = "api"
      BY <1>2, <1>3, <1>5, <2>1 DEF JobSound
    <2>2. CASE q # p \/ s # "api"
      <3>1. JobSound(q, s, job[q][s]) /\ job[q][s] \in Jobs /\ job'[q][s] = job[q][s]
        BY <1>5, <2>2 DEF IInv, TypeOK, JobsSound
      <3>2. job[q][s].pc \in {"generating", "opening"} => s = "api" /\ q # p
        BY <2>2, <3>1 DEF JobSound
      <3>3. QED BY <1>2, <1>4, <1>6, <1>10, <3>1, <3>2, LeasesAssumption DEF JobSound, Here, Jobs, Ids
    <2>3. QED BY <2>1, <2>2
  <1>12. OpeningDistinct'
    BY <1>1, <1>3, <1>5 DEF IInv, OpeningDistinct
  <1>13. RevocationKept'
    BY <1>1, <1>4, <1>5, <1>6 DEF IInv, RevocationKept
  <1>14. QED BY <1>7, <1>8, <1>9, <1>11, <1>12, <1>13 DEF IInv

\* The response is recorded, or not: the lease stays.
LEMMA RecordIInv ==
    ASSUME IInv, NEW p \in Procs, NEW ok \in BOOLEAN, Record(p, ok)
    PROVE  IInv'
  <1>1. job[p]["api"].key \in Keys /\ job[p]["api"].pc = "recording" /\ "api" \in Roles
    BY DEF IInv, JobsSound, JobSound, Record, Roles
  <1>2. JobSound(p, "api", Idle)
    BY IdleTyped DEF JobSound
  <1>3. faults' \in 0..MaxFaults
    BY FaultBounded DEF IInv, TypeOK, Record
  <1>4. QED BY <1>1, <1>2, <1>3, IdleTyped, JobStep DEF IInv, TypeOK, Record

-----------------------------------------------------------------------------
(* Revocation and expiry *)

\* Time and renewals concern only due.
LEMMA DueIInv ==
    ASSUME IInv, NEW l \in Ids, Expire(l) \/ Renew(l)
    PROVE  IInv'
  BY DEF IInv, Expire, Renew, TypeOK, LeaseSound, JobsSound, JobSound, OpeningDistinct, ActiveLeaseUnrevoked,
         RevocationKept, OneLeasePerKey, Here

\* A credential that ends by itself takes nothing from its lease or its row.
LEMMA LapseIInv ==
    ASSUME IInv, NEW l \in Ids, Lapse(l)
    PROVE  IInv'
  <1>1. /\ cred[l] = "live" /\ cred' = [cred EXCEPT ![l] = "lapsed"]
        /\ UNCHANGED <<engine, lease, due, row, recorded, job, leader, unanswered, acked, faults>>
    BY DEF Lapse
  <1>2. /\ cred' \in [Ids -> {"none", "live", "lapsed", "revoked"}] /\ cred'[l] = "lapsed"
        /\ \A m \in Ids : m # l => cred'[m] = cred[m]
    BY <1>1 DEF IInv, TypeOK
  <1>3. TypeOK'
    <2>1. ASSUME NEW q \in Procs, NEW s \in Roles, NEW m \in job[q][s].items PROVE cred'[m] # "none"
      BY <1>2, <2>1 DEF IInv, TypeOK, Jobs
    <2>2. QED BY <1>1, <1>2, <2>1 DEF IInv, TypeOK
  <1>4. LeaseSound' /\ ActiveLeaseUnrevoked' /\ OneLeasePerKey'
    BY <1>1, <1>2 DEF IInv, LeaseSound, ActiveLeaseUnrevoked, OneLeasePerKey, Here
  <1>5. JobsSound' /\ OpeningDistinct'
    BY <1>1, <1>2 DEF IInv, JobsSound, JobSound, OpeningDistinct, Here
  <1>6. RevocationKept'
    BY <1>1, <1>2 DEF IInv, RevocationKept
  <1>7. QED BY <1>3, <1>4, <1>5, <1>6 DEF IInv

\* A handler or the worker of the lease's process marks it revoked and goes on to
\* enqueue it: the lease was active, so no other job is about to do the same.
LEMMA FlipIInv ==
    ASSUME IInv, NEW p \in Procs, NEW r \in Roles, NEW l \in Here(p), NEW j \in Jobs,
           lease[l].state # "revoked", Flip(l), Step(p, r, j),
           j.pc = "enqueueing", j.lease = l, j.items \subseteq Here(p),
           job[p][r].pc \notin {"enqueueing", "opening"},
           UNCHANGED <<engine, due, cred, row, recorded, leader, unanswered, acked, faults>>
    PROVE  IInv'
  <1>1. l \in Ids /\ lease[l].home = p /\ lease[l].state = "active" /\ lease[l] \in LeaseStates
    BY LeasesAssumption DEF IInv, TypeOK, LeaseSound, Here
  <1>2. /\ lease' \in [Ids -> LeaseStates] /\ \A m \in Ids : m # l => lease'[m] = lease[m]
        /\ \A m \in Ids : lease'[m].home = lease[m].home /\ lease'[m].key = lease[m].key
        /\ lease'[l].state = "revoked"
    BY <1>1 DEF IInv, TypeOK, Flip, LeaseStates
  <1>3. /\ job' \in [Procs -> [Roles -> Jobs]] /\ job'[p][r] = j
        /\ \A q \in Procs, s \in Roles : q # p \/ s # r => job'[q][s] = job[q][s]
    BY StepJob DEF IInv, TypeOK
  <1>4. TypeOK'
    <2>1. \A m \in j.items : m \in Ids /\ cred[m] # "none"
      BY LeasesAssumption DEF IInv, LeaseSound, Here
    <2>2. \A q \in Procs, s \in Roles : \A m \in job'[q][s].items : cred'[m] # "none"
      BY SMTT(30), <1>3, <2>1 DEF IInv, TypeOK
    <2>3. QED BY <1>2, <1>3, <2>2 DEF IInv, TypeOK
  <1>5. LeaseSound' /\ ActiveLeaseUnrevoked'
    BY <1>1, <1>2 DEF IInv, LeaseSound, ActiveLeaseUnrevoked
  <1>6. OneLeasePerKey'
    BY <1>2 DEF IInv, OneLeasePerKey, Here
  <1>7. JobsSound'
    <2> SUFFICES ASSUME NEW q \in Procs, NEW s \in Roles PROVE JobSound(q, s, job[q][s])'
      BY DEF JobsSound
    <2>1. CASE q = p /\ s = r
      BY <1>1, <1>2, <1>3, <2>1 DEF JobSound, Here
    <2>2. CASE q # p \/ s # r
      <3>1. JobSound(q, s, job[q][s]) /\ job[q][s] \in Jobs /\ job'[q][s] = job[q][s]
        BY <1>3, <2>2 DEF IInv, TypeOK, JobsSound
      <3>2. QED BY <1>1, <1>2, <3>1 DEF JobSound, Here, Jobs
    <2>3. QED BY <2>1, <2>2
  <1>8. OpeningDistinct'
    BY <1>3 DEF IInv, OpeningDistinct, Roles
  <1>9. RevocationKept'
    BY <1>2, <1>3 DEF IInv, RevocationKept
  <1>10. QED BY <1>4, <1>5, <1>6, <1>7, <1>8, <1>9 DEF IInv

\* A request revokes a lease of its own process.
LEMMA RevokeBeginIInv ==
    ASSUME IInv, NEW p \in Procs, NEW l \in Ids, RevokeBegin(p, l)
    PROVE  IInv'
  <1>1. job[p]["api"].pc = "idle" /\ l \in Here(p) /\ "api" \in Roles
    BY IdleTyped DEF RevokeBegin, Roles
  <1>2. UNCHANGED <<engine, due, cred, row, recorded, leader, unanswered, acked, faults>>
    BY DEF RevokeBegin
  <1>3. CASE lease[l].state = "revoked"
    <2>1. JobSound(p, "api", At(Idle, "listing"))
      BY ListingTyped DEF JobSound
    <2>2. Step(p, "api", At(Idle, "listing")) /\ UNCHANGED lease
      BY <1>3 DEF RevokeBegin
    <2>3. QED BY <1>1, <1>2, <2>1, <2>2, ListingTyped, JobStep DEF IInv, TypeOK
  <1>4. CASE lease[l].state # "revoked"
    <2> DEFINE j == [Idle EXCEPT !.pc = "enqueueing", !.lease = l]
    <2>1. j \in Jobs /\ j.pc = "enqueueing" /\ j.lease = l /\ j.items = {}
      <3>1. l \in 0..MaxLeases
        BY LeasesAssumption DEF Ids
      <3>2. QED BY <3>1, IdleTyped DEF Jobs, Pcs
    <2>2. Step(p, "api", j) /\ Flip(l)
      BY <1>4 DEF RevokeBegin
    <2> HIDE DEF j
    <2>3. QED BY <1>1, <1>2, <1>4, <2>1, <2>2, FlipIInv
  <1>5. QED BY <1>3, <1>4

\* The leader's worker looks for leases of its own engine that are due.
LEMMA TickIInv ==
    ASSUME IInv, NEW p \in Procs, Tick(p)
    PROVE  IInv'
  <1> DEFINE found == {l \in Here(p) : lease[l].state = "active" /\ l \in due}
             j == [Idle EXCEPT !.pc = "expiring", !.items = found]
  <1>1. found \subseteq Here(p) /\ Here(p) \subseteq Ids /\ \A l \in found : cred[l] # "none"
    BY DEF Here, IInv, LeaseSound
  <1>2. job[p]["worker"].pc = "idle" /\ Step(p, "worker", j) /\ "worker" \in Roles
    BY IdleTyped DEF Tick, Roles
  <1> HIDE DEF found
  <1>3. j \in Jobs /\ j.pc = "expiring" /\ j.items = found
    BY <1>1, IdleTyped DEF Jobs, Pcs
  <1> HIDE DEF j
  <1>4. JobSound(p, "worker", j)
    BY <1>1, <1>3 DEF JobSound, Here
  <1>5. UNCHANGED <<engine, lease, due, cred, row, recorded, leader, unanswered, acked, faults>>
    BY DEF Tick
  <1>6. QED BY <1>1, <1>2, <1>3, <1>4, <1>5, JobStep DEF IInv, TypeOK

\* ExpireDue revokes one of the leases it found, unless a request has.
LEMMA ExpireNextIInv ==
    ASSUME IInv, NEW p \in Procs, ExpireNext(p)
    PROVE  IInv'
  <1> DEFINE j == job[p]["worker"]
  <1>1. /\ j \in Jobs /\ JobSound(p, "worker", j) /\ j.pc = "expiring" /\ "worker" \in Roles
        /\ \A m \in j.items : cred[m] # "none"
    BY DEF IInv, TypeOK, JobsSound, ExpireNext, Roles
  <1>2. UNCHANGED <<engine, due, cred, row, recorded, leader, unanswered, acked, faults>>
    BY DEF ExpireNext
  <1>3. CASE j.items = {}
    <2>1. JobSound(p, "worker", At(Idle, "listing"))
      BY ListingTyped DEF JobSound
    <2>2. Step(p, "worker", At(Idle, "listing")) /\ UNCHANGED lease
      BY <1>3 DEF ExpireNext
    <2>3. QED BY <1>1, <1>2, <2>1, <2>2, ListingTyped, JobStep DEF IInv, TypeOK
  <1>4. CASE j.items # {}
    <2>1. PICK l \in j.items :
             IF lease[l].state = "revoked"
             THEN Step(p, "worker", [j EXCEPT !.items = @ \ {l}]) /\ UNCHANGED lease
             ELSE Step(p, "worker", [j EXCEPT !.pc = "enqueueing", !.lease = l, !.items = @ \ {l}]) /\ Flip(l)
      BY <1>4 DEF ExpireNext
    <2>2. l \in Ids /\ l \in 0..MaxLeases /\ \A m \in j.items : m \in Here(p)
      BY <1>1, LeasesAssumption DEF Jobs, Ids, JobSound, Here
    <2>3. CASE lease[l].state = "revoked"
      <3> DEFINE n == [j EXCEPT !.items = @ \ {l}]
      <3>1. n \in Jobs /\ n.pc = "expiring" /\ n.items = j.items \ {l}
        BY <1>1 DEF Jobs
      <3>2. Step(p, "worker", n) /\ UNCHANGED lease
        BY <2>1, <2>3
      <3> HIDE DEF n
      <3>3. JobSound(p, "worker", n)
        BY <1>1, <3>1 DEF JobSound
      <3>4. QED BY <1>1, <1>2, <3>1, <3>2, <3>3, JobStep DEF IInv, TypeOK
    <2>4. CASE lease[l].state # "revoked"
      <3> DEFINE n == [j EXCEPT !.pc = "enqueueing", !.lease = l, !.items = @ \ {l}]
      <3>1. n \in Jobs /\ n.pc = "enqueueing" /\ n.lease = l /\ n.items = j.items \ {l}
        BY <1>1, <2>2 DEF Jobs, Pcs
      <3>2. Step(p, "worker", n) /\ Flip(l)
        BY <2>1, <2>4
      <3> HIDE DEF n
      <3>3. QED BY <1>1, <1>2, <2>2, <2>4, <3>1, <3>2, FlipIInv
    <2>5. QED BY <2>3, <2>4
  <1>5. QED BY <1>3, <1>4

\* The revocation is queued, or its Enqueue has failed or was not answered.
LEMMA EnqueueIInv ==
    ASSUME IInv, NEW p \in Procs, NEW r \in Roles, NEW o \in Outcomes, Enqueue(p, r, o)
    PROVE  IInv'
  <1> DEFINE l == job[p][r].lease
             j == IF o # "ok" THEN Idle ELSE At(job[p][r], IF r = "api" THEN "listing" ELSE "expiring")
  <1>1. /\ job[p][r] \in Jobs /\ JobSound(p, r, job[p][r]) /\ job[p][r].pc = "enqueueing"
        /\ \A m \in job[p][r].items : cred[m] # "none"
    BY DEF IInv, TypeOK, JobsSound, Enqueue
  <1>2. l \in Ids /\ lease[l].home = p /\ lease[l].state = "revoked" /\ cred[l] # "none"
    BY <1>1 DEF IInv, JobSound, LeaseSound
  <1>3. /\ j \in Jobs /\ (\A m \in j.items : cred[m] # "none") /\ j.pc \in {"idle", "listing", "expiring"}
        /\ j.pc = "expiring" => \A m \in j.items : lease[m].home = p
    <2>1. CASE o = "ok"
      BY <1>1, <2>1 DEF At, Jobs, Pcs, JobSound
    <2>2. CASE o # "ok"
      BY <2>2, IdleTyped
    <2>3. QED BY <2>1, <2>2
  <1>4. /\ row' = [row EXCEPT ![l] = IF o # "failed" /\ row[l] = "none" THEN "pending" ELSE row[l]]
        /\ unanswered' = IF o = "ok" THEN unanswered ELSE unanswered \cup {l}
        /\ Step(p, r, j) /\ UNCHANGED <<engine, lease, due, cred, recorded, leader, acked>>
    BY DEF Enqueue
  <1> HIDE DEF l, j
  <1>5. /\ job' \in [Procs -> [Roles -> Jobs]] /\ job'[p][r] = j
        /\ \A q \in Procs, s \in Roles : q # p \/ s # r => job'[q][s] = job[q][s]
    BY <1>3, <1>4, StepJob DEF IInv, TypeOK
  <1>6. /\ row' \in [Ids -> {"none", "pending", "delivered"}] /\ \A m \in Ids : m # l => row'[m] = row[m]
        /\ \/ row'[l] = row[l] /\ (o = "ok" => row[l] # "none")
           \/ row[l] = "none" /\ row'[l] = "pending"
    BY <1>2, <1>4 DEF IInv, TypeOK
  <1>7. TypeOK'
    <2>1. faults' \in 0..MaxFaults
      BY FaultBounded DEF IInv, TypeOK, Enqueue
    <2>2. \A q \in Procs, s \in Roles : \A m \in job'[q][s].items : cred'[m] # "none"
      BY <1>3, <1>4, <1>5 DEF IInv, TypeOK
    <2>3. \A m \in Ids : row'[m] # "none" => cred'[m] # "none"
      BY <1>2, <1>4, <1>6 DEF IInv, TypeOK
    <2>4. unanswered' \subseteq Ids
      BY <1>2, <1>4 DEF IInv, TypeOK
    <2>5. QED BY <1>4, <1>5, <1>6, <2>1, <2>2, <2>3, <2>4 DEF IInv, TypeOK
  <1>8. LeaseSound' /\ ActiveLeaseUnrevoked' /\ OneLeasePerKey'
    BY <1>2, <1>4, <1>6 DEF IInv, LeaseSound, ActiveLeaseUnrevoked, OneLeasePerKey, Here
  <1>9. JobsSound'
    <2> SUFFICES ASSUME NEW q \in Procs, NEW s \in Roles PROVE JobSound(q, s, job[q][s])'
      BY DEF JobsSound
    <2>1. CASE q = p /\ s = r
      BY <1>3, <1>4, <1>5, <2>1 DEF JobSound
    <2>2. CASE q # p \/ s # r
      <3>1. JobSound(q, s, job[q][s]) /\ job[q][s] \in Jobs /\ job'[q][s] = job[q][s]
        BY <1>5, <2>2 DEF IInv, TypeOK, JobsSound
      <3>2. \A m \in job[q][s].items : m \in Ids
        BY <3>1 DEF Jobs
      <3>3. QED BY <1>4, <1>6, <3>1, <3>2 DEF JobSound, Here
    <2>3. QED BY <2>1, <2>2
  <1>10. OpeningDistinct'
    BY <1>3, <1>5 DEF IInv, OpeningDistinct, Roles
  <1>11. RevocationKept'
    <2> SUFFICES ASSUME NEW m \in Ids, lease'[m].state = "revoked", cred'[m] # "revoked"
                 PROVE  \/ row'[m] = "pending"
                        \/ m \in unanswered' \cup acked'
                        \/ \E q \in Procs, s \in Roles : job'[q][s].pc = "enqueueing" /\ job'[q][s].lease = m
      BY DEF RevocationKept
    <2>1. CASE m # l
      BY <1>4, <1>5, <1>6, <2>1 DEF IInv, RevocationKept, l
    <2>2. CASE m = l /\ o = "ok"
      BY <1>4, <1>6, <2>2 DEF IInv, TypeOK, LeaseSound
    <2>3. CASE m = l /\ o # "ok"
      BY <1>4, <2>3
    <2>4. QED BY <2>1, <2>2, <2>3
  <1>12. QED BY <1>7, <1>8, <1>9, <1>10, <1>11 DEF IInv

-----------------------------------------------------------------------------
(* The queue of revocations *)

\* RunRevocations lists the pending rows, or fails to.
LEMMA ListIInv ==
    ASSUME IInv, NEW p \in Procs, NEW r \in Roles, NEW ok \in BOOLEAN, List(p, r, ok)
    PROVE  IInv'
  <1> DEFINE j == IF ok THEN [Idle EXCEPT !.pc = "draining", !.items = PendingItems] ELSE Idle
  <1>0. \A l \in PendingItems : l \in Ids /\ row[l] # "none" /\ cred[l] # "none"
    BY DEF PendingItems, IInv, TypeOK
  <1>1. j \in Jobs /\ j.pc \in {"draining", "idle"} /\ j.items \subseteq PendingItems
    <2>1. CASE ok
      BY <1>0, <2>1, IdleTyped DEF Jobs, Pcs
    <2>2. CASE ~ok
      BY <2>2, IdleTyped
    <2>3. QED BY <2>1, <2>2
  <1>2. Step(p, r, j) /\ job[p][r].pc = "listing"
    BY DEF List
  <1> HIDE DEF j
  <1>3. JobSound(p, r, j)
    BY <1>0, <1>1 DEF JobSound
  <1>4. UNCHANGED <<engine, lease, due, cred, row, recorded, leader, unanswered, acked>>
    BY DEF List
  <1>5. faults' \in 0..MaxFaults
    BY FaultBounded DEF IInv, TypeOK, List
  <1>6. QED BY <1>0, <1>1, <1>2, <1>3, <1>4, <1>5, JobStep DEF IInv, TypeOK

\* The backend revokes a credential whose lease has a row, so is not active.
LEMMA RevokeBackendIInv ==
    ASSUME IInv, NEW p \in Procs, NEW r \in Roles, NEW l \in Ids, RevokeBackend(p, r, l)
    PROVE  IInv'
  <1> DEFINE j == [job[p][r] EXCEPT !.pc = "settling", !.lease = l, !.items = @ \ {l}]
  <1>1. /\ job[p][r] \in Jobs /\ JobSound(p, r, job[p][r]) /\ job[p][r].pc = "draining" /\ l \in job[p][r].items
        /\ \A m \in job[p][r].items : cred[m] # "none"
    BY DEF IInv, TypeOK, JobsSound, RevokeBackend
  <1>2. row[l] # "none" /\ lease[l].state \in {"revoked", "lost"}
    BY <1>1 DEF IInv, JobSound, LeaseSound
  <1>3. j \in Jobs /\ j.pc = "settling" /\ j.lease = l /\ j.items = job[p][r].items \ {l}
    <2>1. l \in 0..MaxLeases
      BY LeasesAssumption DEF Ids
    <2>2. QED BY <1>1, <2>1 DEF Jobs, Pcs
  <1>4. /\ cred' = [cred EXCEPT ![l] = "revoked"] /\ Step(p, r, j)
        /\ UNCHANGED <<engine, lease, due, row, recorded, leader, unanswered, acked, faults>>
    BY DEF RevokeBackend
  <1> HIDE DEF j
  <1>5. /\ job' \in [Procs -> [Roles -> Jobs]] /\ job'[p][r] = j
        /\ \A q \in Procs, s \in Roles : q # p \/ s # r => job'[q][s] = job[q][s]
    BY <1>3, <1>4, StepJob DEF IInv, TypeOK
  <1>6. /\ cred' \in [Ids -> {"none", "live", "lapsed", "revoked"}] /\ cred'[l] = "revoked"
        /\ \A m \in Ids : m # l => cred'[m] = cred[m]
    BY <1>4 DEF IInv, TypeOK
  <1>7. TypeOK'
    <2>1. ASSUME NEW q \in Procs, NEW s \in Roles, NEW m \in job'[q][s].items
          PROVE  cred'[m] # "none"
      <3>1. m \in Ids
        BY <1>5 DEF Jobs
      <3>2. cred[m] # "none"
        BY <1>1, <1>3, <1>5 DEF IInv, TypeOK
      <3>3. QED BY <1>6, <3>1, <3>2
    <2>2. \A m \in Ids : row'[m] # "none" => cred'[m] # "none"
      BY <1>4, <1>6 DEF IInv, TypeOK
    <2>3. QED BY <1>4, <1>5, <1>6, <2>1, <2>2 DEF IInv, TypeOK
  <1>8. LeaseSound' /\ ActiveLeaseUnrevoked' /\ OneLeasePerKey'
    BY <1>2, <1>4, <1>6 DEF IInv, LeaseSound, ActiveLeaseUnrevoked, OneLeasePerKey, Here
  <1>9. JobsSound'
    <2> SUFFICES ASSUME NEW q \in Procs, NEW s \in Roles PROVE JobSound(q, s, job[q][s])'
      BY DEF JobsSound
    <2>1. CASE q = p /\ s = r
      BY <1>1, <1>3, <1>4, <1>5, <1>6, <2>1 DEF JobSound
    <2>2. CASE q # p \/ s # r
      <3>1. JobSound(q, s, job[q][s]) /\ job'[q][s] = job[q][s]
        BY <1>5, <2>2 DEF IInv, JobsSound
      <3>2. QED BY <1>2, <1>4, <1>6, <3>1 DEF JobSound, Here
    <2>3. QED BY <2>1, <2>2
  <1>10. OpeningDistinct'
    BY <1>3, <1>5 DEF IInv, OpeningDistinct, Roles
  <1>11. RevocationKept'
    BY <1>1, <1>4, <1>5, <1>6 DEF IInv, RevocationKept
  <1>12. QED BY <1>7, <1>8, <1>9, <1>10, <1>11 DEF IInv

\* The backend fails: the item stays queued, and the drain goes on or ends.
LEMMA RevokeFailsIInv ==
    ASSUME IInv, NEW p \in Procs, NEW r \in Roles, NEW l \in Ids, RevokeFails(p, r, l)
    PROVE  IInv'
  <1> DEFINE j == [job[p][r] EXCEPT !.items = @ \ {l}]
  <1>1. /\ job[p][r] \in Jobs /\ JobSound(p, r, job[p][r]) /\ job[p][r].pc = "draining"
        /\ \A m \in job[p][r].items : cred[m] # "none"
    BY DEF IInv, TypeOK, JobsSound, RevokeFails
  <1>2. j \in Jobs /\ j.pc = "draining" /\ j.items = job[p][r].items \ {l}
    BY <1>1 DEF Jobs
  <1>3. Step(p, r, j)
    BY DEF RevokeFails
  <1> HIDE DEF j
  <1>4. JobSound(p, r, j)
    BY <1>1, <1>2 DEF JobSound
  <1>5. UNCHANGED <<engine, lease, due, cred, row, recorded, leader, unanswered, acked, faults>>
    BY DEF RevokeFails
  <1>6. QED BY <1>1, <1>2, <1>3, <1>4, <1>5, JobStep DEF IInv, TypeOK

LEMMA DrainEndIInv ==
    ASSUME IInv, NEW p \in Procs, NEW r \in Roles, DrainEnd(p, r)
    PROVE  IInv'
  <1>1. JobSound(p, r, Idle)
    BY IdleTyped DEF JobSound
  <1>2. QED BY <1>1, IdleTyped, JobStep DEF IInv, TypeOK, DrainEnd

\* A row whose credential the backend has revoked, or that the dispatcher
\* acknowledges, becomes delivered.
LEMMA DeliveredKept ==
    ASSUME IInv, NEW l \in Ids, row[l] # "none", cred[l] = "revoked" \/ l \in acked',
           row' = [row EXCEPT ![l] = "delivered"], acked \subseteq acked', acked' \subseteq Ids,
           UNCHANGED <<lease, cred, unanswered>>
    PROVE  /\ row' \in [Ids -> {"none", "pending", "delivered"}]
           /\ \A m \in Ids : row[m] # "none" => row'[m] # "none"
           /\ \A m \in Ids : row'[m] # "none" => cred'[m] # "none"
           /\ LeaseSound' /\ ActiveLeaseUnrevoked' /\ OneLeasePerKey'
  <1>1. /\ row' \in [Ids -> {"none", "pending", "delivered"}] /\ row'[l] = "delivered"
        /\ \A m \in Ids : m # l => row'[m] = row[m]
    BY DEF IInv, TypeOK
  <1>2. \A m \in Ids : row'[m] # "none" => cred'[m] # "none"
    BY <1>1 DEF IInv, TypeOK
  <1>3. LeaseSound' /\ ActiveLeaseUnrevoked' /\ OneLeasePerKey'
    BY <1>1 DEF IInv, LeaseSound, ActiveLeaseUnrevoked, OneLeasePerKey, Here
  <1>4. QED BY <1>1, <1>2, <1>3

\* RunRevocations settles a row after the backend has revoked the credential.
LEMMA DoneIInv ==
    ASSUME IInv, NEW p \in Procs, NEW r \in Roles, NEW ok \in BOOLEAN, Done(p, r, ok)
    PROVE  IInv'
  <1> DEFINE l == job[p][r].lease
             j == At(job[p][r], "draining")
  <1>1. /\ job[p][r] \in Jobs /\ JobSound(p, r, job[p][r]) /\ job[p][r].pc = "settling"
        /\ \A m \in job[p][r].items : cred[m] # "none"
    BY DEF IInv, TypeOK, JobsSound, Done
  <1>2. l \in Ids /\ cred[l] = "revoked" /\ row[l] # "none"
    BY <1>1 DEF IInv, JobSound, LeaseSound
  <1>3. UNCHANGED <<engine, lease, due, cred, recorded, leader, unanswered, acked>>
    BY DEF Done
  <1>4. faults' \in 0..MaxFaults
    BY FaultBounded DEF IInv, TypeOK, Done
  <1>5. CASE ~ok
    <2>1. JobSound(p, r, Idle)
      BY IdleTyped DEF JobSound
    <2>2. Step(p, r, Idle) /\ UNCHANGED row
      BY <1>5 DEF Done
    <2>3. QED BY <1>1, <1>3, <1>4, <2>1, <2>2, IdleTyped, JobStep DEF IInv, TypeOK
  <1>6. CASE ok
    <2>1. row' = [row EXCEPT ![l] = "delivered"] /\ Step(p, r, j)
      BY <1>6 DEF Done
    <2>2. j \in Jobs /\ j.pc = "draining" /\ j.items = job[p][r].items
      BY <1>1 DEF At, Jobs, Pcs
    <2> HIDE DEF l, j
    <2>3. /\ row' \in [Ids -> {"none", "pending", "delivered"}]
          /\ \A m \in Ids : row[m] # "none" => row'[m] # "none"
          /\ \A m \in Ids : row'[m] # "none" => cred'[m] # "none"
          /\ LeaseSound' /\ ActiveLeaseUnrevoked' /\ OneLeasePerKey'
      <3>1. acked' \subseteq Ids
        BY <1>3 DEF IInv, TypeOK
      <3>2. QED BY <1>2, <1>3, <2>1, <3>1, DeliveredKept
    <2>4. /\ job' \in [Procs -> [Roles -> Jobs]] /\ job'[p][r] = j
          /\ \A q \in Procs, s \in Roles : q # p \/ s # r => job'[q][s] = job[q][s]
      BY <2>1, <2>2, StepJob DEF IInv, TypeOK
    <2>5. TypeOK'
      BY <1>1, <1>3, <1>4, <2>2, <2>3, <2>4 DEF IInv, TypeOK
    <2>6. JobsSound'
      <3> SUFFICES ASSUME NEW q \in Procs, NEW s \in Roles PROVE JobSound(q, s, job[q][s])'
        BY DEF JobsSound
      <3>1. CASE q = p /\ s = r
        <4>1. \A m \in j.items : row'[m] # "none"
          BY <1>1, <2>2, <2>3 DEF JobSound, Jobs
        <4>2. QED BY <2>2, <2>4, <3>1, <4>1 DEF JobSound
      <3>2. CASE q # p \/ s # r
        <4>1. JobSound(q, s, job[q][s]) /\ job[q][s] \in Jobs /\ job'[q][s] = job[q][s]
          BY <2>4, <3>2 DEF IInv, TypeOK, JobsSound
        <4>2. \A m \in job[q][s].items : m \in Ids
          BY <4>1 DEF Jobs
        <4>3. QED BY <1>3, <2>3, <4>1, <4>2 DEF JobSound, Here
      <3>3. QED BY <3>1, <3>2
    <2>7. OpeningDistinct'
      BY <2>2, <2>4 DEF IInv, OpeningDistinct, Roles
    <2>8. RevocationKept'
      <3>1. \A m \in Ids : m # l => row'[m] = row[m]
        BY <2>1 DEF IInv, TypeOK
      <3>2. QED BY <1>1, <1>2, <1>3, <2>4, <3>1 DEF IInv, RevocationKept
    <2>9. QED BY <2>3, <2>5, <2>6, <2>7, <2>8 DEF IInv
  <1>7. QED BY <1>5, <1>6

\* The dispatcher acknowledges a row.
LEMMA DeliverIInv ==
    ASSUME IInv, NEW l \in Ids, Deliver(l)
    PROVE  IInv'
  <1>1. /\ row[l] = "pending" /\ row' = [row EXCEPT ![l] = "delivered"] /\ acked' = acked \cup {l}
        /\ UNCHANGED <<engine, lease, due, cred, recorded, job, leader, unanswered, faults>>
    BY DEF Deliver
  <1>2. /\ row' \in [Ids -> {"none", "pending", "delivered"}]
        /\ \A m \in Ids : row[m] # "none" => row'[m] # "none"
        /\ \A m \in Ids : row'[m] # "none" => cred'[m] # "none"
        /\ LeaseSound' /\ ActiveLeaseUnrevoked' /\ OneLeasePerKey'
    <2>1. acked \subseteq acked' /\ acked' \subseteq Ids /\ l \in acked'
      BY <1>1 DEF IInv, TypeOK
    <2>2. QED BY <1>1, <2>1, DeliveredKept
  <1>3. TypeOK'
    BY <1>1, <1>2 DEF IInv, TypeOK
  <1>4. JobsSound'
    <2> SUFFICES ASSUME NEW q \in Procs, NEW s \in Roles PROVE JobSound(q, s, job[q][s])'
      BY DEF JobsSound
    <2>1. JobSound(q, s, job[q][s]) /\ \A m \in job[q][s].items : m \in Ids
      BY DEF IInv, TypeOK, JobsSound, Jobs
    <2>2. QED BY <1>1, <1>2, <2>1 DEF JobSound, Here
  <1>5. OpeningDistinct'
    BY <1>1 DEF IInv, OpeningDistinct
  <1>6. RevocationKept'
    <2>1. \A m \in Ids : m # l => row'[m] = row[m]
      BY <1>1 DEF IInv, TypeOK
    <2>2. QED BY <1>1, <2>1 DEF IInv, RevocationKept
  <1>7. QED BY <1>2, <1>3, <1>4, <1>5, <1>6 DEF IInv

-----------------------------------------------------------------------------
(* Leadership and crashes *)

LEMMA StepDownIInv ==
    ASSUME IInv, NEW p \in Procs, StepDown(p)
    PROVE  IInv'
  <1> DEFINE j == IF p \in engine THEN At(Idle, "listing") ELSE Idle
  <1>1. j \in Jobs /\ j.pc \in {"listing", "idle"} /\ j.items = {}
    BY IdleTyped, ListingTyped
  <1>2. Step(p, "worker", j) /\ job[p]["worker"].pc = "idle" /\ "worker" \in Roles
    BY IdleTyped DEF StepDown, Roles
  <1> HIDE DEF j
  <1>3. JobSound(p, "worker", j)
    BY <1>1 DEF JobSound
  <1>4. leader' = NoProc /\ UNCHANGED <<engine, lease, due, cred, row, recorded, unanswered, acked, faults>>
    BY DEF StepDown
  <1>5. QED BY <1>1, <1>2, <1>3, <1>4, JobStep DEF IInv, TypeOK

LEMMA ElectIInv ==
    ASSUME IInv, NEW p \in Procs, Elect(p)
    PROVE  IInv'
  BY DEF IInv, Elect, TypeOK, LeaseSound, JobsSound, JobSound, OpeningDistinct, ActiveLeaseUnrevoked,
         RevocationKept, OneLeasePerKey, Here

\* A process takes its jobs and its leases with it; those of the others stay.
LEMMA CrashIInv ==
    ASSUME IInv, NEW p \in Procs, Crash(p)
    PROVE  IInv'
  <1>1. /\ lease' = [l \in Ids |-> IF l \in Here(p) THEN [lease[l] EXCEPT !.home = NoProc, !.state = "lost"] ELSE lease[l]]
        /\ job' = [job EXCEPT ![p] = [r \in Roles |-> Idle]]
        /\ UNCHANGED <<cred, row, recorded, unanswered, acked>>
    BY DEF Crash
  <1>2. /\ lease' \in [Ids -> LeaseStates]
        /\ \A l \in Ids : lease[l].home # p => lease'[l] = lease[l]
        /\ \A l \in Ids : lease[l].home = p => lease'[l].home = NoProc /\ lease'[l].state = "lost"
    BY ZenonT(30), <1>1 DEF IInv, TypeOK, LeaseStates, Here
  <1>3. /\ job' \in [Procs -> [Roles -> Jobs]]
        /\ \A s \in Roles : job'[p][s] = Idle
        /\ \A q \in Procs, s \in Roles : q # p => job'[q][s] = job[q][s]
    BY <1>1, IdleTyped DEF IInv, TypeOK
  <1>4. TypeOK'
    <2>1. faults' \in 0..MaxFaults
      BY FaultBounded DEF IInv, TypeOK, Crash
    <2>2. \A q \in Procs, s \in Roles : \A l \in job'[q][s].items : cred'[l] # "none"
      <3> SUFFICES ASSUME NEW q \in Procs, NEW s \in Roles, NEW l \in job'[q][s].items PROVE cred'[l] # "none"
        OBVIOUS
      <3>1. q # p /\ l \in job[q][s].items
        BY <1>3, IdleTyped
      <3>2. QED BY <1>1, <3>1 DEF IInv, TypeOK
    <2>3. QED BY <1>1, <1>2, <1>3, <2>1, <2>2 DEF IInv, TypeOK, Crash
  <1>5. LeaseSound' /\ ActiveLeaseUnrevoked'
    <2>1. \A l \in Ids : lease[l].home = p => lease[l].state \in {"active", "revoked"}
      BY LeasesAssumption DEF IInv, LeaseSound
    <2>2. LeaseSound'
      <3> SUFFICES ASSUME NEW l \in Ids
                   PROVE  /\ lease'[l].home # NoProc <=> lease'[l].state \in {"active", "revoked"}
                          /\ lease'[l].state # "none" => cred'[l] # "none"
                          /\ row'[l] # "none" => lease'[l].state \in {"revoked", "lost"}
                          /\ cred'[l] = "revoked" => row'[l] # "none"
                          /\ row'[l] = "delivered" => cred'[l] = "revoked" \/ l \in acked'
        BY DEF LeaseSound
      <3>1. CASE lease[l].home = p
        BY <1>1, <1>2, <2>1, <3>1 DEF IInv, LeaseSound
      <3>2. CASE lease[l].home # p
        BY ZenonT(30), <1>1, <1>2, <3>2 DEF IInv, LeaseSound
      <3>3. QED BY <3>1, <3>2
    <2>3. ActiveLeaseUnrevoked'
      BY <1>1, <1>2 DEF IInv, ActiveLeaseUnrevoked
    <2>4. QED BY <2>2, <2>3
  <1>6. OneLeasePerKey'
    BY <1>2, LeasesAssumption DEF IInv, OneLeasePerKey, Here
  <1>7. JobsSound'
    <2> SUFFICES ASSUME NEW q \in Procs, NEW s \in Roles PROVE JobSound(q, s, job[q][s])'
      BY DEF JobsSound
    <2>1. CASE q = p
      BY <1>3, <2>1, IdleTyped DEF JobSound
    <2>2. CASE q # p
      <3>1. /\ JobSound(q, s, job[q][s]) /\ job'[q][s] = job[q][s]
            /\ \A l \in job[q][s].items : l \in Ids
        BY <1>3, <2>2 DEF IInv, TypeOK, JobsSound, Jobs
      <3>2. \A l \in Ids : lease'[l].home = q => lease'[l] = lease[l]
        BY <1>2, <2>2, LeasesAssumption
      <3>3. \A l \in Ids : lease[l].home = q \/ lease[l].state = "none" => lease'[l] = lease[l]
        BY <1>2, <2>2, LeasesAssumption DEF IInv, LeaseSound
      <3>4. \A l \in Here(q)' : l \in Here(q) /\ lease'[l] = lease[l]
        BY <3>2 DEF Here
      <3>5. UNCHANGED <<cred, row>>
        BY <1>1
      <3>6. QED BY <3>1, <3>3, <3>4, <3>5 DEF JobSound
    <2>3. QED BY <2>1, <2>2
  <1>8. OpeningDistinct'
    BY <1>3, IdleTyped DEF IInv, OpeningDistinct, Roles
  <1>9. RevocationKept'
    <2> SUFFICES ASSUME NEW m \in Ids, lease'[m].state = "revoked", cred'[m] # "revoked"
                 PROVE  \/ row'[m] = "pending"
                        \/ m \in unanswered' \cup acked'
                        \/ \E q \in Procs, s \in Roles : job'[q][s].pc = "enqueueing" /\ job'[q][s].lease = m
      BY DEF RevocationKept
    <2>1. lease[m].home # p /\ lease'[m] = lease[m]
      BY <1>2
    <2>2. \A s \in Roles : ~(job[p][s].pc = "enqueueing" /\ job[p][s].lease = m)
      BY <2>1 DEF IInv, JobsSound, JobSound
    <2>3. \/ row[m] = "pending"
          \/ m \in unanswered \cup acked
          \/ \E q \in Procs, s \in Roles : job[q][s].pc = "enqueueing" /\ job[q][s].lease = m
      BY <1>1, <2>1 DEF IInv, RevocationKept
    <2>4. QED BY <1>1, <1>3, <2>2, <2>3
  <1>10. QED BY <1>4, <1>5, <1>6, <1>7, <1>8, <1>9 DEF IInv

-----------------------------------------------------------------------------
(* Every behaviour *)

\* Initially there is no engine, lease, credential or row.
LEMMA InitIInv == Init => IInv
  <1> SUFFICES ASSUME Init PROVE IInv
    OBVIOUS
  <1>1. None \in LeaseStates /\ None.home = NoProc /\ None.state = "none"
    BY DEF None, LeaseStates
  <1>2. \A p \in Procs, r \in Roles : job[p][r] = Idle
    BY DEF Init
  <1>3. \A l \in Ids : lease[l] = None /\ cred[l] = "none" /\ row[l] = "none"
    BY DEF Init
  <1>4. TypeOK
    BY <1>1, <1>2, IdleTyped, LeasesAssumption DEF Init, TypeOK
  <1>5. LeaseSound /\ ActiveLeaseUnrevoked /\ RevocationKept
    BY <1>1, <1>3 DEF LeaseSound, ActiveLeaseUnrevoked, RevocationKept
  <1>6. OneLeasePerKey
    BY <1>1, <1>3, LeasesAssumption DEF OneLeasePerKey, Here
  <1>7. JobsSound /\ OpeningDistinct
    BY <1>2, IdleTyped DEF JobsSound, JobSound, OpeningDistinct, Roles
  <1>8. QED BY <1>4, <1>5, <1>6, <1>7 DEF IInv

LEMMA StutterIInv == ASSUME IInv, UNCHANGED vars PROVE IInv'
  BY DEF IInv, vars, TypeOK, LeaseSound, JobsSound, JobSound, OpeningDistinct, ActiveLeaseUnrevoked,
         RevocationKept, OneLeasePerKey, Here

LEMMA NextIInv == IInv /\ [Next]_vars => IInv'
  <1> SUFFICES ASSUME IInv, [Next]_vars PROVE IInv'
    OBVIOUS
  <1>1. ASSUME NEW p \in Procs, NEW r \in Roles, Draining(p, r) PROVE IInv'
    BY <1>1, EnqueueIInv, DoneIInv, ListIInv, DrainEndIInv DEF Draining
  <1>2. ASSUME NEW p \in Procs, Issuing(p) \/ BackendGenerates(p) PROVE IInv'
    BY <1>2, OpenIInv, RecordIInv, GenerateIInv DEF Issuing, BackendGenerates
  <1>6. ASSUME NEW p \in Procs, NEW r \in Roles, BackendRevokes(p, r) PROVE IInv'
    BY <1>6, RevokeBackendIInv, RevokeFailsIInv DEF BackendRevokes
  <1>3. ASSUME NEW p \in Procs,
               \/ \E k \in Keys : IssueBegin(p, k)
               \/ \E l \in Ids : RevokeBegin(p, l)
               \/ ExpireNext(p) \/ dynamicLeaseEngine(p)
               \/ Tick(p) \/ StepDown(p) \/ Elect(p) \/ Crash(p)
        PROVE  IInv'
    BY <1>3, IssueBeginIInv, RevokeBeginIInv, ExpireNextIInv, EngineIInv, TickIInv, StepDownIInv, ElectIInv, CrashIInv
  <1>4. ASSUME NEW l \in Ids, Expire(l) \/ Lapse(l) \/ Renew(l) \/ Deliver(l) PROVE IInv'
    BY <1>4, DueIInv, LapseIInv, DeliverIInv
  <1>5. QED BY <1>1, <1>2, <1>3, <1>4, <1>6, StutterIInv DEF Next

\* The invariant that the theorems below rest on holds of every behaviour.
THEOREM InvariantHolds == Spec => []IInv
  BY InitIInv, NextIInv, PTL DEF Spec

\* The variables keep their types, and neither a job nor the queue ever refers to a
\* lease the backend does not know.
THEOREM TypeCorrect == Spec => []TypeOK
  <1>1. IInv => TypeOK
    BY DEF IInv
  <1>2. QED BY <1>1, InvariantHolds, PTL

\* The credential of a lease that Engine.Renew would extend has not been revoked and
\* is not queued for revocation by a handler or worker of any process; it may have
\* ended by itself.
THEOREM ActiveLeasesAreNotRevoked == Spec => []ActiveLeaseUnrevoked
  <1>1. IInv => ActiveLeaseUnrevoked
    BY DEF IInv
  <1>2. QED BY <1>1, InvariantHolds, PTL

\* RunRevocations loses no revocation: what the backend still has for a lease
\* marked revoked has a pending row or a job that will enqueue one, or its Enqueue
\* was answered with an error, or the dispatcher acknowledged the row.
THEOREM RevocationsAreKept == Spec => []RevocationKept
  <1>1. IInv => RevocationKept
    BY DEF IInv
  <1>2. QED BY <1>1, InvariantHolds, PTL

\* Engine.Issue opens at most one lease for a key in a process, whatever is retried.
THEOREM IssuesAreIdempotent == Spec => []OneLeasePerKey
  <1>1. IInv => OneLeasePerKey
    BY DEF IInv
  <1>2. QED BY <1>1, InvariantHolds, PTL

=============================================================================
