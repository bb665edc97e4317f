--------------------------- MODULE ServingProofs ---------------------------
(***************************************************************************)
(* Proofs about Idempotency.Do, the bulkhead pool and their composition,   *)
(* for any number of callers, workers, tasks, keys, pool connections,      *)
(* failures and idemgc sweeps and any queue: a key has one runner at a     *)
(* time and one answer between two sweeps, fn runs again only after a      *)
(* failure or a sweep, the pool's counters add up, Close returns on a      *)
(* drained pool, and the composed system inherits all of it.               *)
(***************************************************************************)
EXTENDS Serving, FiniteSetTheorems, TLAPS

-----------------------------------------------------------------------------
(* Idempotency.Do *)

\* The types the two arguments need (the pool's bound plays no part in them).
Typed ==
    /\ keyRow \in [Keys -> Nat]
    /\ call \in [Callers -> [pc : Pcs, key : Keys \cup {NoKey}, result : Nat]]
    /\ effects \in [Keys -> Nat] /\ reclaimed \in [Keys -> Nat] /\ faults \in Nat
    /\ \A c \in Callers : call[c].pc # "idle" => call[c].key \in Keys

\* A key that is being claimed has no committed row.
ClaimedIsUnrecorded == \A c \in Callers : Claiming(c) => keyRow[call[c].key] = 0

\* A run of fn whose claim is not committed yet has a result to record.
RanHasResult == \A c \in Callers : call[c].pc = "ran" => call[c].result > 0

\* The effects of a key are covered: by its row or by a run that is about to
\* record it, and otherwise by failures and sweeps.
Covered(k) == keyRow[k] # 0 \/ \E c \in Callers : call[c].pc = "ran" /\ call[c].key = k
EffectsCovered ==
    \A k \in Keys : effects[k] <= reclaimed[k] + faults + (IF Covered(k) THEN 1 ELSE 0)

IInv == Typed /\ OneRunner /\ ClaimedIsUnrecorded /\ RanHasResult /\ EffectsCovered

\* The inductive invariant holds on an empty table with no call running.
LEMMA InitIInv == Init => IInv
  BY IdempotencyAssumption
  DEF Init, IInv, Typed, OneRunner, Claiming, ClaimedIsUnrecorded, RanHasResult,
      EffectsCovered, Covered, Idle, Pcs

\* Steps of Do that only move a call: nothing is claimed, recorded or committed.
LEMMA MoveIInv ==
    ASSUME IInv, NEW c \in Callers,
           Begin(c) \/ Load(c) \/ LoadMissing(c) \/ FnBegin(c) \/ Answer(c)
    PROVE  IInv'
<1> USE DEF IInv, Typed, OneRunner, Claiming, ClaimedIsUnrecorded, RanHasResult, Idle, Pcs
<1>1. EffectsCovered'
  BY DEF EffectsCovered, Covered, Begin, Load, LoadMissing, FnBegin, Answer
<1>2. Typed'
  BY IdempotencyAssumption DEF Begin, Load, LoadMissing, FnBegin, Answer
<1>3. (OneRunner /\ ClaimedIsUnrecorded /\ RanHasResult)'
  BY SMTT(30) DEF Begin, Load, LoadMissing, FnBegin, Answer
<1>4. QED
  BY <1>1, <1>2, <1>3

\* A call begins: its key is one of the tenant's.
LEMMA DoIInv ==
    ASSUME IInv, NEW c \in Callers, NEW k \in Keys, Do(c, k)
    PROVE  IInv'
<1> USE DEF IInv, Typed, OneRunner, Claiming, ClaimedIsUnrecorded, RanHasResult, Pcs, Do
<1>1. EffectsCovered'
  BY DEF EffectsCovered, Covered
<1>2. QED
  BY <1>1

\* The claim waits for every other claim of the key and finds no row.
LEMMA ClaimIInv ==
    ASSUME IInv, NEW c \in Callers, Claim(c)
    PROVE  IInv'
<1> USE DEF IInv, Typed, OneRunner, Claiming, ClaimedIsUnrecorded, RanHasResult, Pcs,
            Claim, ClaimedByOther
<1>1. EffectsCovered'
  BY DEF EffectsCovered, Covered
<1>2. (Typed /\ RanHasResult /\ ClaimedIsUnrecorded)'
  OBVIOUS
<1>3. OneRunner'
  OBVIOUS
<1>4. QED
  BY <1>1, <1>2, <1>3

\* fn commits its effects: the key had no row and no other run to cover it.
LEMMA FnCommitIInv ==
    ASSUME IInv, NEW c \in Callers, FnCommit(c)
    PROVE  IInv'
<1> USE DEF IInv, Typed, OneRunner, Claiming, ClaimedIsUnrecorded, RanHasResult, Pcs, FnCommit
<1>1. EffectsCovered'
  <2>1. ~Covered(call[c].key)
    BY DEF Covered
  <2>2. Covered(call[c].key)'
    BY DEF Covered
  <2>3. \A k \in Keys \ {call[c].key} : Covered(k) => Covered(k)'
    BY DEF Covered
  <2>4. QED
    BY <2>1, <2>2, <2>3 DEF EffectsCovered
<1>2. effects[call[c].key] + 1 \in Nat /\ effects[call[c].key] + 1 > 0
  OBVIOUS
<1>3. Typed'
  <2>1. effects' \in [Keys -> Nat]
    BY <1>2
  <2>2. call' \in [Callers -> [pc : Pcs, key : Keys \cup {NoKey}, result : Nat]]
    BY <1>2
  <2>3. \A d \in Callers : call'[d].pc # "idle" => call'[d].key \in Keys
    OBVIOUS
  <2>4. QED
    BY <2>1, <2>2, <2>3
<1>4. RanHasResult'
  BY <1>2
<1>5. (ClaimedIsUnrecorded /\ OneRunner)'
  OBVIOUS
<1>6. QED
  BY <1>1, <1>3, <1>4, <1>5

\* Recording the result hands the cover of the key from the run to the row.
LEMMA RecordIInv ==
    ASSUME IInv, NEW c \in Callers, Record(c)
    PROVE  IInv'
<1> USE DEF IInv, Typed, OneRunner, Claiming, ClaimedIsUnrecorded, RanHasResult, Pcs, Record
<1>1. EffectsCovered'
  <2>1. \A k \in Keys : Covered(k) => Covered(k)'
    BY DEF Covered
  <2>2. QED
    BY <2>1 DEF EffectsCovered
<1>2. (Typed /\ RanHasResult /\ ClaimedIsUnrecorded /\ OneRunner)'
  OBVIOUS
<1>3. QED
  BY <1>1, <1>2

\* A failing call may uncover its own key only, and counts as a failure.
LEMMA FailIInv ==
    ASSUME IInv, NEW c \in Callers, NEW landed \in BOOLEAN, Fail(c, landed)
    PROVE  IInv'
<1> USE DEF IInv, Typed, OneRunner, Claiming, ClaimedIsUnrecorded, RanHasResult, Pcs, Fail, Idle
<1>1. EffectsCovered'
  BY DEF EffectsCovered
<1>2. (Typed /\ RanHasResult)'
  BY IdempotencyAssumption
<1>3. OneRunner'
  OBVIOUS
<1>4. ClaimedIsUnrecorded'
  OBVIOUS
<1>5. QED
  BY <1>1, <1>2, <1>3, <1>4

\* A sweep may uncover the key it removes, and is counted for it.
LEMMA SweepIInv ==
    ASSUME IInv, NEW k \in Keys, Sweep(k)
    PROVE  IInv'
<1> USE DEF IInv, Typed, OneRunner, Claiming, ClaimedIsUnrecorded, RanHasResult, Pcs, Sweep
<1>1. EffectsCovered'
  <2>1. \A j \in Keys \ {k} : Covered(j) => Covered(j)'
    BY DEF Covered
  <2>2. QED
    BY <2>1 DEF EffectsCovered
<1>2. QED
  BY <1>1

\* Every step of Do, every failure and every sweep preserves the invariant.
LEMMA NextIInv == IInv /\ [Next]_vars => IInv'
<1> SUFFICES ASSUME IInv, [Next]_vars PROVE IInv'
  OBVIOUS
<1>1. ASSUME NEW c \in Callers, Progress(c) PROVE IInv'
  BY <1>1, MoveIInv, ClaimIInv, FnCommitIInv, RecordIInv DEF Progress
<1>2. CASE UNCHANGED vars
  BY <1>2 DEF vars, IInv, Typed, OneRunner, Claiming, ClaimedIsUnrecorded, RanHasResult,
      EffectsCovered, Covered
<1>3. QED
  BY <1>1, <1>2, DoIInv, FailIInv, SweepIInv DEF Next

\* While one caller runs fn for a key no other caller does, for any number of
\* callers: the INSERT of Do waits for the uncommitted row of another.
THEOREM KeyExcludes == Spec => []OneRunner
<1>1. IInv => OneRunner
  BY DEF IInv
<1>2. QED
  BY <1>1, InitIInv, NextIInv, PTL DEF Spec

\* The effects of fn are committed again for a key only after a failure or a sweep:
\* each further run is paid for by one of them, whatever callers do in between.
THEOREM RerunsAreAccounted == Spec => []RerunNeedsFailure
<1>1. IInv => RerunNeedsFailure
  BY DEF IInv, Typed, EffectsCovered, RerunNeedsFailure
<1>2. QED
  BY <1>1, InitIInv, NextIInv, PTL DEF Spec

\* The results a caller of k was answered with, is about to be, or would find.
Offered(k) ==
    replies[k] \cup {call[c].result : c \in {d \in Callers : call[d].pc = "reply" /\ call[d].key = k}}
               \cup {keyRow[j] : j \in {i \in {k} : keyRow[i] # 0}}

\* A key has one result for each time it was removed, and one more while it has a row.
AnswersBounded ==
    \A k \in Keys : /\ IsFiniteSet(Offered(k))
                    /\ Cardinality(Offered(k)) <= reclaimed[k] + (IF keyRow[k] = 0 THEN 0 ELSE 1)

DoInv == IInv /\ TypeOK /\ AnswersBounded

LEMMA FewerBounded ==
    ASSUME NEW S, IsFiniteSet(S), NEW n \in Nat, Cardinality(S) <= n, NEW m \in Nat, n <= m, NEW T, T \subseteq S
    PROVE  IsFiniteSet(T) /\ Cardinality(T) <= m
  <1>1. IsFiniteSet(T) /\ Cardinality(T) <= Cardinality(S)
    BY FS_Subset
  <1>2. Cardinality(T) \in Nat /\ Cardinality(S) \in Nat
    BY <1>1, FS_CardinalityType
  <1>3. QED BY <1>1, <1>2

LEMMA OneMoreBounded ==
    ASSUME NEW S, IsFiniteSet(S), NEW n \in Nat, Cardinality(S) <= n, NEW x, NEW T, T \subseteq S \cup {x}
    PROVE  IsFiniteSet(T) /\ Cardinality(T) <= n + 1
  <1>1. IsFiniteSet(S \cup {x}) /\ Cardinality(S \cup {x}) <= n + 1
    <2>1. /\ IsFiniteSet(S \cup {x}) /\ Cardinality(S) \in Nat
          /\ Cardinality(S \cup {x}) = IF x \in S THEN Cardinality(S) ELSE Cardinality(S) + 1
      BY FS_AddElement, FS_CardinalityType
    <2>2. QED BY <2>1
  <1>2. QED BY <1>1, FewerBounded

\* A step offers no other result of a key, or one more where it records the key.
LEMMA AnswersKept ==
    ASSUME DoInv, reclaimed' \in [Keys -> Nat], keyRow' \in [Keys -> Nat],
           \A k \in Keys :
             \/ /\ Offered(k)' \subseteq Offered(k) /\ reclaimed[k] <= reclaimed'[k]
                /\ keyRow'[k] = 0 => keyRow[k] = 0 \/ reclaimed[k] < reclaimed'[k]
             \/ /\ \E x : Offered(k)' \subseteq Offered(k) \cup {x}
                /\ keyRow[k] = 0 /\ keyRow'[k] # 0 /\ reclaimed'[k] = reclaimed[k]
    PROVE  AnswersBounded'
  <1> SUFFICES ASSUME NEW k \in Keys
               PROVE  /\ IsFiniteSet(Offered(k)')
                      /\ Cardinality(Offered(k)') <= reclaimed'[k] + (IF keyRow'[k] = 0 THEN 0 ELSE 1)
    BY DEF AnswersBounded
  <1> DEFINE n == reclaimed[k] + (IF keyRow[k] = 0 THEN 0 ELSE 1)
             m == reclaimed'[k] + (IF keyRow'[k] = 0 THEN 0 ELSE 1)
  <1>1. IsFiniteSet(Offered(k)) /\ Cardinality(Offered(k)) <= n
    BY DEF DoInv, AnswersBounded
  <1>2. reclaimed[k] \in Nat /\ reclaimed'[k] \in Nat /\ keyRow[k] \in Nat /\ keyRow'[k] \in Nat
    BY DEF DoInv, IInv, Typed
  <1>3. n \in Nat /\ m \in Nat
    BY <1>2
  <1>4. CASE /\ Offered(k)' \subseteq Offered(k) /\ reclaimed[k] <= reclaimed'[k]
             /\ keyRow'[k] = 0 => keyRow[k] = 0 \/ reclaimed[k] < reclaimed'[k]
    <2>1. n <= m
      BY <1>2, <1>4
    <2> HIDE DEF n, m
    <2>2. IsFiniteSet(Offered(k)') /\ Cardinality(Offered(k)') <= m
      BY <1>1, <1>3, <1>4, <2>1, FewerBounded
    <2>3. QED BY <2>2 DEF m
  <1>5. CASE /\ \E x : Offered(k)' \subseteq Offered(k) \cup {x}
             /\ keyRow[k] = 0 /\ keyRow'[k] # 0 /\ reclaimed'[k] = reclaimed[k]
    <2>1. m = n + 1
      BY <1>2, <1>5
    <2> HIDE DEF n, m
    <2>2. IsFiniteSet(Offered(k)') /\ Cardinality(Offered(k)') <= n + 1
      BY <1>1, <1>3, <1>5, OneMoreBounded
    <2>3. QED BY <2>1, <2>2 DEF m
  <1>6. QED BY <1>4, <1>5

\* The callers that hold connections are finitely many.
LEMMA ConnectionsFinite ==
    IsFiniteSet(Holding) /\ IsFiniteSet(Nested) /\ Cardinality(Holding) \in Nat /\ Cardinality(Nested) \in Nat
  BY IdempotencyAssumption, FS_Subset, FS_CardinalityType DEF Holding, Nested

\* No new connection is taken, or one of the free ones.
LEMMA ConnectionsKept ==
    ASSUME Cardinality(Holding) + Cardinality(Nested) <= maxConns,
           \/ Holding' \subseteq Holding /\ Nested' \subseteq Nested
           \/ FreeConn /\ \E c : Holding' \subseteq Holding \cup {c} /\ Nested' \subseteq Nested
           \/ FreeConn /\ \E c : Holding' \subseteq Holding /\ Nested' \subseteq Nested \cup {c}
    PROVE  Cardinality(Holding') + Cardinality(Nested') <= maxConns
  <1> DEFINE h == Cardinality(Holding)
             n == Cardinality(Nested)
  <1>1. /\ IsFiniteSet(Holding) /\ IsFiniteSet(Nested) /\ h \in Nat /\ n \in Nat
        /\ h <= h /\ n <= n /\ h <= h + 1 /\ n <= n + 1 /\ h + 1 \in Nat /\ n + 1 \in Nat /\ maxConns \in Nat
    BY ConnectionsFinite, IdempotencyAssumption
  <1>2. FreeConn => h + n < maxConns
    BY DEF FreeConn
  <1>3. IsFiniteSet(Holding') /\ IsFiniteSet(Nested') =>
        Cardinality(Holding') \in Nat /\ Cardinality(Nested') \in Nat
    BY FS_CardinalityType
  <1> HIDE DEF h, n
  <1>4. \A c : Holding' \subseteq Holding \cup {c} => IsFiniteSet(Holding') /\ Cardinality(Holding') <= h + 1
    BY <1>1, OneMoreBounded DEF h
  <1>5. \A c : Nested' \subseteq Nested \cup {c} => IsFiniteSet(Nested') /\ Cardinality(Nested') <= n + 1
    BY <1>1, OneMoreBounded DEF n
  <1>6. Holding' \subseteq Holding => IsFiniteSet(Holding') /\ Cardinality(Holding') <= h
    BY <1>1, FewerBounded DEF h
  <1>7. Nested' \subseteq Nested => IsFiniteSet(Nested') /\ Cardinality(Nested') <= n
    BY <1>1, FewerBounded DEF n
  <1>8. h + n <= maxConns
    BY DEF h, n
  <1>9. QED BY <1>1, <1>2, <1>3, <1>4, <1>5, <1>6, <1>7, <1>8

\* What a step must keep, beside the first invariant, for the answers and the types.
LEMMA DoInvKept ==
    ASSUME DoInv, IInv', replies' \in [Keys -> SUBSET Nat], reclaimed' \in [Keys -> 0..MaxReclaims],
           faults' \in 0..MaxFaults,
           \/ Holding' \subseteq Holding /\ Nested' \subseteq Nested
           \/ FreeConn /\ \E c : Holding' \subseteq Holding \cup {c} /\ Nested' \subseteq Nested
           \/ FreeConn /\ \E c : Holding' \subseteq Holding /\ Nested' \subseteq Nested \cup {c},
           \A k \in Keys :
             \/ /\ Offered(k)' \subseteq Offered(k) /\ reclaimed[k] <= reclaimed'[k]
                /\ keyRow'[k] = 0 => keyRow[k] = 0 \/ reclaimed[k] < reclaimed'[k]
             \/ /\ \E x : Offered(k)' \subseteq Offered(k) \cup {x}
                /\ keyRow[k] = 0 /\ keyRow'[k] # 0 /\ reclaimed'[k] = reclaimed[k]
    PROVE  DoInv'
  <1>1. Cardinality(Holding') + Cardinality(Nested') <= maxConns
    BY ConnectionsKept DEF DoInv, TypeOK
  <1>2. TypeOK'
    BY <1>1 DEF TypeOK, IInv, Typed
  <1>3. keyRow' \in [Keys -> Nat] /\ reclaimed' \in [Keys -> Nat]
    BY DEF IInv, Typed
  <1>4. AnswersBounded'
    BY <1>3, AnswersKept
  <1>5. QED BY <1>2, <1>4 DEF DoInv

\* Callers that wait, claim or load: only a caller that begins takes a connection,
\* and a loaded result is the one the row offers.
LEMMA MoveDoInv ==
    ASSUME DoInv, IInv', NEW c \in Callers,
           Begin(c) \/ Claim(c) \/ Load(c) \/ LoadMissing(c) \/ FnBegin(c) \/ \E k \in Keys : Do(c, k)
    PROVE  DoInv'
  <1> USE DEF DoInv, IInv, Typed, TypeOK
  <1>1. UNCHANGED <<keyRow, effects, replies, reclaimed, faults>> /\ \A d \in Callers \ {c} : call'[d] = call[d]
    BY DEF Begin, Claim, Load, LoadMissing, FnBegin, Do
  <1>2. \/ Holding' \subseteq Holding /\ Nested' \subseteq Nested
        \/ FreeConn /\ \E d : Holding' \subseteq Holding \cup {d} /\ Nested' \subseteq Nested
        \/ FreeConn /\ \E d : Holding' \subseteq Holding /\ Nested' \subseteq Nested \cup {d}
    <2>1. CASE Begin(c)
      <3>1. call[c].pc = "begin" /\ call'[c].pc = "insert" /\ FreeConn
        BY <2>1 DEF Begin
      <3>2. Holding' \subseteq Holding \cup {c} /\ Nested' \subseteq Nested
        BY <1>1, <3>1 DEF Holding, Nested
      <3>3. QED BY <3>1, <3>2
    <2>2. CASE FnBegin(c)
      <3>1. call[c].pc = "run" /\ call'[c].pc = "effect" /\ FreeConn
        BY <2>2 DEF FnBegin
      <3>2. Holding' \subseteq Holding /\ Nested' \subseteq Nested \cup {c}
        BY <1>1, <3>1 DEF Holding, Nested
      <3>3. QED BY <3>1, <3>2
    <2>3. CASE Claim(c) \/ Load(c) \/ LoadMissing(c) \/ \E k \in Keys : Do(c, k)
      <3>1. /\ call'[c].pc \in {"begin", "idle", "run", "conflict", "reply"}
            /\ call'[c].pc \in {"run", "conflict"} => call[c].pc = "insert"
        BY <2>3 DEF Claim, Load, LoadMissing, Do, Idle
      <3>2. Holding' \subseteq Holding /\ Nested' \subseteq Nested
        BY <1>1, <3>1 DEF Holding, Nested
      <3>3. QED BY <3>2
    <2>4. QED BY <2>1, <2>2, <2>3
  <1>3. call'[c].pc = "reply" => /\ call'[c].key \in Keys /\ keyRow[call'[c].key] # 0
                                 /\ call'[c].result = keyRow[call'[c].key]
    BY DEF Begin, Claim, Load, LoadMissing, FnBegin, Do, Idle
  <1>4. \A k \in Keys : Offered(k)' \subseteq Offered(k) /\ reclaimed[k] <= reclaimed'[k]
    BY <1>1, <1>3 DEF Offered
  <1>5. QED BY <1>1, <1>2, <1>4, DoInvKept

\* The effects are committed: the second connection is given back.
LEMMA FnCommitDoInv ==
    ASSUME DoInv, IInv', NEW c \in Callers, FnCommit(c)
    PROVE  DoInv'
  <1> USE DEF DoInv, IInv, Typed, TypeOK
  <1>1. /\ UNCHANGED <<keyRow, replies, reclaimed, faults>> /\ \A d \in Callers \ {c} : call'[d] = call[d]
        /\ call[c].pc = "effect" /\ call'[c].pc = "ran"
    BY DEF FnCommit
  <1>2. Holding' \subseteq Holding /\ Nested' \subseteq Nested
    BY <1>1 DEF Holding, Nested
  <1>3. \A k \in Keys : Offered(k)' \subseteq Offered(k) /\ reclaimed[k] <= reclaimed'[k]
    BY <1>1 DEF Offered
  <1>4. QED BY <1>1, <1>2, <1>3, DoInvKept

\* A key is recorded, by a caller that answers or by one whose answer is lost; or a
\* call fails and records nothing.
LEMMA RecordDoInv ==
    ASSUME DoInv, IInv', NEW c \in Callers, Record(c) \/ \E landed \in BOOLEAN : Fail(c, landed)
    PROVE  DoInv'
  <1> USE DEF DoInv, IInv, Typed, TypeOK
  <1>0. PICK k, x : k = call[c].key /\ x = call[c].result
    OBVIOUS
  <1>1. /\ UNCHANGED <<replies, reclaimed>> /\ \A d \in Callers \ {c} : call'[d] = call[d]
        /\ call'[c].pc \in {"reply", "idle"} /\ call[c].pc # "idle"
    BY DEF Record, Fail, Idle
  <1>2. faults' \in 0..MaxFaults
    BY IdempotencyAssumption DEF Record, Fail
  <1>3. Holding' \subseteq Holding /\ Nested' \subseteq Nested
    BY <1>1 DEF Holding, Nested
  <1>4. CASE keyRow' = keyRow /\ call'[c].pc = "idle"
    <2>1. \A i \in Keys : Offered(i)' \subseteq Offered(i) /\ reclaimed[i] <= reclaimed'[i]
      BY <1>1, <1>4 DEF Offered
    <2>2. QED BY <1>1, <1>2, <1>3, <1>4, <2>1, DoInvKept
  <1>5. CASE /\ call[c].pc = "ran" /\ keyRow' = [keyRow EXCEPT ![k] = x]
             /\ call'[c].pc = "reply" => call'[c].key = k /\ call'[c].result = x
    <2>1. k \in Keys /\ keyRow[k] = 0 /\ keyRow'[k] = x /\ x # 0
      BY <1>0, <1>5 DEF ClaimedIsUnrecorded, RanHasResult, Claiming
    <2>2. Offered(k)' \subseteq Offered(k) \cup {x}
      BY <1>1, <1>5, <2>1 DEF Offered
    <2>3. \A i \in Keys \ {k} : keyRow'[i] = keyRow[i] /\ Offered(i)' \subseteq Offered(i)
      BY <1>1, <1>5, <2>1 DEF Offered
    <2>4. \A i \in Keys : reclaimed'[i] = reclaimed[i] /\ reclaimed[i] <= reclaimed'[i]
      BY <1>1
    <2>5. ASSUME NEW i \in Keys
          PROVE  \/ /\ Offered(i)' \subseteq Offered(i) /\ reclaimed[i] <= reclaimed'[i]
                    /\ keyRow'[i] = 0 => keyRow[i] = 0 \/ reclaimed[i] < reclaimed'[i]
                 \/ /\ \E y : Offered(i)' \subseteq Offered(i) \cup {y}
                    /\ keyRow[i] = 0 /\ keyRow'[i] # 0 /\ reclaimed'[i] = reclaimed[i]
      <3>1. CASE i = k
        BY <2>1, <2>2, <2>4, <3>1
      <3>2. CASE i # k
        BY <2>3, <2>4, <3>2
      <3>3. QED BY <3>1, <3>2
    <2>6. replies' \in [Keys -> SUBSET Nat] /\ reclaimed' \in [Keys -> 0..MaxReclaims]
      BY <1>1
    <2>7. QED BY <1>2, <1>3, <2>5, <2>6, DoInvKept
  <1>6. QED BY <1>0, <1>4, <1>5 DEF Record, Fail, Idle

\* The answer was offered already.
LEMMA AnswerDoInv ==
    ASSUME DoInv, IInv', NEW c \in Callers, Answer(c)
    PROVE  DoInv'
  <1> USE DEF DoInv, IInv, Typed, TypeOK
  <1> DEFINE k == call[c].key
             x == call[c].result
  <1>1. /\ UNCHANGED <<keyRow, reclaimed, faults>> /\ \A d \in Callers \ {c} : call'[d] = call[d]
        /\ call'[c].pc = "idle" /\ call[c].pc = "reply" /\ replies' = [replies EXCEPT ![k] = @ \cup {x}]
    BY DEF Answer, Idle
  <1>2. k \in Keys /\ x \in Nat
    BY <1>1
  <1>3. Holding' \subseteq Holding /\ Nested' \subseteq Nested
    BY <1>1 DEF Holding, Nested
  <1>4. x \in Offered(k)
    BY <1>1 DEF Offered
  <1>5. replies' \in [Keys -> SUBSET Nat]
    BY <1>1, <1>2
  <1>6. \A i \in Keys : Offered(i)' \subseteq Offered(i) /\ reclaimed[i] <= reclaimed'[i]
    BY <1>1, <1>2, <1>4 DEF Offered
  <1>7. QED BY <1>1, <1>3, <1>5, <1>6, DoInvKept

\* A sweep makes room for one more result of the key it removes.
LEMMA SweepDoInv ==
    ASSUME DoInv, IInv', NEW k \in Keys, Sweep(k)
    PROVE  DoInv'
  <1> USE DEF DoInv, IInv, Typed, TypeOK
  <1>1. /\ UNCHANGED <<call, effects, replies, faults>> /\ keyRow' = [keyRow EXCEPT ![k] = 0]
        /\ reclaimed[k] < MaxReclaims /\ reclaimed' = [reclaimed EXCEPT ![k] = @ + 1]
    BY DEF Sweep
  <1>2. Holding' = Holding /\ Nested' = Nested
    BY <1>1 DEF Holding, Nested
  <1>3. reclaimed' \in [Keys -> 0..MaxReclaims] /\ reclaimed[k] < reclaimed'[k]
    BY <1>1, IdempotencyAssumption
  <1>4. \A i \in Keys : Offered(i)' \subseteq Offered(i) /\ reclaimed[i] <= reclaimed'[i]
    BY <1>1, <1>3 DEF Offered
  <1>5. \A i \in Keys : keyRow'[i] = 0 => keyRow[i] = 0 \/ reclaimed[i] < reclaimed'[i]
    BY <1>1, <1>3
  <1>6. QED BY <1>1, <1>2, <1>3, <1>4, <1>5, DoInvKept

LEMMA InitDoInv == Init => DoInv
  <1> SUFFICES ASSUME Init PROVE DoInv
    OBVIOUS
  <1>1. Holding = {} /\ Nested = {} /\ \A k \in Keys : Offered(k) = {}
    BY DEF Init, Holding, Nested, Offered, Idle
  <1>2. Cardinality({}) = 0 /\ IsFiniteSet({})
    BY FS_EmptySet
  <1>3. IInv /\ keyRow \in [Keys -> Nat] /\ call \in [Callers -> [pc : Pcs, key : Keys \cup {NoKey}, result : Nat]]
    BY InitIInv DEF IInv, Typed
  <1>4. TypeOK
    BY <1>1, <1>2, <1>3, IdempotencyAssumption DEF Init, TypeOK
  <1>5. AnswersBounded
    BY <1>1, <1>2 DEF Init, AnswersBounded
  <1>6. QED BY <1>3, <1>4, <1>5 DEF DoInv

LEMMA NextDoInv == DoInv /\ [Next]_vars => DoInv'
  <1> SUFFICES ASSUME DoInv, [Next]_vars PROVE DoInv'
    OBVIOUS
  <1>1. IInv'
    BY NextIInv DEF DoInv
  <1>2. ASSUME NEW c \in Callers, Progress(c) PROVE DoInv'
    BY <1>1, <1>2, MoveDoInv, FnCommitDoInv, RecordDoInv, AnswerDoInv DEF Progress
  <1>3. ASSUME NEW c \in Callers, NEW k \in Keys, Do(c, k) PROVE DoInv'
    BY <1>1, <1>3, MoveDoInv
  <1>4. ASSUME NEW c \in Callers, NEW landed \in BOOLEAN, Fail(c, landed) PROVE DoInv'
    BY <1>1, <1>4, RecordDoInv
  <1>5. ASSUME NEW k \in Keys, Sweep(k) PROVE DoInv'
    BY <1>1, <1>5, SweepDoInv
  <1>6. CASE UNCHANGED vars
    <2>1. Holding' = Holding /\ Nested' = Nested /\ \A k \in Keys : Offered(k)' = Offered(k)
      BY <1>6 DEF vars, Holding, Nested, Offered
    <2>2. QED BY <1>1, <1>6, <2>1 DEF vars, DoInv, TypeOK, AnswersBounded
  <1>7. QED BY <1>2, <1>3, <1>4, <1>5, <1>6 DEF Next

\* Between two sweeps of idemgc a key has one answer: the effects of fn may be
\* committed twice after a failure, but no two callers are told different results.
THEOREM AnswersAgree == Spec => []OneAnswerPerKey
  <1>1. DoInv => OneAnswerPerKey
    <2> SUFFICES ASSUME DoInv, NEW k \in Keys PROVE Cardinality(replies[k]) <= 1 + reclaimed[k]
      BY DEF OneAnswerPerKey
    <2> DEFINE n == reclaimed[k] + (IF keyRow[k] = 0 THEN 0 ELSE 1)
    <2>1. reclaimed[k] \in Nat /\ IsFiniteSet(Offered(k)) /\ Cardinality(Offered(k)) <= n /\ replies[k] \subseteq Offered(k)
      BY DEF DoInv, IInv, Typed, AnswersBounded, Offered
    <2>2. n \in Nat /\ n <= 1 + reclaimed[k] /\ 1 + reclaimed[k] \in Nat
      BY <2>1
    <2> HIDE DEF n
    <2>3. QED BY <2>1, <2>2, FewerBounded
  <1>2. QED BY <1>1, InitDoInv, NextDoInv, PTL DEF Spec

\* Calls of Do and the transactions of fn inside them never hold more connections
\* than the pgx pool has.
LEMMA DoTypeCorrect == Spec => []TypeOK
  <1>1. DoInv => TypeOK
    BY DEF DoInv
  <1>2. QED BY <1>1, InitDoInv, NextDoInv, PTL DEF Spec

-----------------------------------------------------------------------------
(* The pool *)

\* A worker that runs has a task to run.
RunsATask == \A w \in Workers : worker[w].pc = "run" => worker[w].task \in Tasks

\* A worker leaves a closed and empty channel only; Close returns after all have.
DrainOrder ==
    /\ (\E w \in Workers : worker[w].pc = "gone") => closed /\ queue = <<>>
    /\ closer # "no" => closed
    /\ closer = "returned" => \A w \in Workers : worker[w].pc = "gone"

PoolInv == PoolTypeOK /\ RunsATask /\ DrainOrder /\ Conserved

\* Some tasks run, and a worker that begins or ends one changes their number by one.
LEMMA RunningGrows ==
    ASSUME NEW w \in Workers, w \notin Running, Running' = Running \cup {w}
    PROVE  Cardinality(Running') = Cardinality(Running) + 1 /\ Cardinality(Running) \in Nat
<1>1. IsFiniteSet(Running)
  BY BulkheadAssumption, FS_Subset DEF Running
<1>2. QED
  BY <1>1, FS_AddElement, FS_CardinalityType

LEMMA RunningShrinks ==
    ASSUME NEW w \in Workers, w \in Running, Running' = Running \ {w}
    PROVE  Cardinality(Running') = Cardinality(Running) - 1 /\ Cardinality(Running) \in Nat
<1>1. IsFiniteSet(Running)
  BY BulkheadAssumption, FS_Subset DEF Running
<1>2. QED
  BY <1>1, FS_RemoveElement, FS_CardinalityType

\* A new pool is empty and counts nothing.
LEMMA PoolInitInv == PoolInit => PoolInv
<1> SUFFICES ASSUME PoolInit PROVE PoolInv
  OBVIOUS
<1> USE DEF PoolInit, Loop
<1>1. Running = {} /\ Cardinality(Running) = 0
  BY FS_EmptySet DEF Running
<1>2. PoolTypeOK
  <2>1. queue \in Seq(Tasks) /\ Len(queue) = 0
    OBVIOUS
  <2>2. Loop \in [pc : {"loop", "receive", "run", "gone"}, task : Tasks \cup {NoTask}]
    OBVIOUS
  <2>3. worker \in [Workers -> [pc : {"loop", "receive", "run", "gone"}, task : Tasks \cup {NoTask}]]
    BY <2>2
  <2>4. task \in [Tasks -> {"new", "accepted", "done", "rejected"}]
    OBVIOUS
  <2>5. 0 <= Queue /\ closer \in {"no", "waiting", "returned"}
    BY BulkheadAssumption
  <2>5a. closed \in BOOLEAN
    BY Zenon
  <2>6. /\ submitted \in Nat /\ completed \in Nat /\ panicked \in Nat
        /\ counting \in Tasks \cup {NoTask}
    OBVIOUS
  <2>7. QED
    BY ONLY <2>1, <2>3, <2>4, <2>5, <2>5a, <2>6 DEF PoolTypeOK
<1>3. QED
  BY <1>1, <1>2 DEF PoolInv, RunsATask, DrainOrder, Conserved

\* Submit hands a task to a waiting worker, buffers it, or refuses it.
LEMMA SubmitInv ==
    ASSUME PoolInv, NEW t \in Tasks, Submit(t)
    PROVE  PoolInv'
<1> USE DEF PoolInv, PoolTypeOK
<1>1. ASSUME NEW w \in Workers, SubmitToWorker(t, w) PROVE PoolInv'
  <2> USE <1>1, BulkheadAssumption DEF SubmitToWorker, Accept, MutexFree, Receiving
  <2>1. PoolTypeOK' /\ RunsATask' /\ DrainOrder'
    BY DEF RunsATask, DrainOrder
  <2>2. w \notin Running /\ Running' = Running \cup {w}
    BY DEF Running
  <2>3. Cardinality(Running') = Cardinality(Running) + 1 /\ Cardinality(Running) \in Nat
    BY ONLY <2>2, RunningGrows, w \in Workers
  <2>4. Conserved'
    BY <2>3 DEF Conserved
  <2>5. QED
    BY <2>1, <2>4
<1>2. ASSUME SubmitToQueue(t) PROVE PoolInv'
  <2> USE <1>2, BulkheadAssumption DEF SubmitToQueue, Accept, MutexFree
  <2>1. queue' \in Seq(Tasks) /\ Len(queue') = Len(queue) + 1 /\ Len(queue) \in Nat
    OBVIOUS
  <2>2. PoolTypeOK' /\ RunsATask' /\ DrainOrder'
    BY <2>1, BulkheadAssumption DEF RunsATask, DrainOrder
  <2>3. Running' = Running /\ Cardinality(Running) \in Nat
    BY BulkheadAssumption, FS_Subset, FS_CardinalityType DEF Running
  <2>4. Conserved'
    BY <2>1, <2>3 DEF Conserved
  <2>5. QED
    BY <2>2, <2>4
<1>3. ASSUME SubmitRejected(t) PROVE PoolInv'
  BY <1>3 DEF SubmitRejected, RunsATask, DrainOrder, Conserved, Running
<1>4. QED
  BY <1>1, <1>2, <1>3 DEF Submit

\* The task sent last is counted, whatever the workers have done with it by then.
LEMMA CountedInv ==
    ASSUME PoolInv, SubmitCounted
    PROVE  PoolInv'
<1> USE DEF PoolInv, PoolTypeOK, SubmitCounted
<1>1. PoolTypeOK' /\ RunsATask' /\ DrainOrder'
  BY DEF RunsATask, DrainOrder
<1>2. Running' = Running
  BY DEF Running
<1>3. Conserved'
  BY <1>2 DEF Conserved
<1>4. QED
  BY <1>1, <1>3

\* A worker's loop: what leaves the buffer is running, and what ran is counted.
LEMMA WorkerInv ==
    ASSUME PoolInv, NEW w \in Workers,
           Take(w) \/ Block(w) \/ Exit(w) \/ \E panics \in BOOLEAN : Finish(w, panics)
    PROVE  PoolInv'
<1> USE DEF PoolInv, PoolTypeOK
<1>1. ASSUME Take(w) PROVE PoolInv'
  <2> USE <1>1 DEF Take
  <2>1. /\ queue' \in Seq(Tasks) /\ Head(queue) \in Tasks
        /\ Len(queue') = Len(queue) - 1 /\ Len(queue) \in Nat
    OBVIOUS
  <2>2. PoolTypeOK' /\ RunsATask' /\ DrainOrder'
    BY <2>1, BulkheadAssumption DEF RunsATask, DrainOrder
  <2>3. w \notin Running /\ Running' = Running \cup {w}
    BY DEF Running
  <2>4. Cardinality(Running') = Cardinality(Running) + 1 /\ Cardinality(Running) \in Nat
    BY ONLY <2>3, RunningGrows, w \in Workers
  <2>5. Conserved'
    BY <2>1, <2>4 DEF Conserved
  <2>6. QED
    BY <2>2, <2>5
<1>2. ASSUME Block(w) \/ Exit(w) PROVE PoolInv'
  <2> USE <1>2 DEF Block, Exit
  <2>1. PoolTypeOK' /\ RunsATask' /\ DrainOrder'
    BY DEF RunsATask, DrainOrder
  <2>2. Running' = Running
    BY DEF Running
  <2>3. QED
    BY <2>1, <2>2 DEF Conserved
<1>3. ASSUME NEW panics \in BOOLEAN, Finish(w, panics) PROVE PoolInv'
  <2> USE <1>3 DEF Finish, Loop
  <2>1. PoolTypeOK' /\ RunsATask' /\ DrainOrder'
    BY DEF RunsATask, DrainOrder
  <2>2. w \in Running /\ Running' = Running \ {w}
    BY DEF Running
  <2>3. completed' + panicked' = completed + panicked + 1
    OBVIOUS
  <2>4. Cardinality(Running') = Cardinality(Running) - 1 /\ Cardinality(Running) \in Nat
    BY ONLY <2>2, RunningShrinks, w \in Workers
  <2>5. Conserved'
    BY <2>3, <2>4 DEF Conserved
  <2>6. QED
    BY <2>1, <2>5
<1>4. QED
  BY <1>1, <1>2, <1>3

\* Close waits for the workers and touches no task.
LEMMA CloseInv ==
    ASSUME PoolInv, Close \/ CloseReturns
    PROVE  PoolInv'
<1>1. Running' = Running
  BY DEF Close, CloseReturns, Running
<1>2. QED
  BY <1>1, BulkheadAssumption
  DEF PoolInv, PoolTypeOK, RunsATask, DrainOrder, Conserved, Close, CloseReturns

LEMMA PoolNextInv == PoolInv /\ [PoolNext]_poolVars => PoolInv'
<1> SUFFICES ASSUME PoolInv, [PoolNext]_poolVars PROVE PoolInv'
  OBVIOUS
<1>1. CASE UNCHANGED poolVars
  BY <1>1 DEF poolVars, PoolInv, PoolTypeOK, RunsATask, DrainOrder, Conserved, Running
<1>2. QED
  BY <1>1, SubmitInv, CountedInv, WorkerInv, CloseInv DEF PoolNext

LEMMA PoolInvariant == PoolSpec => []PoolInv
  BY PoolInitInv, PoolNextInv, PTL DEF PoolSpec

-----------------------------------------------------------------------------
(* The composition.  A step of ServingNext is a step of the pool, a step of *)
(* Idempotency, or both, and leaves the other component alone.              *)

LEMMA ServingNextPool == [ServingNext]_allVars => [PoolNext]_poolVars
<1> SUFFICES ASSUME [ServingNext]_allVars PROVE [PoolNext]_poolVars
  OBVIOUS
<1>1. ASSUME NEW r \in Tasks, Arrive(r) PROVE PoolNext
  BY <1>1 DEF Arrive, PoolNext
<1>1a. Arrived => PoolNext
  BY DEF Arrived, PoolNext
<1>2. ASSUME NEW c \in Callers, Fetch(c) PROVE PoolNext
  BY <1>2, ServingAssumption DEF Fetch, PoolNext
<1>3. ASSUME NEW c \in Callers, NEW panics \in BOOLEAN, Return(c, panics) PROVE PoolNext
  BY <1>3, ServingAssumption DEF Return, PoolNext
<1>4. ASSUME NEW c \in Callers, Serve(c) PROVE UNCHANGED poolVars
  BY <1>4 DEF Serve
<1>5. Database \/ UNCHANGED allVars => UNCHANGED poolVars
  BY DEF Database, allVars
<1>6. Shutdown => PoolNext
  BY DEF Shutdown, PoolNext
<1>7. QED
  BY <1>1, <1>1a, <1>2, <1>3, <1>4, <1>5, <1>6 DEF ServingNext

LEMMA ServingNextDo == PoolInv /\ [ServingNext]_allVars => [Next]_vars
<1> SUFFICES ASSUME PoolInv, [ServingNext]_allVars PROVE [Next]_vars
  OBVIOUS
<1>1. ASSUME NEW r \in Tasks, Arrive(r) PROVE UNCHANGED vars
  BY <1>1 DEF Arrive
<1>1a. Arrived => UNCHANGED vars
  BY DEF Arrived
<1>2. ASSUME NEW c \in Callers, Fetch(c) PROVE UNCHANGED vars
  BY <1>2 DEF Fetch
<1>3. ASSUME NEW c \in Callers, NEW panics \in BOOLEAN, Return(c, panics) PROVE UNCHANGED vars
  BY <1>3 DEF Return
<1>4. ASSUME NEW c \in Callers, Serve(c) PROVE Next
  <2>1. keyOf[worker[c].task] \in Keys
    BY <1>4, ServingAssumption DEF Serve, PoolInv, RunsATask
  <2>2. QED
    BY <1>4, <2>1 DEF Serve, Next
<1>5. Database => Next
  BY DEF Database, Next
<1>6. Shutdown \/ UNCHANGED allVars => UNCHANGED vars
  BY DEF Shutdown, allVars
<1>7. QED
  BY <1>1, <1>1a, <1>2, <1>3, <1>4, <1>5, <1>6 DEF ServingNext

\* Serving requests through the pool leaves both components their behaviours: the
\* composed system implements the bulkhead and Idempotency.Do as they were specified
\* on their own, with the handler's wait and the shutdown in between.
THEOREM ServingImplements == ServingSpec => PoolSpec /\ Spec
<1>1. ServingInit => PoolInit /\ Init
  BY DEF ServingInit
<1>2. ServingSpec => PoolSpec
  BY <1>1, ServingNextPool, PTL DEF ServingSpec, PoolSpec
<1>3. ServingSpec => []PoolInv
  BY <1>2, PoolInvariant, PTL
<1>4. ServingSpec => Spec
  BY <1>1, <1>3, ServingNextDo, PTL DEF ServingSpec, Spec
<1>5. QED
  BY <1>2, <1>4, PTL

\* The counters of the pool account for every accepted task but the one a Submit has
\* sent and not counted yet, for any number of workers and any queue, through panics,
\* sheds and the drain of Close.
THEOREM TasksAreConserved == ServingSpec => []Conserved
<1>1. PoolInv => Conserved
  BY DEF PoolInv
<1>2. QED
  BY <1>1, PoolInvariant, ServingImplements, PTL

\* Close returns on a drained pool: no accepted task is left in the channel or running.
THEOREM CloseDrains == ServingSpec => []ClosedIsDrained
<1>1. PoolInv => ClosedIsDrained
  BY BulkheadAssumption DEF PoolInv, DrainOrder, ClosedIsDrained, Running
<1>2. QED
  BY <1>1, PoolInvariant, ServingImplements, PTL

\* A key has one runner at a time also when the callers are a pool's workers.
THEOREM ServedKeyExcludes == ServingSpec => []OneRunner
  BY ServingImplements, KeyExcludes, PTL

\* Callers of a key are told one result between two sweeps also when they are workers.
THEOREM ServedAnswersAgree == ServingSpec => []OneAnswerPerKey
  BY ServingImplements, AnswersAgree, PTL

\* The queue stays within its capacity and the connections in use within those of the
\* pool, for any number of workers, requests, failures and panics.
THEOREM ServingTypeCorrect == ServingSpec => []ServingTypeOK
<1>1. PoolInv => PoolTypeOK
  BY DEF PoolInv
<1>2. PoolTypeOK /\ TypeOK => ServingTypeOK
  BY DEF ServingTypeOK
<1>3. QED
  BY <1>1, <1>2, PoolInvariant, DoTypeCorrect, ServingImplements, PTL

\* A call of Do belongs to the request its worker runs, by a step of either component.
LEMMA CallsNext ==
    ASSUME PoolInv, IInv, CallsAreRequests, [ServingNext]_allVars
    PROVE  CallsAreRequests'
<1> USE ServingAssumption DEF PoolInv, PoolTypeOK, CallsAreRequests
<1>1. ASSUME NEW r \in Tasks, Arrive(r) PROVE CallsAreRequests'
  BY <1>1 DEF Arrive, vars, Submit, SubmitToQueue, SubmitRejected, SubmitToWorker, Receiving
<1>1a. Arrived => CallsAreRequests'
  BY DEF Arrived, vars, SubmitCounted
<1>2. ASSUME NEW c \in Callers, Fetch(c) PROVE CallsAreRequests'
  BY <1>2 DEF Fetch, vars, Take, Block, Exit
<1>3. ASSUME NEW c \in Callers, NEW panics \in BOOLEAN, Return(c, panics) PROVE CallsAreRequests'
  BY <1>3 DEF Return, vars, Finish
<1>4. ASSUME NEW c \in Callers, Serve(c) PROVE CallsAreRequests'
  BY <1>4 DEF Serve, poolVars, Do, IInv, Typed
<1>5. ASSUME NEW c \in Callers, Progress(c), UNCHANGED poolVars PROVE CallsAreRequests'
  <2>1. \A d \in Callers \ {c} : call'[d] = call[d]
    BY <1>5 DEF Progress, IInv, Typed, Begin, Claim, Load, LoadMissing, FnBegin, FnCommit,
       Record, Answer
  <2>2. call[c].pc # "idle"
    BY <1>5 DEF Progress, Begin, Claim, Load, LoadMissing, FnBegin, FnCommit, Record, Answer
  <2>3. call'[c].pc # "idle" => call'[c].key = call[c].key
    <3>1. CASE LoadMissing(c) \/ Answer(c)
      BY <3>1 DEF IInv, Typed, LoadMissing, Answer, Idle
    <3>2. CASE Begin(c) \/ Claim(c) \/ FnBegin(c) \/ FnCommit(c) \/ Record(c)
      BY <3>2 DEF IInv, Typed, Begin, Claim, FnBegin, FnCommit, Record
    <3>3. CASE Load(c)
      BY <3>3 DEF IInv, Typed, Load
    <3>4. QED
      BY <1>5, <3>1, <3>2, <3>3 DEF Progress
  <2>4. QED
    BY <1>5, <2>1, <2>2, <2>3 DEF poolVars
<1>6. ASSUME NEW c \in Callers, NEW landed \in BOOLEAN, Fail(c, landed), UNCHANGED poolVars
      PROVE  CallsAreRequests'
  BY <1>6 DEF poolVars, IInv, Typed, Idle, Fail
<1>7. ASSUME NEW k \in Keys, Sweep(k), UNCHANGED poolVars PROVE CallsAreRequests'
  BY <1>7 DEF poolVars, Sweep
<1>8. Database => CallsAreRequests'
  BY <1>5, <1>6, <1>7 DEF Database
<1>9. CASE Shutdown \/ UNCHANGED allVars
  BY <1>9 DEF Shutdown, allVars, vars, poolVars, Close, CloseReturns
<1>10. QED
  BY <1>1, <1>1a, <1>2, <1>3, <1>4, <1>8, <1>9 DEF ServingNext

\* Whoever is inside Do is a worker of the pool that runs a request with that key, so
\* the pool bounds the calls of Do and Close waits for them.
THEOREM CallsBelongToRequests == ServingSpec => []CallsAreRequests
<1>1. ServingInit => CallsAreRequests
  BY DEF ServingInit, Init, Idle, CallsAreRequests
<1>2. Spec => []IInv
  BY InitIInv, NextIInv, PTL DEF Spec
<1>3. QED
  BY <1>1, <1>2, CallsNext, PoolInvariant, ServingImplements, PTL DEF ServingSpec

=============================================================================
