--------------------------- MODULE ApprovalsProofs ----------------------------
(***************************************************************************)
(* Theorems about Approvals, for every finite set of principals, every set *)
(* of targets and concurrent requests, every number of approvals required  *)
(* and of privacy rewrites.                                                *)
(***************************************************************************)
EXTENDS Approvals, FiniteSetTheorems, TLAPS

\* The approvals A of a target are enough for p, by persons or because pseudonyms
\* stand among them (DualControl says this of every performed action).
Enough(A, p) ==
    \/ Cardinality({n.who : n \in A} \ {p}) >= Required
    \/ \E n \in A : n.who = p /\ n.as # "plain"
    \/ \E m, n \in A : m # n /\ m.who = n.who

\* A request the gate has let through: its target has the approvals it needs.
AllowedCounted ==
    \A t \in Threads : thread[t].pc = "allowed" => Enough(approvals[thread[t].target], thread[t].who)

GateInv == TypeOK /\ AllowedCounted /\ DualControl

\* An idle request has no principal and no target.
LEMMA IdleType == Idle \in [pc : Pcs, who : Principals \cup {NoOne}, target : Targets \cup {NoTarget}] /\ Idle.pc = "idle"
BY DEF Idle, Pcs

\* The persons behind any approvals, and the approvals, are finitely many.
LEMMA PersonsFinite ==
    ASSUME NEW A \in SUBSET Names, NEW p
    PROVE  IsFiniteSet({n.who : n \in A} \ {p}) /\ Cardinality({n.who : n \in A} \ {p}) \in Nat
<1>1. {n.who : n \in A} \ {p} \subseteq Principals
  BY DEF Names
<1> QED
  BY <1>1, FS_Subset, FS_CardinalityType, ApprovalsAssumption

\* What the gate counts are names.  If none of them hides the asker and no two are
\* one person's, the names are as many as the persons.
LEMMA NamesArePersons ==
    ASSUME NEW A \in SUBSET Names, NEW p \in Principals, Cardinality(A \ {Name(p)}) >= Required
    PROVE  Enough(A, p)
<1> SUFFICES ASSUME \A n \in A : n.who = p => n.as = "plain",
                    \A m, n \in A : m.who = n.who => m = n
             PROVE  Cardinality({n.who : n \in A} \ {p}) >= Required
  BY DEF Enough
<1> DEFINE S == A \ {Name(p)}
           T == {n.who : n \in A} \ {p}
           f == [n \in S |-> n.who]
<1>1. \A n \in S : n.who # p
  BY DEF Name, Names
<1>2. f \in [S -> T]
  BY <1>1
<1>3. f \in Injection(S, T)
  BY <1>2 DEF Injection, IsInjective
<1>4. IsFiniteSet(T) /\ Cardinality(T) \in Nat
  BY PersonsFinite
<1> HIDE DEF S, T, f
<1>5. IsFiniteSet(S) /\ Cardinality(S) <= Cardinality(T)
  BY <1>3, <1>4, FS_Injection
<1>6. Cardinality(S) \in Nat
  BY <1>5, FS_CardinalityType
<1>7. Cardinality(S) >= Required
  BY DEF S
<1>8. Cardinality(T) >= Required
  BY <1>4, <1>5, <1>6, <1>7, ApprovalsAssumption
<1> QED
  BY <1>8 DEF T

\* Approvals are renamed, never taken back or merged, and no pseudonym is undone: what
\* was enough stays enough.
LEMMA EnoughStays ==
    ASSUME NEW A \in SUBSET Names, NEW B \in SUBSET Names, NEW g \in [Names -> Names], NEW p,
           \A n \in A : g[n] \in B /\ g[n].who = n.who /\ (n.as # "plain" => g[n].as # "plain"),
           \A m, n \in A : g[m] = g[n] => m = n,
           Enough(A, p)
    PROVE  Enough(B, p)
<1>1. CASE Cardinality({n.who : n \in A} \ {p}) >= Required
  <2> DEFINE S == {n.who : n \in A} \ {p}
             T == {n.who : n \in B} \ {p}
  <2>1. S \subseteq T
    OBVIOUS
  <2>2. IsFiniteSet(T) /\ Cardinality(T) \in Nat /\ Cardinality(S) \in Nat
    BY PersonsFinite
  <2> HIDE DEF S, T
  <2>3. Cardinality(S) <= Cardinality(T)
    BY <2>1, <2>2, FS_Subset
  <2>4. Cardinality(S) >= Required
    BY <1>1 DEF S
  <2>5. Cardinality(T) >= Required
    BY <2>2, <2>3, <2>4, ApprovalsAssumption
  <2> QED
    BY <2>5 DEF T, Enough
<1>2. CASE \E n \in A : n.who = p /\ n.as # "plain"
  BY <1>2 DEF Enough
<1>3. CASE \E m, n \in A : m # n /\ m.who = n.who
  <2>1. PICK m \in A, n \in A : m # n /\ m.who = n.who
    BY <1>3
  <2>2. g[m] \in B /\ g[n] \in B /\ g[m] # g[n] /\ g[m].who = g[n].who
    BY <2>1
  <2> QED
    BY <2>2 DEF Enough
<1> QED
  BY <1>1, <1>2, <1>3 DEF Enough

-----------------------------------------------------------------------------
(* The privacy rewrites *)

\* A pseudonym stands for the person whose name it replaces.
Pseudonyms(name) ==
    /\ name \in [Targets -> [Names -> Names]]
    /\ \A x \in Targets : \A n \in Names :
         name[x][n].who = n.who /\ (n.as # "plain" => name[x][n].as # "plain")

LEMMA RetainedType ==
    ASSUME NEW n \in Names
    PROVE  Retained(n) \in Names /\ Retained(n).who = n.who /\ Retained(n).as # "plain"
BY DEF Retained, Names

\* Both projections rewrite names by pseudonyms of the same persons, in the approvals
\* and in the requester.
LEMMA RewritesAreRenamings ==
    ASSUME TypeOK,
           \/ \E xs \in SUBSET opened : \E rows \in Aged(xs) : Retain(xs, rows)
           \/ \E p \in Principals, asked, approved \in SUBSET opened : Erase(p, asked, approved)
    PROVE  /\ \E name : Pseudonyms(name) /\ Rewrite(name)
           /\ requester' \in [Targets -> Names \cup {NoOne}]
           /\ \A x \in Targets : requester[x] # NoOne => requester'[x] # NoOne /\ requester'[x].who = requester[x].who
<1>1. ASSUME NEW xs \in SUBSET opened, NEW rows \in Aged(xs), Retain(xs, rows)
      PROVE  /\ \E name : Pseudonyms(name) /\ Rewrite(name)
             /\ requester' \in [Targets -> Names \cup {NoOne}]
             /\ \A x \in Targets : requester[x] # NoOne => requester'[x] # NoOne /\ requester'[x].who = requester[x].who
  <2> DEFINE name == [x \in Targets |-> [n \in Names |-> IF <<x, n>> \in rows THEN Retained(n) ELSE n]]
  <2>1. Pseudonyms(name)
    BY RetainedType DEF Pseudonyms
  <2>2. Rewrite(name)
    BY <1>1 DEF Retain
  <2>3. \A x \in Targets : requester'[x] = IF x \in xs /\ requester[x] # NoOne THEN Retained(requester[x]) ELSE requester[x]
    BY <1>1 DEF Retain
  <2>4. \A x \in Targets : requester[x] # NoOne => requester[x] \in Names
    BY DEF TypeOK
  <2>5. \A x \in Targets : requester[x] # NoOne => requester'[x] \in Names /\ requester'[x].who = requester[x].who
    BY <2>3, <2>4, RetainedType
  <2>6. requester' \in [Targets -> Names \cup {NoOne}]
    <3>1. \A x \in Targets : requester'[x] \in Names \cup {NoOne}
      BY <2>3, <2>5
    <3>2. requester' = [x \in Targets |-> requester'[x]]
      BY <1>1 DEF Retain
    <3> QED
      BY <3>1, <3>2
  <2> HIDE DEF name
  <2> QED
    BY <2>1, <2>2, <2>5, <2>6, ApprovalsAssumption
<1>2. ASSUME NEW p \in Principals, NEW asked \in SUBSET opened, NEW approved \in SUBSET opened, Erase(p, asked, approved)
      PROVE  /\ \E name : Pseudonyms(name) /\ Rewrite(name)
             /\ requester' \in [Targets -> Names \cup {NoOne}]
             /\ \A x \in Targets : requester[x] # NoOne => requester'[x] # NoOne /\ requester'[x].who = requester[x].who
  <2> DEFINE Erased(n) == IF n = Name(p) THEN [n EXCEPT !.as = "erased"] ELSE n
             name == [x \in Targets |-> [n \in Names |-> IF x \in approved THEN Erased(n) ELSE n]]
  <2>1. \A n \in Names : Erased(n) \in Names /\ Erased(n).who = n.who /\ (n.as # "plain" => Erased(n).as # "plain")
    BY DEF Names, Name
  <2>2. Rewrite(name)
    BY <1>2 DEF Erase
  <2>3. /\ \A x \in Targets : requester'[x] = IF x \in asked THEN Erased(requester[x]) ELSE requester[x]
        /\ requester' = [x \in Targets |-> requester'[x]]
    BY <1>2 DEF Erase
  <2>4. Name(p) \in Names
    BY DEF Name, Names
  <2>5. \A x \in Targets : requester[x] = NoOne => requester'[x] = NoOne
    BY <2>3, <2>4, ApprovalsAssumption
  <2> HIDE DEF Erased
  <2>6. Pseudonyms(name)
    BY <2>1 DEF Pseudonyms
  <2>7. \A x \in Targets : requester[x] # NoOne => requester'[x] \in Names /\ requester'[x].who = requester[x].who
    BY <2>1, <2>3 DEF TypeOK
  <2>8. requester' \in [Targets -> Names \cup {NoOne}]
    BY <2>3, <2>5, <2>7
  <2> HIDE DEF name
  <2> QED
    BY <2>2, <2>6, <2>7, <2>8, ApprovalsAssumption
<1> QED
  BY <1>1, <1>2

-----------------------------------------------------------------------------
\* Requests, approvals and the approval tables keep their types.
LEMMA TypeNext == TypeOK /\ [Next]_vars => TypeOK'
<1> SUFFICES ASSUME TypeOK, [Next]_vars PROVE TypeOK'
  OBVIOUS
<1> USE ApprovalsAssumption DEF TypeOK
<1> DEFINE T == [pc : Pcs, who : Principals \cup {NoOne}, target : Targets \cup {NoTarget}]
\* A request ends or goes on with the principal and the target it has.
<1>1. ASSUME NEW t \in Threads, NEW x \in T, thread' = [thread EXCEPT ![t] = x],
             x # Idle => x.who \in Principals /\ x.target \in opened'
      PROVE  /\ thread' \in [Threads -> T]
             /\ opened \subseteq opened' =>
                  \A u \in Threads : thread'[u] # Idle => thread'[u].who \in Principals /\ thread'[u].target \in opened'
  BY <1>1
<1>2. ASSUME NEW t \in Threads, NEW p \in Principals, NEW x \in Targets, Attempt(t, p, x) \/ RecordApproval(t, p, x)
      PROVE  TypeOK'
  <2>1. PICK pc \in Pcs : thread' = [thread EXCEPT ![t] = [pc |-> pc, who |-> p, target |-> x]]
    BY <1>2 DEF Attempt, RecordApproval, Pcs
  <2>2. opened' = opened \cup {x} /\ requester' \in [Targets -> Names \cup {NoOne}]
    <3>1. Name(p) \in Names
      BY DEF Name, Names
    <3>2. PICK n \in Names \cup {NoOne} : OpenIssuanceApprovalRequest(x, n)
      BY <1>2, <3>1 DEF Attempt, RecordApproval
    <3> QED
      BY <3>2 DEF OpenIssuanceApprovalRequest, Bound
  <2>3. UNCHANGED <<approvals, performed, rewrites>>
    BY <1>2 DEF Attempt, RecordApproval
  <2>4. [pc |-> pc, who |-> p, target |-> x] \in T
    OBVIOUS
  <2> QED
    BY <1>1, <2>1, <2>2, <2>3, <2>4
<1>3. ASSUME NEW t \in Threads, NEW pc \in Pcs
      PROVE  /\ [thread[t] EXCEPT !.pc = pc] \in T
             /\ [thread[t] EXCEPT !.pc = pc].who = thread[t].who
             /\ [thread[t] EXCEPT !.pc = pc].target = thread[t].target
  OBVIOUS
<1>4. ASSUME NEW t \in Threads, Count(t) \/ ApproveRead(t) PROVE TypeOK'
  <2>1. thread[t].pc # "idle" /\ UNCHANGED <<requester, opened, approvals, performed, rewrites>>
    BY <1>4 DEF Count, ApproveRead
  <2>2. thread[t].who \in Principals /\ thread[t].target \in opened
    BY <2>1, IdleType
  <2>3. PICK x \in T : thread' = [thread EXCEPT ![t] = x] /\ (x # Idle => x.who = thread[t].who /\ x.target = thread[t].target)
    BY ZenonT(30), <1>3, <1>4, IdleType DEF Count, ApproveRead, Pcs
  <2> QED
    BY <1>1, <2>1, <2>2, <2>3
<1>5. ASSUME NEW t \in Threads, Perform(t) \/ ApproveInsert(t) \/ Abort(t) PROVE TypeOK'
  <2>1. thread' = [thread EXCEPT ![t] = Idle] /\ UNCHANGED <<requester, opened, rewrites>> /\ thread[t] # Idle
    BY <1>5, IdleType DEF Perform, ApproveInsert, Abort
  <2>2. performed' \subseteq Principals \X Targets /\ approvals' \in [Targets -> SUBSET Names]
    BY <1>5, <2>1 DEF Perform, ApproveInsert, Abort, Name, Names
  <2>3. \A x \in Targets : approvals'[x] # {} => x \in opened
    BY <1>5, <2>1 DEF Perform, ApproveInsert, Abort
  <2> QED
    BY <1>1, <2>1, <2>2, <2>3, IdleType
<1>6. ASSUME \/ \E xs \in SUBSET opened : \E rows \in Aged(xs) : Retain(xs, rows)
             \/ \E p \in Principals, asked, approved \in SUBSET opened : Erase(p, asked, approved)
      PROVE  TypeOK'
  <2>1. requester' \in [Targets -> Names \cup {NoOne}]
    BY <1>6, RewritesAreRenamings
  <2>2. PICK name : Pseudonyms(name) /\ Rewrite(name)
    BY <1>6, RewritesAreRenamings
  <2>3. approvals' \in [Targets -> SUBSET Names] /\ \A x \in Targets : approvals'[x] # {} => approvals[x] # {}
    BY <2>2 DEF Pseudonyms, Rewrite
  <2>4. rewrites' \in 0..MaxRewrites /\ UNCHANGED <<opened, thread, performed>>
    BY <2>2 DEF Rewrite
  <2> QED
    BY <2>1, <2>3, <2>4
<1>7. CASE UNCHANGED vars
  BY <1>7 DEF vars
<1> QED
  BY <1>2, <1>4, <1>5, <1>6, <1>7 DEF Next

\* What is enough for a target stays so: rows are added or renamed.
LEMMA ApprovalsStay ==
    ASSUME TypeOK, TypeOK', [Next]_vars, NEW x \in Targets, NEW p, Enough(approvals[x], p)
    PROVE  Enough(approvals'[x], p)
<1>0. approvals[x] \in SUBSET Names /\ approvals'[x] \in SUBSET Names
  BY DEF TypeOK
<1>1. CASE approvals[x] \subseteq approvals'[x]
  <2> DEFINE g == [n \in Names |-> n]
  <2>1. g \in [Names -> Names] /\ \A n \in approvals[x] : g[n] = n /\ g[n] \in approvals'[x]
    BY <1>0, <1>1
  <2> HIDE DEF g
  <2> QED
    BY <1>0, <2>1, EnoughStays
<1>2. CASE ~(approvals[x] \subseteq approvals'[x])
  <2>1. \/ \E xs \in SUBSET opened : \E rows \in Aged(xs) : Retain(xs, rows)
        \/ \E q \in Principals, asked, approved \in SUBSET opened : Erase(q, asked, approved)
    <3>1. ASSUME NEW t \in Threads, ApproveInsert(t) PROVE approvals[x] \subseteq approvals'[x]
      BY <3>1 DEF TypeOK, ApproveInsert
    <3>2. ASSUME NEW t \in Threads, NEW q \in Principals, NEW y \in Targets, Attempt(t, q, y) \/ RecordApproval(t, q, y)
          PROVE  UNCHANGED approvals
      BY <3>2 DEF Attempt, RecordApproval
    <3>3. ASSUME NEW t \in Threads, Count(t) \/ Perform(t) \/ ApproveRead(t) \/ Abort(t) PROVE UNCHANGED approvals
      BY <3>3 DEF Count, Perform, ApproveRead, Abort
    <3>4. UNCHANGED vars => UNCHANGED approvals
      BY DEF vars
    <3> QED
      BY <1>2, <3>1, <3>2, <3>3, <3>4 DEF Next
  <2>2. PICK name : Pseudonyms(name) /\ Rewrite(name)
    BY <2>1, RewritesAreRenamings
  <2> DEFINE g == name[x]
  <2>3. /\ g \in [Names -> Names]
        /\ \A n \in approvals[x] : g[n] \in approvals'[x] /\ g[n].who = n.who /\ (n.as # "plain" => g[n].as # "plain")
        /\ \A m, n \in approvals[x] : g[m] = g[n] => m = n
    BY <1>0, <2>2 DEF Pseudonyms, Rewrite
  <2> HIDE DEF g
  <2> QED
    BY <1>0, <2>3, EnoughStays
<1> QED
  BY <1>1, <1>2

\* The gate lets a request through, and the action behind it happens, only with
\* the approvals it asks for.
LEMMA GateNext == GateInv /\ [Next]_vars => AllowedCounted' /\ DualControl'
<1> SUFFICES ASSUME GateInv, [Next]_vars PROVE AllowedCounted' /\ DualControl'
  OBVIOUS
<1>1. ASSUME NEW x \in Targets, NEW p, Enough(approvals[x], p) PROVE Enough(approvals'[x], p)
  BY <1>1, ApprovalsStay, TypeNext DEF GateInv
<1>2. \A t \in Threads : thread[t].pc # "idle" => thread[t].target \in Targets /\ thread[t].who \in Principals
  BY IdleType DEF GateInv, TypeOK
\* A request that was let through before, or is now.
<1>3. ASSUME NEW t \in Threads, thread'[t].pc = "allowed"
      PROVE  Enough(approvals'[thread'[t].target], thread'[t].who)
  <2>1. CASE thread'[t] = thread[t]
    BY <1>1, <1>2, <1>3, <2>1 DEF GateInv, AllowedCounted
  <2>2. CASE thread'[t] # thread[t]
    <3>1. Count(t)
      BY <1>3, <2>2, IdleType
         DEF Next, Attempt, RecordApproval, Count, Perform, ApproveRead, ApproveInsert, Abort,
             Retain, Erase, Rewrite, vars, GateInv, TypeOK
    <3>2. thread[t] \in [pc : Pcs, who : Principals \cup {NoOne}, target : Targets \cup {NoTarget}]
          /\ thread \in [Threads -> [pc : Pcs, who : Principals \cup {NoOne}, target : Targets \cup {NoTarget}]]
      BY DEF GateInv, TypeOK
    <3>3. /\ HasDistinctApproval(thread[t].target, thread[t].who) /\ thread[t].pc = "counting"
          /\ thread'[t].target = thread[t].target /\ thread'[t].who = thread[t].who
      BY <1>3, <3>1, <3>2, IdleType DEF Count
    <3>4. approvals[thread[t].target] \in SUBSET Names
      BY <1>2, <3>3 DEF GateInv, TypeOK
    <3>5. Enough(approvals[thread[t].target], thread[t].who)
      BY <1>2, <3>3, <3>4, NamesArePersons DEF HasDistinctApproval
    <3> QED
      BY <1>1, <1>2, <3>3, <3>5
  <2> QED
    BY <2>1, <2>2
<1>4. AllowedCounted'
  BY <1>3 DEF AllowedCounted
<1>5. ASSUME NEW w \in performed' PROVE Enough(approvals'[w[2]], w[1])
  <2>1. CASE w \in performed
    <3>1. w[2] \in Targets
      BY <2>1 DEF GateInv, TypeOK
    <3> QED
      BY <1>1, <2>1, <3>1 DEF GateInv, DualControl, Approvers, Hidden, Doubled, Enough
  <2>2. CASE w \notin performed
    <3>1. PICK t \in Threads : Perform(t) /\ w = <<thread[t].who, thread[t].target>>
      BY <1>5, <2>2 DEF Next, Attempt, RecordApproval, Count, Perform, ApproveRead, ApproveInsert, Abort,
                        Retain, Erase, Rewrite, vars
    <3>2. Enough(approvals[thread[t].target], thread[t].who) /\ thread[t].target \in Targets
      BY <1>2, <3>1 DEF GateInv, AllowedCounted, Perform
    <3> QED
      BY <1>1, <3>1, <3>2
  <2> QED
    BY <2>1, <2>2
<1>6. DualControl'
  BY <1>5 DEF DualControl, Approvers, Hidden, Doubled, Enough
<1> QED
  BY <1>4, <1>6

\* The empty tables satisfy the invariant.
LEMMA GateInit == Init => GateInv
<1> SUFFICES ASSUME Init PROVE GateInv
  OBVIOUS
<1>1. TypeOK
  BY IdleType, ApprovalsAssumption DEF Init, TypeOK
<1>2. AllowedCounted /\ DualControl
  BY IdleType DEF Init, AllowedCounted, DualControl
<1> QED
  BY <1>1, <1>2 DEF GateInv

-----------------------------------------------------------------------------
\* Along every behaviour of the gate, the invariant holds.
LEMMA GateInvariant == Spec => []GateInv
<1>1. GateInv /\ [Next]_vars => GateInv'
  BY TypeNext, GateNext DEF GateInv
<1> QED
  BY <1>1, GateInit, PTL DEF Spec

\* Type correctness of the approval tables and of the requests between their
\* transactions.
THEOREM TypeCorrect == Spec => []TypeOK
BY GateInvariant, PTL DEF GateInv

\* Dual control: nobody performs a gated action on a target unless `Required' other
\* persons have approved it, however attempts, approvals, erasures and retention runs
\* interleave, or the rewrites have left an approval of the performer under a
\* pseudonym or two approvals of one person.
THEOREM DualControlHolds == Spec => []DualControl
BY GateInvariant, PTL DEF GateInv

\* The first requester stays bound: OpenIssuanceApprovalRequest only fills an
\* empty one in, and a privacy rewrite keeps a name of the same person there.
THEOREM RequestersStay == Spec => RequesterKept
<1> DEFINE Kept == \A x \in Targets : requester[x] # NoOne =>
                      requester'[x] # NoOne /\ requester'[x].who = requester[x].who
<1>1. TypeOK /\ [Next]_vars => [Kept]_vars
  <2> SUFFICES ASSUME TypeOK, Next PROVE Kept
    OBVIOUS
  <2>1. CASE \/ \E xs \in SUBSET opened : \E rows \in Aged(xs) : Retain(xs, rows)
             \/ \E p \in Principals, asked, approved \in SUBSET opened : Erase(p, asked, approved)
    BY <2>1, RewritesAreRenamings
  <2>2. ASSUME NEW t \in Threads, NEW p \in Principals, NEW x \in Targets, Attempt(t, p, x) \/ RecordApproval(t, p, x)
        PROVE  Kept
    BY <2>2 DEF TypeOK, Attempt, RecordApproval, OpenIssuanceApprovalRequest, Bound
  <2>3. ASSUME NEW t \in Threads, Count(t) \/ Perform(t) \/ ApproveRead(t) \/ ApproveInsert(t) \/ Abort(t)
        PROVE  Kept
    BY <2>3 DEF Count, Perform, ApproveRead, ApproveInsert, Abort
  <2> QED
    BY <2>1, <2>2, <2>3 DEF Next
<1> QED
  BY <1>1, TypeCorrect, PTL DEF Spec, RequesterKept

=============================================================================
