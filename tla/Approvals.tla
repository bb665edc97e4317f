------------------------------- MODULE Approvals ------------------------------
(***************************************************************************)
(* Served dual control: the approval tables of internal/store/approvals.go,*)
(* the checker and the recorder of internal/server/approval_gate.go, the   *)
(* gated mutations of internal/api (identity transitions, secret changes), *)
(* and the privacy projections of internal/store/privacy.go that replace   *)
(* the names in these tables by pseudonyms.                                *)
(*                                                                         *)
(* A target is a (resource, action) pair.  An attempt opens the request in *)
(* one transaction, counts approvals in the next, and performs the action  *)
(* after that; an approval opens the request, reads its requester and      *)
(* inserts its row.  Requests of different principals, and several of one, *)
(* run at the same time.                                                   *)
(***************************************************************************)
EXTENDS Naturals, FiniteSets

CONSTANTS
    Principals, NoOne,   \* authenticated holders of the permission; the empty requester
    Targets, NoTarget,
    Required,            \* distinct approvals the gate asks for
    Threads,             \* requests that run at the same time
    MaxRewrites          \* bound: erasures and retention runs

\* A name in the tables: who it stands for, and whether it is still the name the
\* principal signs in with, the placeholder of an erasure, the pseudonym a
\* retention run makes of the name, or the one it makes of the placeholder.
Names == [who : Principals, as : {"plain", "erased", "retained", "both"}]

ASSUME ApprovalsAssumption ==
    /\ NoOne \notin Principals \cup Names /\ NoTarget \notin Targets
    /\ IsFiniteSet(Principals) /\ Required \in Nat \ {0} /\ MaxRewrites \in Nat

VARIABLES
    requester,  \* issuance_approval_requests: per target, the name that is bound, or NoOne
    opened,     \* targets with a request row
    approvals,  \* issuance_approvals: per target, the names of its approvers
    thread,     \* the running requests
    performed,  \* <<principal, target>> pairs whose action went through the gate
    rewrites

vars == <<requester, opened, approvals, thread, performed, rewrites>>

\* The name p signs in with.
Name(p) == [who |-> p, as |-> "plain"]

Idle == [pc |-> "idle", who |-> NoOne, target |-> NoTarget]

-----------------------------------------------------------------------------
\* OpenIssuanceApprovalRequest: the first requester that is not empty stays.
Bound(x, who) == IF requester[x] = NoOne THEN who ELSE requester[x]

OpenIssuanceApprovalRequest(x, who) ==
    /\ opened' = opened \cup {x}
    /\ requester' = [requester EXCEPT ![x] = Bound(x, who)]

\* A gated mutation: IsApproved opens the request on behalf of its principal.
Attempt(t, p, x) ==
    /\ thread[t] = Idle
    /\ OpenIssuanceApprovalRequest(x, Name(p))
    /\ thread' = [thread EXCEPT ![t] = [pc |-> "counting", who |-> p, target |-> x]]
    /\ UNCHANGED <<approvals, performed, rewrites>>

\* Mutant of HasDistinctApproval: the count does not leave the requester out.
HasAnyApproval(x, who) == Cardinality(approvals[x]) >= Required

\* The approvals of the target under any other name than the asker's.
HasDistinctApproval(x, who) == Cardinality(approvals[x] \ {Name(who)}) >= Required

\* The gate allows or refuses.
Count(t) ==
    /\ thread[t].pc = "counting"
    /\ thread' = [thread EXCEPT ![t] =
         IF HasDistinctApproval(thread[t].target, thread[t].who) THEN [thread[t] EXCEPT !.pc = "allowed"] ELSE Idle]
    /\ UNCHANGED <<requester, opened, approvals, performed, rewrites>>

\* The mutation behind the gate; the approvals stay on record.
Perform(t) ==
    /\ thread[t].pc = "allowed"
    /\ performed' = performed \cup {<<thread[t].who, thread[t].target>>}
    /\ thread' = [thread EXCEPT ![t] = Idle]
    /\ UNCHANGED <<requester, opened, approvals, rewrites>>

\* RecordApproval makes sure there is a request, on nobody's behalf.
RecordApproval(t, p, x) ==
    /\ thread[t] = Idle
    /\ OpenIssuanceApprovalRequest(x, NoOne)
    /\ thread' = [thread EXCEPT ![t] = [pc |-> "reading", who |-> p, target |-> x]]
    /\ UNCHANGED <<approvals, performed, rewrites>>

\* ApproveIssuance reads the requester and refuses a self-approval.
ApproveRead(t) ==
    /\ thread[t].pc = "reading"
    /\ thread' = [thread EXCEPT ![t] =
         IF requester[thread[t].target] = Name(thread[t].who) THEN Idle ELSE [thread[t] EXCEPT !.pc = "inserting"]]
    /\ UNCHANGED <<requester, opened, approvals, performed, rewrites>>

\* It inserts the approval; the requester may have been bound in between.
ApproveInsert(t) ==
    /\ thread[t].pc = "inserting"
    /\ approvals' = [approvals EXCEPT ![thread[t].target] = @ \cup {Name(thread[t].who)}]
    /\ thread' = [thread EXCEPT ![t] = Idle]
    /\ UNCHANGED <<requester, opened, performed, rewrites>>

\* A transaction fails or the client goes away.
Abort(t) ==
    /\ thread[t] # Idle
    /\ thread' = [thread EXCEPT ![t] = Idle]
    /\ UNCHANGED <<requester, opened, approvals, performed, rewrites>>

-----------------------------------------------------------------------------
(* The privacy events are projected in a transaction that also rewrites these  *)
(* tables.  The principals go on under their names: an erasure revokes a       *)
(* principal's API tokens and renames its member row, after which a session    *)
(* keeps the roles its identity provider gave it (sessionRoleNames).           *)

\* Each approval of x by n becomes one by name[x][n].  Two rows of one target that
\* would get the same name break the primary key, and the transaction fails.
Rewrite(name) ==
    /\ rewrites < MaxRewrites
    /\ \A x \in Targets : \A m, n \in approvals[x] : name[x][m] = name[x][n] => m = n
    /\ approvals' = [x \in Targets |-> {name[x][n] : n \in approvals[x]}]
    /\ rewrites' = rewrites + 1
    /\ UNCHANGED <<opened, thread, performed>>

\* The pseudonym a retention run gives a name; it leaves its own alone.
Retained(n) == [n EXCEPT !.as = CASE @ = "plain" -> "retained" [] @ = "erased" -> "both" [] OTHER -> @]

\* The approvals of the targets xs that a retention run may find too old.  Of two by
\* one principal, the one under the plain name is the later.
Aged(xs) ==
    {rows \in SUBSET UNION {{x} \X {n \in approvals[x] : Retained(n) # n} : x \in xs} :
        \A x \in xs : \A n \in approvals[x] :
            <<x, Name(n.who)>> \in rows /\ Retained(n) # n => <<x, n>> \in rows}

\* ApplyPrivacyRetentionEnforcedTx: the requests xs and the approvals rows are from
\* before the cutoff.
Retain(xs, rows) ==
    /\ requester' = [x \in Targets |->
         IF x \in xs /\ requester[x] # NoOne THEN Retained(requester[x]) ELSE requester[x]]
    /\ Rewrite([x \in Targets |-> [n \in Names |-> IF <<x, n>> \in rows THEN Retained(n) ELSE n]])

\* ApplyPrivacySubjectErasedTx: p's name is erased from the requests and approvals
\* in which it was found when the erasure was asked for.
Erase(p, asked, approved) ==
    LET Erased(n) == IF n = Name(p) THEN [n EXCEPT !.as = "erased"] ELSE n IN
    /\ requester' = [x \in Targets |-> IF x \in asked THEN Erased(requester[x]) ELSE requester[x]]
    /\ Rewrite([x \in Targets |-> [n \in Names |-> IF x \in approved THEN Erased(n) ELSE n]])

-----------------------------------------------------------------------------
Init ==
    /\ requester = [x \in Targets |-> NoOne] /\ opened = {}
    /\ approvals = [x \in Targets |-> {}]
    /\ thread = [t \in Threads |-> Idle]
    /\ performed = {} /\ rewrites = 0

Next ==
    \/ \E t \in Threads, p \in Principals, x \in Targets : Attempt(t, p, x) \/ RecordApproval(t, p, x)
    \/ \E t \in Threads : Count(t) \/ Perform(t) \/ ApproveRead(t) \/ ApproveInsert(t) \/ Abort(t)
    \/ \E xs \in SUBSET opened : \E rows \in Aged(xs) : Retain(xs, rows)
    \/ \E p \in Principals, asked, approved \in SUBSET opened : Erase(p, asked, approved)

Spec == Init /\ [][Next]_vars

-----------------------------------------------------------------------------
(* Properties *)

Pcs == {"idle", "counting", "allowed", "reading", "inserting"}

\* The variables have their types; approvals, and the requests under way, are about
\* targets whose request row exists.
TypeOK ==
    /\ requester \in [Targets -> Names \cup {NoOne}] /\ opened \subseteq Targets
    /\ approvals \in [Targets -> SUBSET Names]
    /\ thread \in [Threads -> [pc : Pcs, who : Principals \cup {NoOne}, target : Targets \cup {NoTarget}]]
    /\ performed \subseteq Principals \X Targets /\ rewrites \in 0..MaxRewrites
    /\ \A t \in Threads : thread[t] # Idle => thread[t].who \in Principals /\ thread[t].target \in opened
    /\ \A x \in Targets : approvals[x] # {} => x \in opened

\* The persons behind the approvals of x.
Approvers(x) == {n.who : n \in approvals[x]}

\* An approval of p is on record for x under a pseudonym, which the count takes for
\* somebody else's.
Hidden(p, x) == \E n \in approvals[x] : n.who = p /\ n.as # "plain"

\* Somebody has approved x twice, under a pseudonym and under another name.
Doubled(x) == \E m, n \in approvals[x] : m # n /\ m.who = n.who

\* Dual control: whoever performs a gated action, in whatever order attempts,
\* approvals, erasures and retention runs came and whoever was bound as the
\* requester, `Required' persons other than the performer have approved the target,
\* unless a privacy rewrite hides an approval of the performer's own or has let an
\* approver approve again.
DualControl ==
    \A w \in performed :
        \/ Cardinality(Approvers(w[2]) \ {w[1]}) >= Required
        \/ Hidden(w[1], w[2]) \/ Doubled(w[2])

\* A bound requester stays bound: a later attempt cannot take the request over, and
\* a privacy rewrite puts another name of the same person in its place.
RequesterKept ==
    [][\A x \in Targets : requester[x] # NoOne =>
          requester'[x] # NoOne /\ requester'[x].who = requester[x].who]_vars

=============================================================================
