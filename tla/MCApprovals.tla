------------------------------ MODULE MCApprovals -----------------------------
(* Symmetry for the TLC run of Approvals, and claims the model refutes. *)
EXTENDS Approvals, TLC

Symmetry == Permutations(Threads) \cup Permutations(Principals) \cup Permutations(Targets)

-----------------------------------------------------------------------------
\* What the comment of HasDistinctApproval says: "the store already refuses to
\* record" the requester's own approval.  An approval given before the requester
\* is bound stays.
NoSelfApprovalOnRecord ==
    \A x \in Targets : requester[x] # NoOne => requester[x] \notin approvals[x]

\* What the comments of HasDistinctApproval ("DISTINCT-approver approvals on record,
\* NONE of which is the requester") and IsApproved ("a self-approval can never
\* satisfy it") say.  After an erasure or a retention run the count takes the asker's
\* own approval, or a second one of the same approver, for another principal's.
DualControlAlways ==
    \A w \in performed : Cardinality(Approvers(w[2]) \ {w[1]}) >= Required

=============================================================================
