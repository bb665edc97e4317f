------------------------------- MODULE Delivery -------------------------------
(***************************************************************************)
(* What the outbox promises its producers, without leases, sweeps, backoff *)
(* or circuits: a row that was enqueued stays open until it is delivered   *)
(* or dead-lettered, it is recorded as delivered only after a handler call *)
(* for it returned nil, and what is settled stays settled.  Handlers may   *)
(* be called any number of times: the promise is at-least-once.            *)
(***************************************************************************)
CONSTANT Rows

VARIABLES
    state,  \* per row: absent, open, delivered, dead or reclaimed
    done    \* rows for which some handler call returned nil

vars == <<state, done>>

\* A producer's transaction commits the row.
Enqueue(id) ==
    /\ state[id] = "absent"
    /\ state' = [state EXCEPT ![id] = "open"]
    /\ UNCHANGED done

\* A handler call returns nil.
Perform(id) ==
    /\ state[id] # "absent"
    /\ done' = done \cup {id}
    /\ UNCHANGED state

\* The success is recorded.
Settle(id) ==
    /\ state[id] = "open"
    /\ id \in done
    /\ state' = [state EXCEPT ![id] = "delivered"]
    /\ UNCHANGED done

\* The row is given up and kept for an operator.
Bury(id) ==
    /\ state[id] = "open"
    /\ state' = [state EXCEPT ![id] = "dead"]
    /\ UNCHANGED done

\* The garbage collector removes a delivered row.
Reclaim(id) ==
    /\ state[id] = "delivered"
    /\ state' = [state EXCEPT ![id] = "reclaimed"]
    /\ UNCHANGED done

Init ==
    /\ state = [id \in Rows |-> "absent"]
    /\ done = {}

Next == \E id \in Rows : Enqueue(id) \/ Perform(id) \/ Settle(id) \/ Bury(id) \/ Reclaim(id)

Spec == Init /\ [][Next]_vars

=============================================================================
