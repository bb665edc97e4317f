------------------------------- MODULE MCOutbox -------------------------------
(* Constant functions for the TLC runs of Outbox. *)
EXTENDS Outbox

\* All rows of one tenant go to one destination.
SameTenant      == [id \in Rows |-> CHOOSE t \in Tenants : TRUE]
SameDestination == [id \in Rows |-> CHOOSE d \in Destinations : TRUE]

\* Every sweep runs in the same process.
OneProcess == [s \in Sweeps |-> CHOOSE w \in Workers : TRUE]

-----------------------------------------------------------------------------
(* Claims of the code's comments that this model refutes; each can be put in a *)
(* .cfg in place of a run's property.                                          *)

\* A row's delivery error is recorded on the row and retried on the next tick,
\* whatever else fails: every row is delivered or dead-lettered in the end.
EveryRowSettlesAlways ==
    <>[](\A id \in Rows : row[id].status \in {"absent", "delivered", "reclaimed", "failed"})

\* An entry is dead-lettered once it has had maxAttempts attempts: it is never
\* claimed again.
AttemptsBounded == \A id \in Rows : row[id].attempts <= maxAttempts

\* At most maxInFlightPerDestination rows of a destination hold a live lease.
InFlightCap ==
    \A d \in Destinations :
        Cardinality({id \in Rows : row[id].status = "processing" /\ row[id].lease > 0
                                     /\ destinationOf[id] = d}) <= maxInFlightPerDestination
=============================================================================
