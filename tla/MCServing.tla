------------------------------- MODULE MCServing ------------------------------
(* The requests of the TLC run of Serving. *)
EXTENDS Serving

\* The first two requests carry one key, the others another (tasks are numbers).
TwoShareAKey == [r \in Tasks |-> IF r <= 2 THEN "k1" ELSE "k2"]

-----------------------------------------------------------------------------
\* A claim this model refutes, for a .cfg: whatever the sizes of the pools, accepted
\* requests are answered and the shutdown ends.
RequestsEndAlways == <>[](closer # "waiting" /\ \A r \in Tasks : task[r] # "accepted")

=============================================================================
