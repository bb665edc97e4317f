----------------------------- MODULE MCEventSpine -----------------------------
(* Model values and symmetry for the TLC runs of EventSpine. *)
EXTENDS EventSpine, TLC

Symmetry == Permutations(Replicas) \cup Permutations(Writers)

-----------------------------------------------------------------------------
(* Claims of the code's comments that this model refutes by the mechanisms of *)
(* the runs; any of them can be put in a .cfg in place of the run's property.  *)

\* An effect that already landed is left untouched by ReconcileOutbox: no
\* external call is made twice under the same idempotency key.
EffectPerformedOnce ==
    \A k \in EffectKeys : performed[<<k, "event">>] + performed[<<k, "credential">>] <= 1

\* A retired identity stays retired: re-applying an event that was already
\* projected changes nothing.
RetiredIsTerminal ==
    [][\A i \in Identities : status[i] = "retired" => status'[i] = "retired"]_vars

\* A transition that carries a side-effect payload stores that payload as the
\* outbox body: once it has committed, its row is not the bare event.
CredentialPayloadKept ==
    \A w \in Writers :
        writer[w].pc = "committed" /\ writer[w].payload = "credential"
            /\ HasEffect(writer[w].seq)
        => LET row == <<KeyOf(writer[w].seq), "credential">>
           IN  pending[row] + delivered[row] + performed[row] > 0
=============================================================================
