------------------------------- MODULE Lifecycle -------------------------------
(***************************************************************************)
(* The identity lifecycle of internal/orchestrator/lifecycle.go: the       *)
(* states, the transition table that is its single source of truth, and    *)
(* the outbox destination each transition's external call goes to.         *)
(***************************************************************************)

States == {"requested", "issued", "deployed", "renewing", "revoked", "retired"}

\* transitionEvents: the allowed edges.  The event type adds nothing the edge
\* does not already say, so an event is its edge.
Edges == { <<"requested", "issued">>,
           <<"issued", "deployed">>,   <<"issued", "revoked">>,
           <<"deployed", "renewing">>, <<"deployed", "revoked">>,
           <<"renewing", "deployed">>, <<"renewing", "revoked">>,
           <<"revoked", "retired">> }

\* EventTypeFor / CanTransition: a pair absent from the table is invalid.
CanTransition(from, to) == <<from, to>> \in Edges

\* sideEffects: every edge but revoked -> retired needs an external call.
sideEffects ==
    [e \in Edges \ {<<"revoked", "retired">>} |->
        CASE e[2] = "issued"   -> "ca.issue"
          [] e[2] = "deployed" -> "connector.deploy"
          [] e[2] = "renewing" -> "ca.renew"
          [] e[2] = "revoked"  -> "revocation.publish"]

sideEffectFor(from, to) == sideEffects[<<from, to>>]

HasSideEffect(from, to) == <<from, to>> \in DOMAIN sideEffects
=============================================================================
