-------------------------------- MODULE MCAcme --------------------------------
(* Symmetry for the TLC run of Acme, and a claim the model refutes. *)
EXTENDS Acme, TLC

Symmetry == Permutations(Threads) \cup Permutations(Keys) \cup Permutations(Domains)

\* "replay certificate URL = %q, want original %q" (acme_test.go:291): an order
\* that has its certificate keeps it.  Refuted with MaxSeq = 4: two finalizes of
\* a ready order pass the check together, and acceptChallenge on an order that is
\* valid makes it ready again; either way a second certificate id replaces the
\* first.
ValidOrderKeepsCertificate ==
    [][\A o \in Ids : durable.orders[o].status = "valid"
                      => durable'.orders[o].cert = durable.orders[o].cert]_vars

=============================================================================
