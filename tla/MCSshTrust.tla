------------------------------- MODULE MCSshTrust -----------------------------
(* Symmetry for the TLC run of SshTrust, and claims the model refutes. *)
EXTENDS SshTrust, TLC

Symmetry == Permutations(Cas)

-----------------------------------------------------------------------------
\* docs/design/ssh-trust-rewrite.md: "Trust is only ever added"; sshtrust.go:5:
\* "Existing trust is never removed without explicit confirmation".  A read that
\* fails counts as a missing file, which AddCATrust then replaces.
AdditiveAlways == before.op = "add" => before.trust.keys \subseteq trust.keys /\ (before.conf.base => conf.base)

\* sshtrust.go:66: "already trusted and enabled".  After a crash between the writes
\* and the reload the files say so and sshd has not loaded them.
UnchangedIsEnabled == before.op = "add" /\ result = "unchanged" => running.ref

\* types.go: "Validate runs `sshd -t` before any reload".  The reload of a rollback
\* whose restore failed loads what sshd -t has refused.
OnlyValidLoaded == Valid(running)

=============================================================================
