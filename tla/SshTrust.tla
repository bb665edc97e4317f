------------------------------- MODULE SshTrust -------------------------------
(***************************************************************************)
(* The agent's SSH trust rewrite (internal/agent/sshtrust): AddCATrust and *)
(* RemoveCATrust change the TrustedUserCAKeys file and sshd_config,        *)
(* validate, reload and health-check sshd, and roll back on a failure.     *)
(*                                                                         *)
(* Reads, writes, reloads and restores may each fail, and the agent may    *)
(* die between any two of them.  Runs of the agent follow one another.     *)
(***************************************************************************)
EXTENDS Naturals

CONSTANTS
    Cas, NoCa,       \* CA public keys
    MaxFaults,       \* bound: failed reads, writes, restores, commands
    MaxCrashes,      \* bound: deaths of the agent
    MaxRuns          \* bound: runs of the agent

ASSUME SshTrustAssumption ==
    NoCa \notin Cas /\ MaxFaults \in Nat /\ MaxCrashes \in Nat /\ MaxRuns \in Nat

VARIABLES
    trust,      \* the TrustedUserCAKeys file: whether it exists and its keys
    conf,       \* sshd_config: exists, has the operator's directives, references trust
    running,    \* the sshd_config that sshd has loaded
    accepts,    \* sshd -t accepts the appended directive
    job,        \* where AddCATrust or RemoveCATrust stands, with its backups
    before,     \* the operation, and the files when it began
    unread,     \* an existing file could not be read in this operation
    result,     \* what the last operation returned
    dirty,      \* a crash or a failed restore has left files of an unfinished change
    faults, crashes, runs

vars == <<trust, conf, running, accepts, job, before, unread, result, dirty, faults, crashes, runs>>

NoTrust == [exists |-> FALSE, keys |-> {}]
NoConf  == [exists |-> FALSE, base |-> FALSE, ref |-> FALSE]
Idle    == [pc |-> "idle", op |-> "none", ca |-> NoCa, trust |-> NoTrust, conf |-> NoConf,
            reload |-> FALSE, failed |-> FALSE]

\* What sshd -t says of a configuration: the operator's was valid.
Valid(c) == c.ref => accepts

At(pc) == job' = [job EXCEPT !.pc = pc]

\* A step that fails spends one of the modelled faults.
Fault(failed) ==
    /\ failed => faults < MaxFaults
    /\ faults' = IF failed THEN faults + 1 ELSE faults

Return(r) == job' = Idle /\ result' = r

-----------------------------------------------------------------------------
\* read: any error, not only "does not exist", reads as a file that is not there.
Read(file, none, ok) == IF ok THEN file ELSE none

\* An operation begins; okT and okC tell whether the two reads succeed.
Begin(op, ca, okT, okC) ==
    /\ job = Idle /\ runs < MaxRuns
    /\ runs' = runs + 1
    /\ Fault(~(okT /\ okC))
    /\ before' = [op |-> op, ca |-> ca, trust |-> trust, conf |-> conf]
    /\ unread' = ((~okT /\ trust.exists) \/ (~okC /\ conf.exists))

Started(op, ca, t, c) ==
    [Idle EXCEPT !.pc = "writeTrust", !.op = op, !.ca = ca, !.trust = t, !.conf = c, !.reload = TRUE]

\* AddCATrust reads both files; a CA that is listed in a referenced file is a no-op.
AddCATrust(ca, okT, okC) ==
    LET t == Read(trust, NoTrust, okT)
        c == Read(conf, NoConf, okC) IN
    /\ Begin("add", ca, okT, okC)
    /\ IF ca \in t.keys /\ c.ref
       THEN Return("unchanged")
       ELSE job' = Started("add", ca, t, c) /\ result' = "none"
    /\ UNCHANGED <<trust, conf, running, accepts, dirty, crashes>>

\* RemoveCATrust, confirmed (an unconfirmed call is refused before it reads).
RemoveCATrust(ca, okT, okC) ==
    LET t == Read(trust, NoTrust, okT)
        c == Read(conf, NoConf, okC) IN
    /\ Begin("remove", ca, okT, okC)
    /\ IF ca \notin t.keys
       THEN Return("unchanged")
       ELSE job' = Started("remove", ca, t, c) /\ result' = "none"
    /\ UNCHANGED <<trust, conf, running, accepts, dirty, crashes>>

\* Mutant of NewKeys: the file is written with the one key.
NewKeysOnly(j) == IF j.op = "add" THEN {j.ca} ELSE j.trust.keys \ {j.ca}

\* appendLine and removeLine, on the keys as they were read.
NewKeys(j) == IF j.op = "add" THEN j.trust.keys \cup {j.ca} ELSE j.trust.keys \ {j.ca}

WriteTrust(ok) ==
    /\ job.pc = "writeTrust"
    /\ Fault(~ok)
    /\ IF ok THEN /\ trust' = [exists |-> TRUE, keys |-> NewKeys(job)]
                  /\ At(IF job.op = "add" THEN "writeConf" ELSE "validate")
                  /\ UNCHANGED result
             ELSE Return("failed") /\ UNCHANGED trust
    /\ UNCHANGED <<conf, running, accepts, before, unread, dirty, crashes, runs>>

\* The configuration as it was read, with the directive.  If the write fails only
\* the trust file is restored, and sshd, which has seen nothing, is not reloaded.
WriteConf(ok) ==
    /\ job.pc = "writeConf"
    /\ Fault(~ok)
    /\ IF ok THEN conf' = [exists |-> TRUE, base |-> job.conf.base, ref |-> TRUE] /\ At("validate")
             ELSE job' = [job EXCEPT !.pc = "restoreTrust", !.reload = FALSE] /\ UNCHANGED conf
    /\ UNCHANGED <<trust, running, accepts, before, unread, result, dirty, crashes, runs>>

-----------------------------------------------------------------------------
(* validateReloadHealth *)

\* sshd -t; it may also fail for a reason of its own.
Validate(ok) ==
    /\ job.pc = "validate"
    /\ ok => Valid(conf)
    /\ Fault(~ok /\ Valid(conf))
    /\ At(IF ok THEN "reload" ELSE "restoreTrust")
    /\ UNCHANGED <<trust, conf, running, accepts, before, unread, result, dirty, crashes, runs>>

Reload(ok) ==
    /\ job.pc = "reload"
    /\ Fault(~ok)
    /\ running' = IF ok THEN conf ELSE running
    /\ At(IF ok THEN "health" ELSE "restoreTrust")
    /\ UNCHANGED <<trust, conf, accepts, before, unread, result, dirty, crashes, runs>>

\* Mutant of HealthCheck: the operation has succeeded once sshd is reloaded.
HealthCheckLate(ok) ==
    /\ job.pc = "health"
    /\ Fault(~ok)
    /\ IF ok THEN Return("changed") ELSE At("restoreTrust") /\ result' = "changed"
    /\ UNCHANGED <<trust, conf, running, accepts, before, unread, dirty, crashes, runs>>

\* The change is kept only if sshd still takes connections.
HealthCheck(ok) ==
    /\ job.pc = "health"
    /\ Fault(~ok)
    /\ IF ok THEN Return("changed") ELSE At("restoreTrust") /\ UNCHANGED result
    /\ UNCHANGED <<trust, conf, running, accepts, before, unread, dirty, crashes, runs>>

-----------------------------------------------------------------------------
(* rollbackFiles: every step is tried, whatever became of the one before. *)

Failing(ok, pc) == job' = [job EXCEPT !.pc = pc, !.failed = @ \/ ~ok]

\* restore of the trust file: a file that was not there is removed again.
RestoreTrust(ok) ==
    /\ job.pc = "restoreTrust"
    /\ Fault(~ok)
    /\ trust' = IF ok THEN job.trust ELSE trust
    /\ Failing(ok, IF job.reload THEN "restoreConf" ELSE "rolledBack")
    /\ UNCHANGED <<conf, running, accepts, before, unread, result, dirty, crashes, runs>>

\* A file that was not there is removed again; removing a missing one is an error.
RestoreConf(ok) ==
    /\ job.pc = "restoreConf"
    /\ ok => conf.exists \/ job.conf.exists
    /\ Fault(~ok /\ (conf.exists \/ job.conf.exists))
    /\ conf' = IF ok THEN job.conf ELSE conf
    /\ Failing(ok, "reloadRestored")
    /\ UNCHANGED <<trust, running, accepts, before, unread, result, dirty, crashes, runs>>

\* sshd is reloaded with whatever sshd_config now says.
ReloadRestored(ok) ==
    /\ job.pc = "reloadRestored"
    /\ Fault(~ok)
    /\ running' = IF ok THEN conf ELSE running
    /\ Failing(ok, "rolledBack")
    /\ UNCHANGED <<trust, conf, accepts, before, unread, result, dirty, crashes, runs>>

\* Mutant of RolledBack: a failed restore is reported as a rollback.
RolledBackAnyway ==
    /\ job.pc = "rolledBack"
    /\ Return("rolled back")
    /\ UNCHANGED <<trust, conf, running, accepts, before, unread, dirty, faults, crashes, runs>>

RolledBack ==
    /\ job.pc = "rolledBack"
    /\ Return(IF job.failed THEN "rollback failed" ELSE "rolled back")
    /\ dirty' = (dirty \/ job.failed)
    /\ UNCHANGED <<trust, conf, running, accepts, before, unread, faults, crashes, runs>>

\* The agent dies.
Crash ==
    /\ job # Idle /\ crashes < MaxCrashes
    /\ crashes' = crashes + 1
    /\ Return("crashed")
    /\ dirty' = TRUE
    /\ UNCHANGED <<trust, conf, running, accepts, before, unread, faults, runs>>

\* Any host: with or without the files, the operator's directives and other CAs.
Init ==
    /\ \E keys \in SUBSET Cas : trust \in {NoTrust, [exists |-> TRUE, keys |-> keys]}
    /\ conf \in {NoConf} \cup [exists : {TRUE}, base : BOOLEAN, ref : BOOLEAN]
    /\ accepts \in BOOLEAN /\ Valid(conf)
    /\ running = conf
    /\ job = Idle /\ before = [op |-> "none", ca |-> NoCa, trust |-> trust, conf |-> conf]
    /\ unread = FALSE /\ result = "none" /\ dirty = FALSE
    /\ faults = 0 /\ crashes = 0 /\ runs = 0

Next ==
    \/ \E ca \in Cas, okT, okC \in BOOLEAN : AddCATrust(ca, okT, okC) \/ RemoveCATrust(ca, okT, okC)
    \/ \E ok \in BOOLEAN : \/ WriteTrust(ok) \/ WriteConf(ok) \/ Validate(ok) \/ Reload(ok) \/ HealthCheck(ok)
                           \/ RestoreTrust(ok) \/ RestoreConf(ok) \/ ReloadRestored(ok)
    \/ RolledBack \/ Crash

Spec == Init /\ [][Next]_vars

-----------------------------------------------------------------------------
(* Properties *)

TrustFile == [exists : BOOLEAN, keys : SUBSET Cas]
ConfFile  == [exists : BOOLEAN, base : BOOLEAN, ref : BOOLEAN]

Ops       == {"none", "add", "remove"}
Pcs       == {"idle", "writeTrust", "writeConf", "validate", "reload", "health", "restoreTrust",
              "restoreConf", "reloadRestored", "rolledBack"}
Jobs      == [pc : Pcs, op : Ops, ca : Cas \cup {NoCa}, trust : TrustFile, conf : ConfFile,
              reload : BOOLEAN, failed : BOOLEAN]
Befores   == [op : Ops, ca : Cas \cup {NoCa}, trust : TrustFile, conf : ConfFile]
Results   == {"none", "unchanged", "failed", "changed", "rolled back", "rollback failed", "crashed"}

\* The variables have their types, and a file that does not exist is empty.
TypeOK ==
    /\ trust \in TrustFile /\ conf \in ConfFile /\ running \in ConfFile
    /\ job \in Jobs /\ before \in Befores /\ result \in Results
    /\ accepts \in BOOLEAN /\ unread \in BOOLEAN /\ dirty \in BOOLEAN
    /\ faults \in 0..MaxFaults /\ crashes \in 0..MaxCrashes /\ runs \in 0..MaxRuns
    /\ (~trust.exists => trust = NoTrust) /\ (~conf.exists => conf = NoConf)

\* "Rolled back to last-known-good" is true: whichever step failed, when that is
\* returned both files are as they were, and sshd runs what it ran before unless
\* an earlier crash or failed restore had left a configuration it had not loaded.
RolledBackRestores ==
    result = "rolled back" /\ ~unread =>
        /\ trust = before.trust /\ conf = before.conf
        /\ ~dirty => running = conf

\* Additive-first: while AddCATrust runs, after it has, when it fails, when its rollback fails and
\* when the agent dies in it, every CA that was trusted still is, and the operator's
\* directives are still there, if the files could be read.
AddKeepsTrust ==
    before.op = "add" /\ ~unread =>
        /\ before.trust.keys \subseteq trust.keys
        /\ before.conf.base => conf.base

\* What is reported is in force: when a CA is reported added, or, with no unfinished
\* change around, already trusted, it is in the file that the configuration sshd
\* runs references, and sshd -t has accepted that configuration.
ReportedIsServed ==
    /\ result = "changed" => running = conf /\ Valid(running)
    /\ before.op = "add" /\ (result = "changed" \/ (result = "unchanged" /\ ~dirty)) =>
         before.ca \in trust.keys /\ running.ref

=============================================================================
