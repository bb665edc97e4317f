--------------------------- MODULE SshTrustProofs ---------------------------
(***************************************************************************)
(* Proofs about the agent's SSH trust rewrite, for any set of CAs and any  *)
(* number of runs, failed steps and deaths of the agent: a rollback that   *)
(* is reported restores, an addition takes no trust away, and what is      *)
(* reported is what sshd serves.                                           *)
(***************************************************************************)
EXTENDS SshTrust, TLAPS

Changing    == {"validate", "reload", "health"}
RollingBack == {"restoreTrust", "restoreConf", "reloadRestored", "rolledBack"}

\* A backup of a file that was not there is empty.
BackupsSound == (~job.trust.exists => job.trust = NoTrust) /\ (~job.conf.exists => job.conf = NoConf)

\* A running operation is the one `before' is about; when its files could be read
\* its backups are the files as they were.
OperationSound ==
    /\ job.pc = "idle" => job = Idle
    /\ job.pc # "idle" =>
         /\ job.op = before.op /\ job.op \in {"add", "remove"}
         /\ job.ca = before.ca /\ job.ca \in Cas
         /\ result = "none"
         /\ ~unread => job.trust = before.trust /\ job.conf = before.conf

\* How far the files have come, before a rollback and in one.
FilesSound ==
    /\ job.pc = "writeTrust" => trust = before.trust
    /\ job.pc \in {"writeTrust", "writeConf"} => conf = before.conf
    /\ job.pc \in {"writeConf"} \cup Changing => trust.keys = NewKeys(job)
    /\ job.pc = "writeConf" => job.op = "add"
    /\ job.pc \in Changing /\ job.op = "add" => conf.ref
    /\ job.pc \in {"restoreConf", "reloadRestored", "rolledBack"} /\ ~job.failed => trust = job.trust
    /\ job.pc \in {"reloadRestored", "rolledBack"} /\ job.reload /\ ~job.failed => conf = job.conf

\* reload is cleared only by a failed write of sshd_config, which leaves it as it was.
ReloadSound ==
    /\ job.pc \in {"writeTrust", "writeConf", "restoreConf", "reloadRestored"} \cup Changing => job.reload
    /\ job.pc \in RollingBack /\ ~job.reload => conf = before.conf
    /\ job.failed => job.pc \in RollingBack \ {"restoreTrust"}

\* What sshd runs: sshd_config, unless a change is under way or was left unfinished.
RunningSound ==
    /\ job.pc \in {"reload", "health"} => Valid(conf)
    /\ job.pc = "health" => running = conf
    /\ ~dirty /\ job.pc \in {"idle", "writeTrust", "writeConf"} => running = conf
    /\ ~dirty /\ job.pc \in RollingBack /\ ~job.reload => running = conf
    /\ job.pc = "rolledBack" /\ job.reload /\ ~job.failed => running = conf

\* The three properties speak of the end of an operation; the parts above say how
\* each of its steps gets there.
IInv ==
    /\ TypeOK /\ BackupsSound /\ OperationSound /\ FilesSound /\ ReloadSound /\ RunningSound
    /\ RolledBackRestores /\ AddKeepsTrust /\ ReportedIsServed

-----------------------------------------------------------------------------
(* The proof *)

\* A step that fails leaves the count of faults within its bound.
LEMMA FaultBounded ==
    ASSUME faults \in 0..MaxFaults, NEW failed \in BOOLEAN, Fault(failed)
    PROVE  faults' \in 0..MaxFaults
  BY SshTrustAssumption DEF Fault, SshTrustAssumption

\* An operation that has ended, and files that are not there, are typed.
LEMMA NoFilesTyped == NoTrust \in TrustFile /\ NoConf \in ConfFile
  BY DEF NoTrust, NoConf, TrustFile, ConfFile

LEMMA IdleTyped == Idle \in Jobs
  BY NoFilesTyped DEF Idle, Jobs, Ops, Pcs

\* The steps of a change and of a rollback move the operation on.
LEMMA MovedTyped ==
    ASSUME job \in Jobs, NEW pc \in Pcs
    PROVE  [job EXCEPT !.pc = pc] \in Jobs
  BY DEF Jobs

LEMMA FailingTyped ==
    ASSUME job \in Jobs, NEW pc \in Pcs, NEW ok \in BOOLEAN, Failing(ok, pc)
    PROVE  job' \in Jobs
  BY DEF Jobs, Failing

\* What an operation has read: the file, or nothing; nothing is read from a file that
\* is there only if `unread' records it.
LEMMA ReadTyped ==
    ASSUME TypeOK, NEW okT \in BOOLEAN, NEW okC \in BOOLEAN
    PROVE  LET t == Read(trust, NoTrust, okT)
               c == Read(conf, NoConf, okC)
           IN /\ t \in TrustFile /\ c \in ConfFile
              /\ ~t.exists => t = NoTrust
              /\ ~c.exists => c = NoConf
              /\ ~((~okT /\ trust.exists) \/ (~okC /\ conf.exists)) => t = trust /\ c = conf
  BY NoFilesTyped DEF TypeOK, Read

\* The operation that has ended.
LEMMA IdleFields ==
    ASSUME NEW j, j = Idle
    PROVE  j \in Jobs /\ j.pc = "idle" /\ j.failed = FALSE /\ j.trust = NoTrust /\ j.conf = NoConf
  BY IdleTyped DEF Idle

\* Initially no operation runs and sshd has loaded the valid sshd_config.
LEMMA InitIInv == Init => IInv
  <1> SUFFICES ASSUME Init PROVE IInv
    OBVIOUS
  <1>1. trust \in TrustFile /\ (~trust.exists => trust = NoTrust)
    <2>1. PICK keys \in SUBSET Cas : trust \in {NoTrust, [exists |-> TRUE, keys |-> keys]}
      BY DEF Init
    <2>2. CASE trust = NoTrust
      BY <2>2, NoFilesTyped
    <2>3. CASE trust = [exists |-> TRUE, keys |-> keys]
      BY <2>3 DEF TrustFile
    <2>4. QED BY <2>1, <2>2, <2>3
  <1>2. conf \in ConfFile /\ (~conf.exists => conf = NoConf)
    BY NoFilesTyped DEF Init, ConfFile
  <1>3. job \in Jobs /\ job.pc = "idle" /\ job.failed = FALSE /\ job.trust = NoTrust /\ job.conf = NoConf
    BY IdleTyped DEF Init, Idle
  <1>4. before \in Befores /\ before.op = "none"
    BY <1>1, <1>2 DEF Init, Befores, Ops
  <1>5. TypeOK
    <2>1. accepts \in BOOLEAN /\ unread \in BOOLEAN /\ dirty \in BOOLEAN
      BY DEF Init
    <2>2. faults \in 0..MaxFaults /\ crashes \in 0..MaxCrashes /\ runs \in 0..MaxRuns
      BY SshTrustAssumption DEF Init
    <2>3. running \in ConfFile /\ result \in Results
      BY <1>2 DEF Init, Results
    <2>4. QED BY <1>1, <1>2, <1>3, <1>4, <2>1, <2>2, <2>3 DEF TypeOK
  <1>6. BackupsSound /\ OperationSound
    BY <1>3 DEF Init, BackupsSound, OperationSound
  <1>7. FilesSound /\ ReloadSound /\ RunningSound
    BY <1>3 DEF Init, FilesSound, ReloadSound, RunningSound, Changing, RollingBack
  <1>8. RolledBackRestores /\ AddKeepsTrust /\ ReportedIsServed
    BY <1>4 DEF Init, RolledBackRestores, AddKeepsTrust, ReportedIsServed
  <1>9. QED BY <1>5, <1>6, <1>7, <1>8 DEF IInv

\* AddCATrust begins: both files are read, and the CA may already be trusted.
LEMMA AddIInv ==
    ASSUME IInv, NEW ca \in Cas, NEW okT \in BOOLEAN, NEW okC \in BOOLEAN, AddCATrust(ca, okT, okC)
    PROVE  IInv'
  <1> DEFINE t == Read(trust, NoTrust, okT)
             c == Read(conf, NoConf, okC)
  <1>1. TypeOK /\ OperationSound /\ RunningSound /\ job = Idle /\ job.pc = "idle"
    BY DEF IInv, AddCATrust, Begin, Idle
  <1>2. /\ t \in TrustFile /\ c \in ConfFile
        /\ ~t.exists => t = NoTrust
        /\ ~c.exists => c = NoConf
        /\ ~unread' => t = trust /\ c = conf
    BY <1>1, ReadTyped DEF AddCATrust, Begin
  <1>3. /\ before' = [op |-> "add", ca |-> ca, trust |-> trust, conf |-> conf]
        /\ UNCHANGED <<trust, conf, running, accepts, dirty, crashes>>
    BY DEF AddCATrust, Begin
  <1>4. \/ ca \in t.keys /\ c.ref /\ job' = Idle /\ result' = "unchanged"
        \/ job' = Started("add", ca, t, c) /\ result' = "none"
    BY DEF AddCATrust, Return
  <1>5. ~dirty => running = conf
    BY <1>1 DEF RunningSound
  <1> HIDE DEF t, c
  <1>6. ASSUME job' = Started("add", ca, t, c)
        PROVE  /\ job' \in Jobs /\ job'.pc = "writeTrust" /\ job'.op = "add" /\ job'.ca = ca
               /\ job'.trust = t /\ job'.conf = c /\ job'.reload = TRUE /\ job'.failed = FALSE
    BY <1>2, <1>6 DEF Started, Idle, Jobs, Ops, Pcs
  <1>7. /\ job' \in Jobs
        /\ \/ ca \in t.keys /\ c.ref /\ job' = Idle /\ job'.pc = "idle" /\ job'.failed = FALSE /\ result' = "unchanged"
              /\ job'.trust = NoTrust /\ job'.conf = NoConf
           \/ /\ job'.pc = "writeTrust" /\ job'.op = "add" /\ job'.ca = ca /\ job'.trust = t /\ job'.conf = c
              /\ job'.reload = TRUE /\ job'.failed = FALSE /\ result' = "none"
    <2>1. CASE job' = Idle /\ result' = "unchanged" /\ ca \in t.keys /\ c.ref
      BY <2>1, IdleFields
    <2>2. CASE job' = Started("add", ca, t, c) /\ result' = "none"
      BY <1>6, <2>2
    <2>3. QED BY <1>4, <2>1, <2>2
  <1>8. TypeOK'
    <2>1. before' \in Befores
      BY <1>1, <1>3 DEF TypeOK, Befores, Ops
    <2>2. unread' \in BOOLEAN /\ runs' \in 0..MaxRuns
      BY <1>1, SshTrustAssumption DEF AddCATrust, Begin, TypeOK
    <2>3. faults' \in 0..MaxFaults
      BY <1>1, FaultBounded DEF AddCATrust, Begin, TypeOK
    <2>4. QED BY <1>1, <1>3, <1>7, <2>1, <2>2, <2>3 DEF TypeOK, Results
  <1>9. BackupsSound' /\ OperationSound'
    BY <1>2, <1>3, <1>7 DEF BackupsSound, OperationSound
  <1>10. FilesSound'
    BY <1>3, <1>7 DEF FilesSound, Changing
  <1>11. ReloadSound' /\ RunningSound'
    BY <1>3, <1>5, <1>7 DEF ReloadSound, RunningSound, Changing, RollingBack
  <1>12. RolledBackRestores' /\ AddKeepsTrust'
    BY <1>3, <1>7 DEF RolledBackRestores, AddKeepsTrust
  <1>13. ReportedIsServed'
    BY <1>1, <1>3, <1>5, <1>7 DEF ReportedIsServed, t, c, Read, NoTrust, NoConf
  <1>14. QED BY <1>8, <1>9, <1>10, <1>11, <1>12, <1>13 DEF IInv

\* RemoveCATrust begins.
LEMMA RemoveIInv ==
    ASSUME IInv, NEW ca \in Cas, NEW okT \in BOOLEAN, NEW okC \in BOOLEAN, RemoveCATrust(ca, okT, okC)
    PROVE  IInv'
  <1> DEFINE t == Read(trust, NoTrust, okT)
             c == Read(conf, NoConf, okC)
  <1>1. TypeOK /\ OperationSound /\ RunningSound /\ job = Idle /\ job.pc = "idle"
    BY DEF IInv, RemoveCATrust, Begin, Idle
  <1>2. /\ t \in TrustFile /\ c \in ConfFile
        /\ ~t.exists => t = NoTrust
        /\ ~c.exists => c = NoConf
        /\ ~unread' => t = trust /\ c = conf
    BY <1>1, ReadTyped DEF RemoveCATrust, Begin
  <1>3. /\ before' = [op |-> "remove", ca |-> ca, trust |-> trust, conf |-> conf]
        /\ UNCHANGED <<trust, conf, running, accepts, dirty, crashes>>
    BY DEF RemoveCATrust, Begin
  <1>4. \/ ca \notin t.keys /\ job' = Idle /\ result' = "unchanged"
        \/ job' = Started("remove", ca, t, c) /\ result' = "none"
    BY DEF RemoveCATrust, Return
  <1>5. ~dirty => running = conf
    BY <1>1 DEF RunningSound
  <1> HIDE DEF t, c
  <1>6. ASSUME job' = Started("remove", ca, t, c)
        PROVE  /\ job' \in Jobs /\ job'.pc = "writeTrust" /\ job'.op = "remove" /\ job'.ca = ca
               /\ job'.trust = t /\ job'.conf = c /\ job'.reload = TRUE /\ job'.failed = FALSE
    BY <1>2, <1>6 DEF Started, Idle, Jobs, Ops, Pcs
  <1>7. /\ job' \in Jobs
        /\ \/ ca \notin t.keys /\ job' = Idle /\ job'.pc = "idle" /\ job'.failed = FALSE /\ result' = "unchanged"
              /\ job'.trust = NoTrust /\ job'.conf = NoConf
           \/ /\ job'.pc = "writeTrust" /\ job'.op = "remove" /\ job'.ca = ca /\ job'.trust = t /\ job'.conf = c
              /\ job'.reload = TRUE /\ job'.failed = FALSE /\ result' = "none"
    <2>1. CASE job' = Idle /\ result' = "unchanged" /\ ca \notin t.keys
      BY <2>1, IdleFields
    <2>2. CASE job' = Started("remove", ca, t, c) /\ result' = "none"
      BY <1>6, <2>2
    <2>3. QED BY <1>4, <2>1, <2>2
  <1>8. TypeOK'
    <2>1. before' \in Befores
      BY <1>1, <1>3 DEF TypeOK, Befores, Ops
    <2>2. unread' \in BOOLEAN /\ runs' \in 0..MaxRuns
      BY <1>1, SshTrustAssumption DEF RemoveCATrust, Begin, TypeOK
    <2>3. faults' \in 0..MaxFaults
      BY <1>1, FaultBounded DEF RemoveCATrust, Begin, TypeOK
    <2>4. QED BY <1>1, <1>3, <1>7, <2>1, <2>2, <2>3 DEF TypeOK, Results
  <1>9. BackupsSound' /\ OperationSound'
    BY <1>2, <1>3, <1>7 DEF BackupsSound, OperationSound
  <1>10. FilesSound'
    BY <1>3, <1>7 DEF FilesSound, Changing
  <1>11. ReloadSound' /\ RunningSound'
    BY <1>3, <1>5, <1>7 DEF ReloadSound, RunningSound, Changing, RollingBack
  <1>12. RolledBackRestores' /\ AddKeepsTrust'
    BY <1>3, <1>7 DEF RolledBackRestores, AddKeepsTrust
  <1>13. ReportedIsServed'
    BY <1>1, <1>3, <1>5, <1>7 DEF ReportedIsServed, t, c, Read, NoTrust, NoConf
  <1>14. QED BY <1>8, <1>9, <1>10, <1>11, <1>12, <1>13 DEF IInv

\* The trust file is written, or the operation fails with nothing changed.
LEMMA WriteTrustIInv ==
    ASSUME IInv, NEW ok \in BOOLEAN, WriteTrust(ok)
    PROVE  IInv'
  <1> USE DEF IInv
  <1>0. \/ ~ok /\ job' = Idle
        \/ ok /\ job' = [job EXCEPT !.pc = IF job.op = "add" THEN "writeConf" ELSE "validate"]
    BY DEF WriteTrust, At, Return
  <1>1. TypeOK'
    <2>1. job' \in Jobs
      BY MovedTyped, IdleTyped DEF TypeOK, Pcs, At, Return, WriteTrust
    <2>2. trust' \in TrustFile /\ conf' \in ConfFile /\ running' \in ConfFile
      <3>1. job.trust.keys \in SUBSET Cas /\ job.ca \in Cas
        BY DEF TypeOK, OperationSound, WriteTrust, Jobs, TrustFile
      <3>2. NewKeys(job) \in SUBSET Cas
        BY <3>1 DEF NewKeys
      <3>3. [exists |-> TRUE, keys |-> NewKeys(job)] \in TrustFile
        BY <3>2 DEF TrustFile
      <3>4. QED BY <3>3 DEF TypeOK, WriteTrust
    <2>3. faults' \in 0..MaxFaults /\ crashes' \in 0..MaxCrashes
      BY FaultBounded DEF TypeOK, WriteTrust
    <2>4. (~trust'.exists => trust' = NoTrust) /\ (~conf'.exists => conf' = NoConf)
      BY DEF TypeOK, WriteTrust, TrustFile
    <2>5. QED BY <2>1, <2>2, <2>3, <2>4 DEF TypeOK, Results, WriteTrust, Return
  <1>2. BackupsSound'
    <2>1. CASE job' = Idle
      BY <2>1, IdleFields DEF BackupsSound
    <2>2. CASE job' = [job EXCEPT !.pc = IF job.op = "add" THEN "writeConf" ELSE "validate"]
      BY <2>2 DEF BackupsSound, TypeOK, Jobs
    <2>3. QED BY <1>0, <2>1, <2>2
  <1>3. OperationSound'
    BY DEF TypeOK, OperationSound, BackupsSound, TrustFile, ConfFile, Jobs, Befores, Ops, Pcs,
       WriteTrust, Fault, At, Return, Idle, NewKeys, NoTrust, NoConf
  <1>4. FilesSound'
    <2>1. CASE job' = Idle
      BY <2>1, IdleFields DEF FilesSound, Changing
    <2>2. CASE ok /\ job' = [job EXCEPT !.pc = IF job.op = "add" THEN "writeConf" ELSE "validate"]
      <3>1. job'.pc = (IF job.op = "add" THEN "writeConf" ELSE "validate") /\ NewKeys(job') = NewKeys(job)
            /\ job'.op = job.op /\ trust'.keys = NewKeys(job)
        BY <2>2 DEF TypeOK, Jobs, NewKeys, WriteTrust
      <3>2. conf' = before'.conf
        BY DEF WriteTrust, FilesSound
      <3>3. QED BY <3>1, <3>2 DEF FilesSound, Changing, NewKeys
    <2>3. QED BY <1>0, <2>1, <2>2
  <1>5. ReloadSound'
    BY DEF TypeOK, ReloadSound, OperationSound, FilesSound, Changing, RollingBack, TrustFile,
       ConfFile, Jobs, Befores, Ops, Pcs, WriteTrust, Fault, At, Return, Idle, NewKeys, NoTrust,
       NoConf
  <1>6. RunningSound'
    BY DEF TypeOK, RunningSound, ReloadSound, OperationSound, FilesSound, Valid, Changing,
       RollingBack, TrustFile, ConfFile, Jobs, Befores, Ops, Pcs, WriteTrust, Fault, At, Return,
       Idle, NewKeys, NoTrust, NoConf
  <1>7. RolledBackRestores'
    BY DEF TypeOK, RolledBackRestores, RunningSound, ReloadSound, FilesSound, OperationSound,
       Changing, RollingBack, TrustFile, ConfFile, Jobs, Befores, Ops, Pcs, WriteTrust, Fault, At,
       Return, Idle, NewKeys, NoTrust, NoConf
  <1>8. AddKeepsTrust'
    BY DEF TypeOK, AddKeepsTrust, OperationSound, FilesSound, ReloadSound, NewKeys, Changing,
       RollingBack, TrustFile, ConfFile, Jobs, Befores, Ops, Pcs, WriteTrust, Fault, At, Return,
       Idle, NoTrust, NoConf
  <1>9. ReportedIsServed'
    BY DEF TypeOK, ReportedIsServed, OperationSound, FilesSound, RunningSound, NewKeys, Valid,
       Changing, RollingBack, TrustFile, ConfFile, Jobs, Befores, Ops, Pcs, WriteTrust, Fault, At,
       Return, Idle, NoTrust, NoConf
  <1>10. QED BY <1>1, <1>2, <1>3, <1>4, <1>5, <1>6, <1>7, <1>8, <1>9 DEF IInv

\* sshd_config is written, or only the trust file will be restored.
LEMMA WriteConfIInv ==
    ASSUME IInv, NEW ok \in BOOLEAN, WriteConf(ok)
    PROVE  IInv'
  <1> USE DEF IInv
  <1>0. \/ /\ ok /\ job' = [job EXCEPT !.pc = "validate"]
           /\ conf' = [exists |-> TRUE, base |-> job.conf.base, ref |-> TRUE]
        \/ ~ok /\ job' = [job EXCEPT !.pc = "restoreTrust", !.reload = FALSE] /\ conf' = conf
    BY DEF WriteConf, At
  <1>a. job.conf.base \in BOOLEAN /\ job.reload = TRUE
    BY DEF TypeOK, Jobs, ConfFile, ReloadSound, WriteConf
  <1>1. TypeOK'
    <2>1. job' \in Jobs
      BY <1>0 DEF TypeOK, Jobs, Pcs
    <2>2. trust' \in TrustFile /\ conf' \in ConfFile /\ running' \in ConfFile
      <3>1. [exists |-> TRUE, base |-> job.conf.base, ref |-> TRUE] \in ConfFile
        BY <1>a DEF ConfFile
      <3>2. QED BY <1>0, <3>1 DEF TypeOK, WriteConf
    <2>3. faults' \in 0..MaxFaults /\ crashes' \in 0..MaxCrashes
      BY FaultBounded DEF TypeOK, WriteConf
    <2>4. (~trust'.exists => trust' = NoTrust) /\ (~conf'.exists => conf' = NoConf)
      BY DEF TypeOK, WriteConf, ConfFile
    <2>5. QED BY <2>1, <2>2, <2>3, <2>4 DEF TypeOK, Results, WriteConf
  <1>2. BackupsSound'
    BY DEF TypeOK, BackupsSound, TrustFile, ConfFile, Jobs, Pcs, NoTrust, NoConf, WriteConf, Fault,
       At
  <1>3. OperationSound'
    BY ZenonT(30) DEF TypeOK, OperationSound, BackupsSound, TrustFile, ConfFile, Jobs, Befores, Ops, Pcs,
       WriteConf, Fault, At
  <1>4. FilesSound'
    <2>1. trust' = trust /\ job.op = "add" /\ trust.keys = NewKeys(job) /\ NewKeys(job') = NewKeys(job)
      BY <1>0 DEF FilesSound, WriteConf, NewKeys, TypeOK, Jobs
    <2>2. \/ job'.pc = "validate" /\ job'.op = "add" /\ conf'.ref = TRUE
          \/ job'.pc = "restoreTrust"
      <3>1. CASE ok
        BY <1>0, <2>1, <3>1 DEF TypeOK, Jobs
      <3>2. CASE ~ok
        BY <1>0, <3>2 DEF TypeOK, Jobs
      <3>3. QED BY <3>1, <3>2
    <2>3. QED BY <2>1, <2>2 DEF FilesSound, Changing, NewKeys
  <1>5. ReloadSound'
    <2>1. \/ job'.pc = "validate" /\ job'.reload = TRUE /\ job'.failed = job.failed
          \/ job'.pc = "restoreTrust" /\ conf' = conf /\ job'.failed = job.failed
      BY <1>0, <1>a DEF TypeOK, Jobs
    <2>2. conf = before.conf /\ before' = before /\ ~job.failed
      BY DEF FilesSound, ReloadSound, WriteConf, RollingBack
    <2>3. QED BY <2>1, <2>2 DEF ReloadSound, Changing, RollingBack
  <1>6. RunningSound'
    <2>1. job'.pc = "validate" \/ (job'.pc = "restoreTrust" /\ conf' = conf)
      BY <1>0 DEF TypeOK, Jobs
    <2>2. (~dirty => running = conf) /\ running' = running /\ dirty' = dirty
      BY DEF RunningSound, WriteConf
    <2>3. QED BY <2>1, <2>2 DEF RunningSound, RollingBack
  <1>7. RolledBackRestores'
    BY DEF TypeOK, RolledBackRestores, RunningSound, ReloadSound, FilesSound, OperationSound,
       Changing, RollingBack, TrustFile, ConfFile, Jobs, Befores, Ops, Pcs, WriteConf, Fault, At
  <1>8. AddKeepsTrust'
    BY DEF TypeOK, AddKeepsTrust, OperationSound, FilesSound, ReloadSound, NewKeys, Changing,
       RollingBack, TrustFile, ConfFile, Jobs, Befores, Ops, Pcs, WriteConf, Fault, At
  <1>9. ReportedIsServed'
    BY DEF TypeOK, ReportedIsServed, OperationSound, FilesSound, RunningSound, NewKeys, Valid,
       Changing, RollingBack, TrustFile, ConfFile, Jobs, Befores, Ops, Pcs, WriteConf, Fault, At
  <1>10. QED BY <1>1, <1>2, <1>3, <1>4, <1>5, <1>6, <1>7, <1>8, <1>9 DEF IInv

\* sshd -t.
LEMMA ValidateIInv ==
    ASSUME IInv, NEW ok \in BOOLEAN, Validate(ok)
    PROVE  IInv'
  <1> USE DEF IInv
  <1>1. TypeOK'
    <2>1. job' \in Jobs
      BY MovedTyped DEF TypeOK, Pcs, At, Validate
    <2>2. trust' \in TrustFile /\ conf' \in ConfFile /\ running' \in ConfFile
      BY DEF TypeOK, Jobs, Validate
    <2>3. faults' \in 0..MaxFaults /\ crashes' \in 0..MaxCrashes
      BY FaultBounded DEF TypeOK, Validate
    <2>4. (~trust'.exists => trust' = NoTrust) /\ (~conf'.exists => conf' = NoConf)
      BY DEF TypeOK, Validate
    <2>5. QED BY <2>1, <2>2, <2>3, <2>4 DEF TypeOK, Results, Validate
  <1>2. BackupsSound'
    BY DEF TypeOK, BackupsSound, TrustFile, ConfFile, Jobs, Pcs, NoTrust, NoConf, Validate, Fault,
       At
  <1>3. OperationSound'
    BY DEF TypeOK, OperationSound, BackupsSound, TrustFile, ConfFile, Jobs, Befores, Ops, Pcs,
       Validate, Fault, At
  <1>4. FilesSound'
    BY DEF TypeOK, FilesSound, OperationSound, TrustFile, ConfFile, NewKeys, Changing, Jobs, Befores,
       Ops, Pcs, Validate, Fault, At
  <1>5. ReloadSound'
    BY DEF TypeOK, ReloadSound, OperationSound, FilesSound, Changing, RollingBack, TrustFile,
       ConfFile, Jobs, Befores, Ops, Pcs, Validate, Fault, At
  <1>6. RunningSound'
    BY DEF TypeOK, RunningSound, ReloadSound, OperationSound, FilesSound, Valid, Changing,
       RollingBack, TrustFile, ConfFile, Jobs, Befores, Ops, Pcs, Validate, Fault, At
  <1>7. RolledBackRestores'
    BY DEF TypeOK, RolledBackRestores, RunningSound, ReloadSound, FilesSound, OperationSound,
       Changing, RollingBack, TrustFile, ConfFile, Jobs, Befores, Ops, Pcs, Validate, Fault, At
  <1>8. AddKeepsTrust'
    BY DEF TypeOK, AddKeepsTrust, OperationSound, FilesSound, ReloadSound, NewKeys, Changing,
       RollingBack, TrustFile, ConfFile, Jobs, Befores, Ops, Pcs, Validate, Fault, At
  <1>9. ReportedIsServed'
    BY DEF TypeOK, ReportedIsServed, OperationSound, FilesSound, RunningSound, NewKeys, Valid,
       Changing, RollingBack, TrustFile, ConfFile, Jobs, Befores, Ops, Pcs, Validate, Fault, At
  <1>10. QED BY <1>1, <1>2, <1>3, <1>4, <1>5, <1>6, <1>7, <1>8, <1>9 DEF IInv

\* sshd loads the new configuration.
LEMMA ReloadIInv ==
    ASSUME IInv, NEW ok \in BOOLEAN, Reload(ok)
    PROVE  IInv'
  <1> USE DEF IInv
  <1>1. TypeOK'
    <2>1. job' \in Jobs
      BY MovedTyped DEF TypeOK, Pcs, At, Reload
    <2>2. trust' \in TrustFile /\ conf' \in ConfFile /\ running' \in ConfFile
      BY DEF TypeOK, Jobs, Reload
    <2>3. faults' \in 0..MaxFaults /\ crashes' \in 0..MaxCrashes
      BY FaultBounded DEF TypeOK, Reload
    <2>4. (~trust'.exists => trust' = NoTrust) /\ (~conf'.exists => conf' = NoConf)
      BY DEF TypeOK, Reload
    <2>5. QED BY <2>1, <2>2, <2>3, <2>4 DEF TypeOK, Results, Reload
  <1>2. BackupsSound'
    BY DEF TypeOK, BackupsSound, TrustFile, ConfFile, Jobs, Pcs, NoTrust, NoConf, Reload, Fault, At
  <1>3. OperationSound'
    BY DEF TypeOK, OperationSound, BackupsSound, TrustFile, ConfFile, Jobs, Befores, Ops, Pcs,
       Reload, Fault, At
  <1>4. FilesSound'
    BY DEF TypeOK, FilesSound, OperationSound, TrustFile, ConfFile, NewKeys, Changing, Jobs, Befores,
       Ops, Pcs, Reload, Fault, At
  <1>5. ReloadSound'
    BY DEF TypeOK, ReloadSound, OperationSound, FilesSound, Changing, RollingBack, TrustFile,
       ConfFile, Jobs, Befores, Ops, Pcs, Reload, Fault, At
  <1>6. RunningSound'
    BY DEF TypeOK, RunningSound, ReloadSound, OperationSound, FilesSound, Valid, Changing,
       RollingBack, TrustFile, ConfFile, Jobs, Befores, Ops, Pcs, Reload, Fault, At
  <1>7. RolledBackRestores'
    BY DEF TypeOK, RolledBackRestores, RunningSound, ReloadSound, FilesSound, OperationSound,
       Changing, RollingBack, TrustFile, ConfFile, Jobs, Befores, Ops, Pcs, Reload, Fault, At
  <1>8. AddKeepsTrust'
    BY DEF TypeOK, AddKeepsTrust, OperationSound, FilesSound, ReloadSound, NewKeys, Changing,
       RollingBack, TrustFile, ConfFile, Jobs, Befores, Ops, Pcs, Reload, Fault, At
  <1>9. ReportedIsServed'
    BY DEF TypeOK, ReportedIsServed, OperationSound, FilesSound, RunningSound, NewKeys, Valid,
       Changing, RollingBack, TrustFile, ConfFile, Jobs, Befores, Ops, Pcs, Reload, Fault, At
  <1>10. QED BY <1>1, <1>2, <1>3, <1>4, <1>5, <1>6, <1>7, <1>8, <1>9 DEF IInv

\* The change is reported, or rolled back.
LEMMA HealthIInv ==
    ASSUME IInv, NEW ok \in BOOLEAN, HealthCheck(ok)
    PROVE  IInv'
  <1> USE DEF IInv
  <1>0. \/ ok /\ job' = Idle
        \/ ~ok /\ job' = [job EXCEPT !.pc = "restoreTrust"]
    BY DEF HealthCheck, At, Return
  <1>1. TypeOK'
    <2>1. job' \in Jobs
      BY MovedTyped, IdleTyped DEF TypeOK, Pcs, At, Return, HealthCheck
    <2>2. trust' \in TrustFile /\ conf' \in ConfFile /\ running' \in ConfFile
      BY DEF TypeOK, Jobs, HealthCheck
    <2>3. faults' \in 0..MaxFaults /\ crashes' \in 0..MaxCrashes
      BY FaultBounded DEF TypeOK, HealthCheck
    <2>4. (~trust'.exists => trust' = NoTrust) /\ (~conf'.exists => conf' = NoConf)
      BY DEF TypeOK, HealthCheck
    <2>5. QED BY <2>1, <2>2, <2>3, <2>4 DEF TypeOK, Results, HealthCheck, Return
  <1>2. BackupsSound'
    <2>1. CASE job' = Idle
      BY <2>1, IdleFields DEF BackupsSound
    <2>2. CASE job' = [job EXCEPT !.pc = "restoreTrust"]
      BY <2>2 DEF BackupsSound, TypeOK, Jobs
    <2>3. QED BY <1>0, <2>1, <2>2
  <1>3. OperationSound'
    BY DEF TypeOK, OperationSound, BackupsSound, TrustFile, ConfFile, Jobs, Befores, Ops, Pcs,
       HealthCheck, Fault, At, Return, Idle, NoTrust, NoConf
  <1>4. FilesSound'
    BY DEF TypeOK, FilesSound, OperationSound, TrustFile, ConfFile, NewKeys, Changing, Jobs, Befores,
       Ops, Pcs, HealthCheck, Fault, At, Return, Idle, NoTrust, NoConf
  <1>5. ReloadSound'
    BY DEF TypeOK, ReloadSound, OperationSound, FilesSound, Changing, RollingBack, TrustFile,
       ConfFile, Jobs, Befores, Ops, Pcs, HealthCheck, Fault, At, Return, Idle, NoTrust, NoConf
  <1>6. RunningSound'
    BY DEF TypeOK, RunningSound, ReloadSound, OperationSound, FilesSound, Valid, Changing,
       RollingBack, TrustFile, ConfFile, Jobs, Befores, Ops, Pcs, HealthCheck, Fault, At, Return,
       Idle, NoTrust, NoConf
  <1>7. RolledBackRestores'
    BY DEF TypeOK, RolledBackRestores, RunningSound, ReloadSound, FilesSound, OperationSound,
       Changing, RollingBack, TrustFile, ConfFile, Jobs, Befores, Ops, Pcs, HealthCheck, Fault, At,
       Return, Idle, NoTrust, NoConf
  <1>8. AddKeepsTrust'
    BY DEF TypeOK, AddKeepsTrust, OperationSound, FilesSound, ReloadSound, NewKeys, Changing,
       RollingBack, TrustFile, ConfFile, Jobs, Befores, Ops, Pcs, HealthCheck, Fault, At, Return,
       Idle, NoTrust, NoConf
  <1>9. ReportedIsServed'
    BY DEF TypeOK, ReportedIsServed, OperationSound, FilesSound, RunningSound, NewKeys, Valid,
       Changing, RollingBack, TrustFile, ConfFile, Jobs, Befores, Ops, Pcs, HealthCheck, Fault, At,
       Return, Idle, NoTrust, NoConf
  <1>10. QED BY <1>1, <1>2, <1>3, <1>4, <1>5, <1>6, <1>7, <1>8, <1>9 DEF IInv

\* The trust file is restored from its backup.
LEMMA RestoreTrustIInv ==
    ASSUME IInv, NEW ok \in BOOLEAN, RestoreTrust(ok)
    PROVE  IInv'
  <1> USE DEF IInv
  <1>1. TypeOK'
    <2>1. job' \in Jobs
      BY FailingTyped DEF TypeOK, Pcs, RestoreTrust
    <2>2. trust' \in TrustFile /\ conf' \in ConfFile /\ running' \in ConfFile
      BY DEF TypeOK, Jobs, RestoreTrust
    <2>3. faults' \in 0..MaxFaults /\ crashes' \in 0..MaxCrashes
      BY FaultBounded DEF TypeOK, RestoreTrust
    <2>4. (~trust'.exists => trust' = NoTrust) /\ (~conf'.exists => conf' = NoConf)
      BY DEF TypeOK, RestoreTrust, BackupsSound
    <2>5. QED BY <2>1, <2>2, <2>3, <2>4 DEF TypeOK, Results, RestoreTrust
  <1>2. BackupsSound'
    BY DEF TypeOK, BackupsSound, TrustFile, ConfFile, Jobs, Pcs, NoTrust, NoConf, RestoreTrust,
       Fault, Failing
  <1>3. OperationSound'
    BY DEF TypeOK, OperationSound, BackupsSound, TrustFile, ConfFile, Jobs, Befores, Ops, Pcs,
       RestoreTrust, Fault, Failing
  <1>4. FilesSound'
    BY DEF TypeOK, FilesSound, OperationSound, TrustFile, ConfFile, NewKeys, Changing, Jobs, Befores,
       Ops, Pcs, RestoreTrust, Fault, Failing
  <1>5. ReloadSound'
    BY DEF TypeOK, ReloadSound, OperationSound, FilesSound, Changing, RollingBack, TrustFile,
       ConfFile, Jobs, Befores, Ops, Pcs, RestoreTrust, Fault, Failing
  <1>6. RunningSound'
    BY DEF TypeOK, RunningSound, ReloadSound, OperationSound, FilesSound, Valid, Changing,
       RollingBack, TrustFile, ConfFile, Jobs, Befores, Ops, Pcs, RestoreTrust, Fault, Failing
  <1>7. RolledBackRestores'
    BY DEF TypeOK, RolledBackRestores, RunningSound, ReloadSound, FilesSound, OperationSound,
       Changing, RollingBack, TrustFile, ConfFile, Jobs, Befores, Ops, Pcs, RestoreTrust, Fault,
       Failing
  <1>8. AddKeepsTrust'
    BY DEF TypeOK, AddKeepsTrust, OperationSound, FilesSound, ReloadSound, NewKeys, Changing,
       RollingBack, TrustFile, ConfFile, Jobs, Befores, Ops, Pcs, RestoreTrust, Fault, Failing
  <1>9. ReportedIsServed'
    BY DEF TypeOK, ReportedIsServed, OperationSound, FilesSound, RunningSound, NewKeys, Valid,
       Changing, RollingBack, TrustFile, ConfFile, Jobs, Befores, Ops, Pcs, RestoreTrust, Fault,
       Failing
  <1>10. QED BY <1>1, <1>2, <1>3, <1>4, <1>5, <1>6, <1>7, <1>8, <1>9 DEF IInv

\* sshd_config is restored from its backup.
LEMMA RestoreConfIInv ==
    ASSUME IInv, NEW ok \in BOOLEAN, RestoreConf(ok)
    PROVE  IInv'
  <1> USE DEF IInv
  <1>1. TypeOK'
    <2>1. job' \in Jobs
      BY FailingTyped DEF TypeOK, Pcs, RestoreConf
    <2>2. trust' \in TrustFile /\ conf' \in ConfFile /\ running' \in ConfFile
      BY DEF TypeOK, Jobs, RestoreConf
    <2>3. faults' \in 0..MaxFaults /\ crashes' \in 0..MaxCrashes
      BY FaultBounded DEF TypeOK, RestoreConf
    <2>4. (~trust'.exists => trust' = NoTrust) /\ (~conf'.exists => conf' = NoConf)
      BY DEF TypeOK, RestoreConf, BackupsSound
    <2>5. QED BY <2>1, <2>2, <2>3, <2>4 DEF TypeOK, Results, RestoreConf
  <1>2. BackupsSound'
    BY DEF TypeOK, BackupsSound, TrustFile, ConfFile, Jobs, Pcs, NoTrust, NoConf, RestoreConf, Fault,
       Failing
  <1>3. OperationSound'
    BY DEF TypeOK, OperationSound, BackupsSound, TrustFile, ConfFile, Jobs, Befores, Ops, Pcs,
       RestoreConf, Fault, Failing
  <1>4. FilesSound'
    BY DEF TypeOK, FilesSound, OperationSound, TrustFile, ConfFile, NewKeys, Changing, Jobs, Befores,
       Ops, Pcs, RestoreConf, Fault, Failing
  <1>5. ReloadSound'
    BY DEF TypeOK, ReloadSound, OperationSound, FilesSound, Changing, RollingBack, TrustFile,
       ConfFile, Jobs, Befores, Ops, Pcs, RestoreConf, Fault, Failing
  <1>6. RunningSound'
    BY DEF TypeOK, RunningSound, ReloadSound, OperationSound, FilesSound, Valid, Changing,
       RollingBack, TrustFile, ConfFile, Jobs, Befores, Ops, Pcs, RestoreConf, Fault, Failing
  <1>7. RolledBackRestores'
    BY DEF TypeOK, RolledBackRestores, RunningSound, ReloadSound, FilesSound, OperationSound,
       Changing, RollingBack, TrustFile, ConfFile, Jobs, Befores, Ops, Pcs, RestoreConf, Fault,
       Failing
  <1>8. AddKeepsTrust'
    BY DEF TypeOK, AddKeepsTrust, OperationSound, FilesSound, ReloadSound, NewKeys, Changing,
       RollingBack, TrustFile, ConfFile, Jobs, Befores, Ops, Pcs, RestoreConf, Fault, Failing
  <1>9. ReportedIsServed'
    BY DEF TypeOK, ReportedIsServed, OperationSound, FilesSound, RunningSound, NewKeys, Valid,
       Changing, RollingBack, TrustFile, ConfFile, Jobs, Befores, Ops, Pcs, RestoreConf, Fault,
       Failing
  <1>10. QED BY <1>1, <1>2, <1>3, <1>4, <1>5, <1>6, <1>7, <1>8, <1>9 DEF IInv

\* sshd loads what was restored.
LEMMA ReloadRestoredIInv ==
    ASSUME IInv, NEW ok \in BOOLEAN, ReloadRestored(ok)
    PROVE  IInv'
  <1> USE DEF IInv
  <1>1. TypeOK'
    <2>1. job' \in Jobs
      BY FailingTyped DEF TypeOK, Pcs, ReloadRestored
    <2>2. trust' \in TrustFile /\ conf' \in ConfFile /\ running' \in ConfFile
      BY DEF TypeOK, Jobs, ReloadRestored
    <2>3. faults' \in 0..MaxFaults /\ crashes' \in 0..MaxCrashes
      BY FaultBounded DEF TypeOK, ReloadRestored
    <2>4. (~trust'.exists => trust' = NoTrust) /\ (~conf'.exists => conf' = NoConf)
      BY DEF TypeOK, ReloadRestored
    <2>5. QED BY <2>1, <2>2, <2>3, <2>4 DEF TypeOK, Results, ReloadRestored
  <1>2. BackupsSound'
    BY DEF TypeOK, BackupsSound, TrustFile, ConfFile, Jobs, Pcs, NoTrust, NoConf, ReloadRestored,
       Fault, Failing
  <1>3. OperationSound'
    BY DEF TypeOK, OperationSound, BackupsSound, TrustFile, ConfFile, Jobs, Befores, Ops, Pcs,
       ReloadRestored, Fault, Failing
  <1>4. FilesSound'
    BY DEF TypeOK, FilesSound, OperationSound, TrustFile, ConfFile, NewKeys, Changing, Jobs, Befores,
       Ops, Pcs, ReloadRestored, Fault, Failing
  <1>5. ReloadSound'
    BY DEF TypeOK, ReloadSound, OperationSound, FilesSound, Changing, RollingBack, TrustFile,
       ConfFile, Jobs, Befores, Ops, Pcs, ReloadRestored, Fault, Failing
  <1>6. RunningSound'
    BY DEF TypeOK, RunningSound, ReloadSound, OperationSound, FilesSound, Valid, Changing,
       RollingBack, TrustFile, ConfFile, Jobs, Befores, Ops, Pcs, ReloadRestored, Fault, Failing
  <1>7. RolledBackRestores'
    BY DEF TypeOK, RolledBackRestores, RunningSound, ReloadSound, FilesSound, OperationSound,
       Changing, RollingBack, TrustFile, ConfFile, Jobs, Befores, Ops, Pcs, ReloadRestored, Fault,
       Failing
  <1>8. AddKeepsTrust'
    BY DEF TypeOK, AddKeepsTrust, OperationSound, FilesSound, ReloadSound, NewKeys, Changing,
       RollingBack, TrustFile, ConfFile, Jobs, Befores, Ops, Pcs, ReloadRestored, Fault, Failing
  <1>9. ReportedIsServed'
    BY DEF TypeOK, ReportedIsServed, OperationSound, FilesSound, RunningSound, NewKeys, Valid,
       Changing, RollingBack, TrustFile, ConfFile, Jobs, Befores, Ops, Pcs, ReloadRestored, Fault,
       Failing
  <1>10. QED BY <1>1, <1>2, <1>3, <1>4, <1>5, <1>6, <1>7, <1>8, <1>9 DEF IInv

\* The rollback is reported.
LEMMA RolledBackIInv ==
    ASSUME IInv, RolledBack
    PROVE  IInv'
  <1> USE DEF IInv
  <1>1. TypeOK'
    <2>1. job' \in Jobs
      BY IdleTyped DEF TypeOK, Return, RolledBack
    <2>2. trust' \in TrustFile /\ conf' \in ConfFile /\ running' \in ConfFile
      BY DEF TypeOK, Jobs, RolledBack
    <2>3. faults' \in 0..MaxFaults /\ crashes' \in 0..MaxCrashes
      BY SshTrustAssumption DEF TypeOK, RolledBack
    <2>4. (~trust'.exists => trust' = NoTrust) /\ (~conf'.exists => conf' = NoConf)
      BY DEF TypeOK, RolledBack
    <2>5. QED BY <2>1, <2>2, <2>3, <2>4 DEF TypeOK, Results, RolledBack, Return
  <1>2. BackupsSound'
    BY DEF TypeOK, BackupsSound, TrustFile, ConfFile, Jobs, Pcs, NoTrust, NoConf, RolledBack, Return,
       Idle
  <1>3. OperationSound'
    BY DEF TypeOK, OperationSound, BackupsSound, TrustFile, ConfFile, Jobs, Befores, Ops, Pcs,
       RolledBack, Return, Idle, NoTrust, NoConf
  <1>4. FilesSound'
    BY DEF TypeOK, FilesSound, OperationSound, TrustFile, ConfFile, NewKeys, Changing, Jobs, Befores,
       Ops, Pcs, RolledBack, Return, Idle, NoTrust, NoConf
  <1>5. ReloadSound'
    BY DEF TypeOK, ReloadSound, OperationSound, FilesSound, Changing, RollingBack, TrustFile,
       ConfFile, Jobs, Befores, Ops, Pcs, RolledBack, Return, Idle, NoTrust, NoConf
  <1>6. RunningSound'
    BY DEF TypeOK, RunningSound, ReloadSound, OperationSound, FilesSound, Valid, Changing,
       RollingBack, TrustFile, ConfFile, Jobs, Befores, Ops, Pcs, RolledBack, Return, Idle, NoTrust,
       NoConf
  <1>7. RolledBackRestores'
    BY DEF TypeOK, RolledBackRestores, RunningSound, ReloadSound, FilesSound, OperationSound,
       Changing, RollingBack, TrustFile, ConfFile, Jobs, Befores, Ops, Pcs, RolledBack, Return, Idle,
       NoTrust, NoConf
  <1>8. AddKeepsTrust'
    BY DEF TypeOK, AddKeepsTrust, OperationSound, FilesSound, ReloadSound, NewKeys, Changing,
       RollingBack, TrustFile, ConfFile, Jobs, Befores, Ops, Pcs, RolledBack, Return, Idle, NoTrust,
       NoConf
  <1>9. ReportedIsServed'
    BY DEF TypeOK, ReportedIsServed, OperationSound, FilesSound, RunningSound, NewKeys, Valid,
       Changing, RollingBack, TrustFile, ConfFile, Jobs, Befores, Ops, Pcs, RolledBack, Return, Idle,
       NoTrust, NoConf
  <1>10. QED BY <1>1, <1>2, <1>3, <1>4, <1>5, <1>6, <1>7, <1>8, <1>9 DEF IInv

\* The agent dies in an operation.
LEMMA CrashIInv ==
    ASSUME IInv, Crash
    PROVE  IInv'
  <1> USE DEF IInv
  <1>1. TypeOK'
    <2>1. job' \in Jobs
      BY IdleTyped DEF TypeOK, Return, Crash
    <2>2. trust' \in TrustFile /\ conf' \in ConfFile /\ running' \in ConfFile
      BY DEF TypeOK, Jobs, Crash
    <2>3. faults' \in 0..MaxFaults /\ crashes' \in 0..MaxCrashes
      BY SshTrustAssumption DEF TypeOK, Crash
    <2>4. (~trust'.exists => trust' = NoTrust) /\ (~conf'.exists => conf' = NoConf)
      BY DEF TypeOK, Crash
    <2>5. QED BY <2>1, <2>2, <2>3, <2>4 DEF TypeOK, Results, Crash, Return
  <1>2. BackupsSound'
    BY DEF TypeOK, BackupsSound, TrustFile, ConfFile, Jobs, Pcs, NoTrust, NoConf, Crash, Return,
       Idle
  <1>3. OperationSound'
    BY DEF TypeOK, OperationSound, BackupsSound, TrustFile, ConfFile, Jobs, Befores, Ops, Pcs, Crash,
       Return, Idle, NoTrust, NoConf
  <1>4. FilesSound'
    BY DEF TypeOK, FilesSound, OperationSound, TrustFile, ConfFile, NewKeys, Changing, Jobs, Befores,
       Ops, Pcs, Crash, Return, Idle, NoTrust, NoConf
  <1>5. ReloadSound'
    BY DEF TypeOK, ReloadSound, OperationSound, FilesSound, Changing, RollingBack, TrustFile,
       ConfFile, Jobs, Befores, Ops, Pcs, Crash, Return, Idle, NoTrust, NoConf
  <1>6. RunningSound'
    BY DEF TypeOK, RunningSound, ReloadSound, OperationSound, FilesSound, Valid, Changing,
       RollingBack, TrustFile, ConfFile, Jobs, Befores, Ops, Pcs, Crash, Return, Idle, NoTrust,
       NoConf
  <1>7. RolledBackRestores'
    BY DEF TypeOK, RolledBackRestores, RunningSound, ReloadSound, FilesSound, OperationSound,
       Changing, RollingBack, TrustFile, ConfFile, Jobs, Befores, Ops, Pcs, Crash, Return, Idle,
       NoTrust, NoConf
  <1>8. AddKeepsTrust'
    BY DEF TypeOK, AddKeepsTrust, OperationSound, FilesSound, ReloadSound, NewKeys, Changing,
       RollingBack, TrustFile, ConfFile, Jobs, Befores, Ops, Pcs, Crash, Return, Idle, NoTrust,
       NoConf
  <1>9. ReportedIsServed'
    BY DEF TypeOK, ReportedIsServed, OperationSound, FilesSound, RunningSound, NewKeys, Valid,
       Changing, RollingBack, TrustFile, ConfFile, Jobs, Befores, Ops, Pcs, Crash, Return, Idle,
       NoTrust, NoConf
  <1>10. QED BY <1>1, <1>2, <1>3, <1>4, <1>5, <1>6, <1>7, <1>8, <1>9 DEF IInv

\* A step that changes nothing.
LEMMA StutterIInv == ASSUME IInv, UNCHANGED vars PROVE IInv'
  <1> USE DEF IInv, vars
  <1>1. TypeOK'
    BY DEF TypeOK
  <1>2. BackupsSound' /\ OperationSound' /\ FilesSound' /\ ReloadSound'
    BY DEF BackupsSound, OperationSound, FilesSound, ReloadSound, NewKeys
  <1>3. RunningSound' /\ RolledBackRestores' /\ AddKeepsTrust' /\ ReportedIsServed'
    BY DEF RunningSound, RolledBackRestores, AddKeepsTrust, ReportedIsServed, Valid
  <1>4. QED BY <1>1, <1>2, <1>3

LEMMA NextIInv == IInv /\ [Next]_vars => IInv'
  <1> SUFFICES ASSUME IInv, [Next]_vars PROVE IInv'
    OBVIOUS
  <1>1. CASE UNCHANGED vars
    BY <1>1, StutterIInv
  <1>2. CASE \E ca \in Cas, okT, okC \in BOOLEAN : AddCATrust(ca, okT, okC) \/ RemoveCATrust(ca, okT, okC)
    BY <1>2, AddIInv, RemoveIInv
  <1>3. CASE \E ok \in BOOLEAN : WriteTrust(ok) \/ WriteConf(ok) \/ Validate(ok) \/ Reload(ok) \/ HealthCheck(ok)
    BY <1>3, WriteTrustIInv, WriteConfIInv, ValidateIInv, ReloadIInv, HealthIInv
  <1>4. CASE \E ok \in BOOLEAN : RestoreTrust(ok) \/ RestoreConf(ok) \/ ReloadRestored(ok)
    BY <1>4, RestoreTrustIInv, RestoreConfIInv, ReloadRestoredIInv
  <1>5. CASE RolledBack \/ Crash
    BY <1>5, RolledBackIInv, CrashIInv
  <1>6. QED BY <1>1, <1>2, <1>3, <1>4, <1>5 DEF Next

\* The invariant that the four theorems below rest on holds of every behaviour of the agent.
THEOREM InvariantHolds == Spec => []IInv
  BY InitIInv, NextIInv, PTL DEF Spec

\* Every behaviour keeps the variables in their types, and a file that is not there empty
\* (read, writeFile and restore of sshtrust.go).
THEOREM TypeCorrect == Spec => []TypeOK
  <1>1. IInv => TypeOK
    BY DEF IInv
  <1>2. QED BY <1>1, InvariantHolds, PTL

\* A rollback that AddCATrust or RemoveCATrust reports has put both files and sshd back,
\* whichever step of the change had failed, if the files could be read.
THEOREM RollbacksRestore == Spec => []RolledBackRestores
  <1>1. IInv => RolledBackRestores
    BY DEF IInv
  <1>2. QED BY <1>1, InvariantHolds, PTL

\* At no moment of an AddCATrust, of its rollback or of the time after a crash in it is a
\* CA or a directive missing that was there before, if the files could be read.
THEOREM AdditionsKeepTrust == Spec => []AddKeepsTrust
  <1>1. IInv => AddKeepsTrust
    BY DEF IInv
  <1>2. QED BY <1>1, InvariantHolds, PTL

\* A CA that is reported added is in the file that sshd's validated configuration references.
THEOREM ReportsAreTrue == Spec => []ReportedIsServed
  <1>1. IInv => ReportedIsServed
    BY DEF IInv
  <1>2. QED BY <1>1, InvariantHolds, PTL

=============================================================================
