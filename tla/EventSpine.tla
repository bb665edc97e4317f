------------------------------ MODULE EventSpine ------------------------------
(***************************************************************************)
(* The write path of the control plane: an append-only event log, the      *)
(* relational read model projected from it, and the outbox rows that carry *)
(* the external effects of lifecycle transitions.                          *)
(*                                                                         *)
(* Four kinds of thread touch this state, on any number of replicas:       *)
(*   - request threads (Writers) run Orchestrator.transition: read the     *)
(*     status, append the event, then project it and enqueue its effect in *)
(*     one transaction;                                                    *)
(*   - the boot thread of a replica runs ProjectCatchUp (or Rebuild) and   *)
(*     then ReconcileOutbox before the replica serves;                     *)
(*   - the tail worker of the leader re-applies every event in order from  *)
(*     its durable cursor;                                                 *)
(*   - the dispatcher performs pending effects and the outbox GC removes   *)
(*     delivered rows (their own detail is in module Outbox).              *)
(* A replica can crash between any two of these steps.                     *)
(***************************************************************************)
EXTENDS Naturals, Sequences, FiniteSets, Lifecycle

CONSTANTS
    Identities,       \* identities of one tenant
    Replicas,         \* control-plane processes
    Writers,          \* request threads, over all replicas
    Keys,             \* Idempotency-Keys sent by clients
    NoKey,            \* the empty idempotency key of an internal transition
    NoReplica,        \* the tail worker runs nowhere
    checkpointEvery,  \* events ProjectCatchUp applies between checkpoints
    MaxLog,           \* bound: events appended
    MaxCrashes,       \* bound: replica crashes
    MaxAborts         \* bound: requests that fail after their append

ASSUME SpineAssumption ==
    /\ NoKey \notin Keys
    /\ NoReplica \notin Replicas
    /\ checkpointEvery \in Nat \ {0}
    /\ MaxLog \in Nat /\ MaxCrashes \in Nat /\ MaxAborts \in Nat

VARIABLES
    log,          \* the JetStream stream; an event's sequence is its index
    status,       \* identities.status
    transitions,  \* identity_transitions, as the set of sequences present
    projCkpt,     \* projection_checkpoint.applied_seq
    reconCkpt,    \* outbox_reconciliation_checkpoint.reconciled_seq
    pending,      \* outbox rows not yet delivered, counted per (key, payload)
    delivered,    \* outbox rows delivered and not yet reclaimed
    dead,         \* outbox rows given up after the last attempt ('failed')
    performed,    \* external calls made, counted per (key, payload)
    completed,    \* idempotency_keys rows with status 'completed'
    boot,         \* the boot thread of each replica
    writer,       \* the request threads
    tail,         \* the tail worker: where it runs and what it has done
    tailAck,      \* the durable cursor of the tail consumer
    crashes, aborts

vars == <<log, status, transitions, projCkpt, reconCkpt, pending, delivered,
          dead, performed, completed, boot, writer, tail, tailAck, crashes, aborts>>

readModel == <<status, transitions>>
outbox    == <<pending, delivered, dead, performed>>
budgets   == <<crashes, aborts>>

Event    == [identity : Identities, from : States, to : States, key : Keys \cup {NoKey}]
Payloads == {"event", "credential"}

\* transitionOutboxIdempotencyKey: the event ID, or "transition:" + request key.
EffectKeys == ({"event"} \X (1..MaxLog)) \cup ({"transition"} \X Keys)
Rows       == EffectKeys \X Payloads

EffectKey(seq, key) == IF key = NoKey THEN <<"event", seq>> ELSE <<"transition", key>>
KeyOf(seq)          == EffectKey(seq, log[seq].key)
HasEffect(seq)      == HasSideEffect(log[seq].from, log[seq].to)

\* The outbox rows of a key and payload, whatever their status.
Kept(row) == pending[row] + delivered[row] + dead[row]

RowExists(k)      == \E p \in Payloads : Kept(<<k, p>>) > 0
Performed(k)      == \E p \in Payloads : performed[<<k, p>>] > 0
EffectRecorded(k) == RowExists(k) \/ Performed(k)

Idle == [pc |-> "idle"]
Down == [pc |-> "down", pos |-> 0, end |-> 0, since |-> 0, insert |-> FALSE]
TailOff == [pc |-> "off", on |-> NoReplica]

Request == [pc : {"loaded", "appended", "tx", "committed"}, on : Replicas,
            ev : Event, payload : Payloads, seq : 0..MaxLog, insert : BOOLEAN]

BootPc == {"down", "boot", "catchup", "caughtup", "reconcile", "retx", "readvance", "up"}

\* ApplyTx of a lifecycle event: SetIdentityStatusTx overwrites the status
\* unconditionally and AppendIdentityTransitionTx upserts the row of this
\* sequence; both are in one transaction.
ApplyTx(seq, ev) ==
    /\ status' = [status EXCEPT ![ev.identity] = ev.to]
    /\ transitions' = transitions \cup {seq}

\* st is the state the highest of the sequences S that concern i leads to.
LatestTo(S, i, st) ==
    \/ /\ st = "requested"
       /\ \A s \in S : log[s].identity # i
    \/ \E s \in S :
         /\ log[s].identity = i /\ log[s].to = st
         /\ \A t \in S : t > s => log[t].identity # i

\* Mutant of State: it reads identities.status.
StateFromStatus(i) == status[i]

\* Orchestrator.State: the last row of the identity_transitions history.
State(i) == CHOOSE st \in States : LatestTo(transitions, i, st)

\* The UPDATE of ApplyTx holds the identity's row lock until its commit.
Locked(i) == \E w \in Writers : writer[w].pc = "tx" /\ writer[w].ev.identity = i

\* The INSERT of EnqueueIfAbsent, once its NOT EXISTS has been evaluated.
Insert(yes, k, p) ==
    pending' = IF yes THEN [pending EXCEPT ![<<k, p>>] = @ + 1] ELSE pending

\* GREATEST(applied, seq) of both checkpoint updates.
Greatest(a, b) == IF a >= b THEN a ELSE b

-----------------------------------------------------------------------------
(* Request threads: Idempotency.Do around Orchestrator.transition.         *)

\* Do claims the key (a concurrent holder blocks it, a completed key answers
\* from the cache); transition reads the status on its own connection and
\* rejects a pair the table lacks.  Served requests carry a key and no side
\* effect payload; the issuance worker's internal deployment carries the fresh
\* credential and no key.  A client reuses a key only for the same request.
TransitionLoad(w, r, i, to, key) ==
    /\ writer[w].pc = "idle"
    /\ boot[r].pc = "up"
    /\ key \notin completed
    /\ \A v \in Writers : writer[v].pc # "idle" /\ key # NoKey => writer[v].ev.key # key
    /\ key # NoKey => \A s \in DOMAIN log :
           log[s].key = key => log[s].identity = i /\ log[s].to = to
    /\ CanTransition(status[i], to)
    /\ Len(log) < MaxLog
    /\ writer' = [writer EXCEPT ![w] =
           [pc |-> "loaded", on |-> r, seq |-> 0, insert |-> FALSE,
            ev |-> [identity |-> i, from |-> status[i], to |-> to, key |-> key],
            payload |-> IF key = NoKey /\ to = "deployed" THEN "credential" ELSE "event"]]
    /\ UNCHANGED <<log, readModel, projCkpt, reconCkpt, outbox, completed, boot,
                   tail, tailAck, budgets>>

\* log.Append: the event is durable before anything else changes.
TransitionAppend(w) ==
    /\ writer[w].pc = "loaded"
    /\ Len(log) < MaxLog
    /\ log' = Append(log, writer[w].ev)
    /\ writer' = [writer EXCEPT ![w].pc = "appended", ![w].seq = Len(log) + 1]
    /\ UNCHANGED <<readModel, projCkpt, reconCkpt, outbox, completed, boot, tail,
                   tailAck, budgets>>

\* The statements of the tenant transaction: ApplyTx takes the row lock, then
\* EnqueueIfAbsent evaluates NOT EXISTS against the rows committed by now.
TransitionExec(w) ==
    LET ev == writer[w].ev IN
    /\ writer[w].pc = "appended"
    /\ ~Locked(ev.identity)
    /\ writer' = [writer EXCEPT ![w].pc = "tx",
           ![w].insert = /\ HasSideEffect(ev.from, ev.to)
                         /\ ~RowExists(EffectKey(writer[w].seq, ev.key))]
    /\ UNCHANGED <<log, readModel, projCkpt, reconCkpt, outbox, completed, boot,
                   tail, tailAck, budgets>>

\* Mutant of TransitionCommit: the effect is not enqueued in the transaction.
TransitionCommitOnly(w) ==
    /\ writer[w].pc = "tx"
    /\ ApplyTx(writer[w].seq, writer[w].ev)
    /\ writer' = [writer EXCEPT ![w].pc = "committed"]
    /\ UNCHANGED <<log, projCkpt, reconCkpt, outbox, completed, boot, tail, tailAck, budgets>>

\* Its commit: status, transition row and outbox row become visible together.
TransitionCommit(w) ==
    LET ev == writer[w].ev
        k  == EffectKey(writer[w].seq, ev.key) IN
    /\ writer[w].pc = "tx"
    /\ ApplyTx(writer[w].seq, ev)
    /\ Insert(writer[w].insert, k, writer[w].payload)
    /\ writer' = [writer EXCEPT ![w].pc = "committed"]
    /\ UNCHANGED <<log, projCkpt, reconCkpt, delivered, dead, performed, completed,
                   boot, tail, tailAck, budgets>>

\* Do records the result and commits the claim: the request is answered.
TransitionAnswer(w) ==
    /\ writer[w].pc = "committed"
    /\ completed' = completed \cup ({writer[w].ev.key} \ {NoKey})
    /\ writer' = [writer EXCEPT ![w] = Idle]
    /\ UNCHANGED <<log, readModel, projCkpt, reconCkpt, outbox, boot, tail, tailAck,
                   budgets>>

\* An error after the append (the client went away, the database refused, the
\* payload transform failed, the identity could not be read back): the transaction,
\* unless it has committed, and the key claim roll back, the event stays.
TransitionAbort(w) ==
    /\ writer[w].pc \in {"appended", "tx", "committed"}
    /\ aborts < MaxAborts
    /\ aborts' = aborts + 1
    /\ writer' = [writer EXCEPT ![w] = Idle]
    /\ UNCHANGED <<log, readModel, projCkpt, reconCkpt, outbox, completed, boot,
                   tail, tailAck, crashes>>

-----------------------------------------------------------------------------
(* Boot: catchUpReadModel, then configureMutationSpine.                    *)

Restart(r) ==
    /\ boot[r].pc = "down"
    /\ boot' = [boot EXCEPT ![r].pc = "boot"]
    /\ UNCHANGED <<log, readModel, projCkpt, reconCkpt, outbox, completed, writer,
                   tail, tailAck, budgets>>

\* Mutant of CatchUpBegin: off by one, the first event after the checkpoint is skipped.
CatchUpBeginAfter(r) ==
    /\ boot[r].pc = "boot"
    /\ \A q \in Replicas : boot[q].pc # "catchup"
    /\ boot' = [boot EXCEPT ![r] = [pc |-> "catchup", pos |-> projCkpt + 2,
                                    end |-> Len(log), since |-> 0, insert |-> FALSE]]
    /\ UNCHANGED <<log, readModel, projCkpt, reconCkpt, outbox, completed, writer,
                   tail, tailAck, budgets>>

\* WithProjectionLock serialises catch-ups; Replay fixes its end when it starts.
CatchUpBegin(r) ==
    /\ boot[r].pc = "boot"
    /\ \A q \in Replicas : boot[q].pc # "catchup"
    /\ boot' = [boot EXCEPT ![r] = [pc |-> "catchup", pos |-> projCkpt + 1,
                                    end |-> Len(log), since |-> 0, insert |-> FALSE]]
    /\ UNCHANGED <<log, readModel, projCkpt, reconCkpt, outbox, completed, writer,
                   tail, tailAck, budgets>>

CatchUpApply(r) ==
    LET s == boot[r].pos IN
    /\ boot[r].pc = "catchup"
    /\ s <= boot[r].end
    /\ boot[r].since < checkpointEvery
    /\ ~Locked(log[s].identity)
    /\ ApplyTx(s, log[s])
    /\ boot' = [boot EXCEPT ![r].pos = s + 1, ![r].since = @ + 1]
    /\ UNCHANGED <<log, projCkpt, reconCkpt, outbox, completed, writer, tail,
                   tailAck, budgets>>

\* Every checkpointEvery events the watermark advances in its own statement.
CatchUpCheckpoint(r) ==
    /\ boot[r].pc = "catchup"
    /\ boot[r].since = checkpointEvery
    /\ projCkpt' = Greatest(projCkpt, boot[r].pos - 1)
    /\ boot' = [boot EXCEPT ![r].since = 0]
    /\ UNCHANGED <<log, readModel, reconCkpt, outbox, completed, writer, tail,
                   tailAck, budgets>>

\* The end of the replay: a last advance, and the lock is released.
CatchUpFinish(r) ==
    /\ boot[r].pc = "catchup"
    /\ boot[r].pos > boot[r].end
    /\ boot[r].since < checkpointEvery
    /\ projCkpt' = Greatest(projCkpt, boot[r].end)
    /\ boot' = [boot EXCEPT ![r] = [Down EXCEPT !.pc = "caughtup"]]
    /\ UNCHANGED <<log, readModel, reconCkpt, outbox, completed, writer, tail,
                   tailAck, budgets>>

\* What an in-order replay of the whole log leaves in identities.status.
Replayed(f) == \A i \in Identities : LatestTo(DOMAIN log, i, f[i])

\* RestoreFromSnapshot's fallback (and the offline restore): truncate and replay
\* in one transaction, whose TRUNCATE waits for every open one.
Rebuild(r) ==
    /\ boot[r].pc = "boot"
    /\ \A q \in Replicas : boot[q].pc # "catchup"
    /\ \A w \in Writers : writer[w].pc # "tx"
    /\ \E f \in [Identities -> States] : Replayed(f) /\ status' = f
    /\ transitions' = DOMAIN log
    /\ projCkpt' = Len(log)
    /\ boot' = [boot EXCEPT ![r].pc = "caughtup"]
    /\ UNCHANGED <<log, reconCkpt, outbox, completed, writer, tail, tailAck, budgets>>

\* Mutant of ReconcileBegin: it starts at the head of the log.
ReconcileBeginAtHead(r) ==
    /\ boot[r].pc = "caughtup"
    /\ boot' = [boot EXCEPT ![r] = [pc |-> "reconcile", pos |-> Len(log) + 1,
                                    end |-> Len(log), since |-> 0, insert |-> FALSE]]
    /\ UNCHANGED <<log, readModel, projCkpt, reconCkpt, outbox, completed, writer,
                   tail, tailAck, budgets>>

ReconcileBegin(r) ==
    /\ boot[r].pc = "caughtup"
    /\ boot' = [boot EXCEPT ![r] = [pc |-> "reconcile", pos |-> reconCkpt + 1,
                                    end |-> Len(log), since |-> 0, insert |-> FALSE]]
    /\ UNCHANGED <<log, readModel, projCkpt, reconCkpt, outbox, completed, writer,
                   tail, tailAck, budgets>>

\* EnqueueIfAbsent's statement for the event at hand; an event without a side
\* effect goes straight to the checkpoint.
ReconcileExec(r) ==
    LET s == boot[r].pos IN
    /\ boot[r].pc = "reconcile"
    /\ s <= boot[r].end
    /\ boot' = IF HasEffect(s)
               THEN [boot EXCEPT ![r].pc = "retx", ![r].insert = ~RowExists(KeyOf(s))]
               ELSE [boot EXCEPT ![r].pc = "readvance"]
    /\ UNCHANGED <<log, readModel, projCkpt, reconCkpt, outbox, completed, writer,
                   tail, tailAck, budgets>>

\* Its commit.  The payload is the event body: no credential survives here.
ReconcileCommit(r) ==
    /\ boot[r].pc = "retx"
    /\ Insert(boot[r].insert, KeyOf(boot[r].pos), "event")
    /\ boot' = [boot EXCEPT ![r].pc = "readvance", ![r].insert = FALSE]
    /\ UNCHANGED <<log, readModel, projCkpt, reconCkpt, delivered, dead, performed,
                   completed, writer, tail, tailAck, budgets>>

\* Mutant of ReconcileAdvance: the first event checkpoints the whole replay.
ReconcileAdvanceToEnd(r) ==
    /\ boot[r].pc = "readvance"
    /\ reconCkpt' = Greatest(reconCkpt, boot[r].end)
    /\ boot' = [boot EXCEPT ![r].pc = "reconcile", ![r].pos = @ + 1]
    /\ UNCHANGED <<log, readModel, projCkpt, outbox, completed, writer, tail,
                   tailAck, budgets>>

ReconcileAdvance(r) ==
    /\ boot[r].pc = "readvance"
    /\ reconCkpt' = Greatest(reconCkpt, boot[r].pos)
    /\ boot' = [boot EXCEPT ![r].pc = "reconcile", ![r].pos = @ + 1]
    /\ UNCHANGED <<log, readModel, projCkpt, outbox, completed, writer, tail,
                   tailAck, budgets>>

Serve(r) ==
    /\ boot[r].pc = "reconcile"
    /\ boot[r].pos > boot[r].end
    /\ boot' = [boot EXCEPT ![r] = [Down EXCEPT !.pc = "up"]]
    /\ UNCHANGED <<log, readModel, projCkpt, reconCkpt, outbox, completed, writer,
                   tail, tailAck, budgets>>

-----------------------------------------------------------------------------
(* The leader's workers: tail, dispatcher, outbox GC.                      *)

TailStart(r) ==
    /\ tail.pc = "off"
    /\ boot[r].pc = "up"
    /\ tail' = [pc |-> "idle", on |-> r]
    /\ UNCHANGED <<log, readModel, projCkpt, reconCkpt, outbox, completed, boot,
                   writer, tailAck, budgets>>

\* Apply the next unacknowledged event, whether or not it was projected inline.
TailApply ==
    /\ tail.pc = "idle"
    /\ tailAck < Len(log)
    /\ ~Locked(log[tailAck + 1].identity)
    /\ ApplyTx(tailAck + 1, log[tailAck + 1])
    /\ tail' = [tail EXCEPT !.pc = "applied"]
    /\ UNCHANGED <<log, projCkpt, reconCkpt, outbox, completed, boot, writer,
                   tailAck, budgets>>

TailAdvance ==
    /\ tail.pc = "applied"
    /\ projCkpt' = Greatest(projCkpt, tailAck + 1)
    /\ tail' = [tail EXCEPT !.pc = "advanced"]
    /\ UNCHANGED <<log, readModel, reconCkpt, outbox, completed, boot, writer,
                   tailAck, budgets>>

\* The durable cursor moves only after both writes succeeded.
TailAcknowledge ==
    /\ tail.pc = "advanced"
    /\ tailAck' = tailAck + 1
    /\ tail' = [tail EXCEPT !.pc = "idle"]
    /\ UNCHANGED <<log, readModel, projCkpt, reconCkpt, outbox, completed, boot,
                   writer, budgets>>

\* The dispatcher's outcome for one row after its retries: the handler ran and the
\* row is marked ...
Perform(row) ==
    /\ \E r \in Replicas : boot[r].pc = "up"
    /\ pending[row] > 0
    /\ pending' = [pending EXCEPT ![row] = @ - 1]
    /\ delivered' = [delivered EXCEPT ![row] = @ + 1]
    /\ performed' = [performed EXCEPT ![row] = @ + 1]
    /\ UNCHANGED <<log, readModel, projCkpt, reconCkpt, dead, completed, boot, writer,
                   tail, tailAck, budgets>>

\* ... or every attempt failed and the row is the dead-letter trail: it stays.
DeadLetter(row) ==
    /\ \E r \in Replicas : boot[r].pc = "up"
    /\ pending[row] > 0
    /\ pending' = [pending EXCEPT ![row] = @ - 1]
    /\ dead' = [dead EXCEPT ![row] = @ + 1]
    /\ UNCHANGED <<log, readModel, projCkpt, reconCkpt, delivered, performed, completed,
                   boot, writer, tail, tailAck, budgets>>

\* outboxgc.Sweep: a delivered row past the retention window is deleted.
Sweep(row) ==
    /\ \E r \in Replicas : boot[r].pc = "up"
    /\ delivered[row] > 0
    /\ delivered' = [delivered EXCEPT ![row] = @ - 1]
    /\ UNCHANGED <<log, readModel, projCkpt, reconCkpt, pending, dead, performed,
                   completed, boot, writer, tail, tailAck, budgets>>

-----------------------------------------------------------------------------
\* A replica dies: its threads, locks and open transactions go with it.
Crash(r) ==
    /\ boot[r].pc # "down"
    /\ crashes < MaxCrashes
    /\ crashes' = crashes + 1
    /\ boot' = [boot EXCEPT ![r] = Down]
    /\ writer' = [w \in Writers |->
           IF writer[w].pc # "idle" /\ writer[w].on = r THEN Idle ELSE writer[w]]
    /\ tail' = IF tail.on = r THEN TailOff ELSE tail
    /\ UNCHANGED <<log, readModel, projCkpt, reconCkpt, outbox, completed, tailAck,
                   aborts>>

Init ==
    /\ log = <<>>
    /\ status = [i \in Identities |-> "requested"]
    /\ transitions = {}
    /\ projCkpt = 0 /\ reconCkpt = 0 /\ tailAck = 0
    /\ pending = [row \in Rows |-> 0]
    /\ delivered = [row \in Rows |-> 0]
    /\ dead = [row \in Rows |-> 0]
    /\ performed = [row \in Rows |-> 0]
    /\ completed = {}
    /\ boot = [r \in Replicas |-> Down]
    /\ writer = [w \in Writers |-> Idle]
    /\ tail = TailOff
    /\ crashes = 0 /\ aborts = 0

Transition(w) ==
    \/ \E r \in Replicas, i \in Identities, to \in States, key \in Keys \cup {NoKey} :
          TransitionLoad(w, r, i, to, key)
    \/ TransitionAppend(w)
    \/ TransitionExec(w)
    \/ TransitionCommit(w)
    \/ TransitionAnswer(w)
    \/ TransitionAbort(w)

BootStep(r) ==
    \/ Restart(r)
    \/ CatchUpBegin(r) \/ CatchUpApply(r) \/ CatchUpCheckpoint(r) \/ CatchUpFinish(r)
    \/ Rebuild(r)
    \/ ReconcileBegin(r) \/ ReconcileExec(r) \/ ReconcileCommit(r)
    \/ ReconcileAdvance(r) \/ Serve(r)

TailStep ==
    \/ \E r \in Replicas : TailStart(r)
    \/ TailApply \/ TailAdvance \/ TailAcknowledge

Next ==
    \/ \E w \in Writers : Transition(w)
    \/ \E r \in Replicas : BootStep(r) \/ Crash(r)
    \/ TailStep
    \/ \E row \in Rows : Perform(row) \/ DeadLetter(row) \/ Sweep(row)

Spec == Init /\ [][Next]_vars

-----------------------------------------------------------------------------
(* Properties *)

LogOK    == log \in Seq(Event) /\ Len(log) <= MaxLog
TablesOK == status \in [Identities -> States] /\ transitions \subseteq DOMAIN log
MarksOK  == projCkpt \in 0..Len(log) /\ reconCkpt \in 0..Len(log) /\ tailAck \in 0..Len(log)
OutboxOK == /\ pending \in [Rows -> Nat] /\ delivered \in [Rows -> Nat]
            /\ dead \in [Rows -> Nat] /\ performed \in [Rows -> Nat]
WriterOK == writer \in [Writers -> {Idle} \cup Request] /\ completed \subseteq Keys
BootOK   == boot \in [Replicas -> [pc : BootPc, pos : 0..(MaxLog + 1), end : 0..MaxLog,
                                   since : 0..checkpointEvery, insert : BOOLEAN]]
TailOK   == tail \in [pc : {"off", "idle", "applied", "advanced"}, on : Replicas \cup {NoReplica}]
BudgetOK == crashes \in 0..MaxCrashes /\ aborts \in 0..MaxAborts

\* Every table, watermark and thread has its type, and every sequence they name is
\* one of the log: no watermark or cursor runs ahead of Log.Append.
TypeOK ==
    LogOK /\ TablesOK /\ MarksOK /\ OutboxOK /\ WriterOK /\ BootOK /\ TailOK /\ BudgetOK

\* A watermark never covers an event the read model has not applied: whoever
\* moved projection_checkpoint or the tail cursor to n, under any interleaving of
\* catch-up, rebuild, tail and crashes, events 1..n are all in
\* identity_transitions, so a restart that resumes at n + 1 skips nothing.
CheckpointSound ==
    /\ 1..projCkpt \subseteq transitions
    /\ 1..tailAck \subseteq transitions

\* ReconcileOutbox closes the append-then-project crash window: once the
\* reconciliation checkpoint has passed an event with a side effect, that effect
\* is a row of the outbox or has been performed, whatever crashed in between.
ReconciledEffectsRecorded ==
    \A s \in 1..reconCkpt : HasEffect(s) => EffectRecorded(KeyOf(s))

\* A client that got its answer got its effect: when Do has recorded a key as
\* completed, the effect of the transition it carried is enqueued or performed.
AnsweredHasEffect ==
    \A s \in DOMAIN log :
        log[s].key \in completed /\ HasEffect(s) => EffectRecorded(KeyOf(s))

\* State/History converge: when the tail has acknowledged the head of the log,
\* Orchestrator.State of every identity is the target of its last logged event,
\* in whatever order inline writers, catch-ups and the tail applied the events.
HistoryMatchesLog ==
    tailAck = Len(log) => \A i \in Identities : LatestTo(DOMAIN log, i, State(i))

\* EnqueueIfAbsent keeps one outbox row per idempotency key, whoever enqueues: two
\* concurrent reconcilers, or a reconciler and a request, never both insert it.
OneRowPerKey ==
    \A k \in EffectKeys : \A p, q \in Payloads :
        LET n == Kept(<<k, p>>)
            m == Kept(<<k, q>>)
        IN  n <= 1 /\ (p # q => n + m <= 1)

\* The read model is a pure function of the log: when every thread is at rest and
\* the tail has applied the whole log, identities.status is what a replay gives.
StatusMatchesLog ==
    (/\ tailAck = Len(log) /\ tail.pc \in {"off", "idle"}
     /\ \A w \in Writers : writer[w].pc = "idle"
     /\ \A r \in Replicas : boot[r].pc = "up")
    => \A i \in Identities : LatestTo(DOMAIN log, i, status[i])

\* An event of the log asks for the effect k; the effect was performed or given up.
Logged(k)  == \E s \in DOMAIN log : HasEffect(s) /\ KeyOf(s) = k
Settled(k) == Performed(k) \/ \E p \in Payloads : dead[<<k, p>>] > 0

\* The request that logged k failed after its append and the process lived on: no
\* row, no request that will enqueue it, and no replica about to reconcile.
Stranded(k) ==
    /\ ~EffectRecorded(k) /\ aborts > 0
    /\ \A r \in Replicas : boot[r].pc = "up"
    /\ \A w \in Writers : writer[w].pc \in {"appended", "tx"}
                           => EffectKey(writer[w].seq, writer[w].ev.key) # k

\* A logged transition is acted on: its effect is performed or dead-lettered in the
\* end, unless its request failed after the append, no client retries it and no
\* replica ever boots again: an aborted effect waits for the next boot, not longer.
\* (Logged and Settled are stable and the log is bounded, so this is one formula.)
EffectEventuallySettled ==
    <>[](\A k \in EffectKeys : Logged(k) => Settled(k) \/ Stranded(k))

-----------------------------------------------------------------------------
\* Every thread that has started keeps being scheduled, a crashed replica is
\* restarted by its supervisor, and the leader's dispatcher keeps sweeping.
\* Nothing forces a client to send a request, a request to fail or the GC to run.
FairSpec ==
    /\ Spec
    /\ \A w \in Writers : WF_vars(\/ TransitionAppend(w) \/ TransitionExec(w)
                                   \/ TransitionCommit(w) \/ TransitionAnswer(w))
    /\ \A r \in Replicas : WF_vars(BootStep(r))
    /\ WF_vars(TailStep)
    /\ WF_vars(\E row \in Rows : Perform(row) \/ DeadLetter(row))

=============================================================================
