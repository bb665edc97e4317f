------------------------------- MODULE Bulkhead -------------------------------
(***************************************************************************)
(* A bounded worker pool of internal/bulkhead/bulkhead.go: Submit never    *)
(* blocks, the workers drain a channel of at most Queue tasks, and Close   *)
(* lets them finish what was accepted.                                     *)
(***************************************************************************)
EXTENDS Naturals, Sequences, FiniteSets

CONSTANTS
    Workers,
    Tasks, NoTask,   \* every call of Submit brings a task of its own
    Queue            \* capacity of the channel

\* New starts at least one worker.
ASSUME BulkheadAssumption ==
    NoTask \notin Tasks /\ Queue \in Nat /\ IsFiniteSet(Workers) /\ Workers # {}

VARIABLES
    queue,     \* the channel's buffer
    worker,    \* a worker is starting its receive, blocked in it, running a task, or gone
    task,      \* what became of each task
    closed,    \* Pool.closed; the channel is closed with it
    closer,    \* the first Close: not called, waiting for the workers, returned
    counting,  \* the task Submit has sent and not counted yet; it holds the mutex
    submitted, completed, panicked

poolVars == <<queue, worker, task, closed, closer, counting, submitted, completed, panicked>>

Loop == [pc |-> "loop", task |-> NoTask]
Receiving == {w \in Workers : worker[w].pc = "receive"}

-----------------------------------------------------------------------------
(* Submit, under the pool's mutex, which the workers do not take: between the    *)
(* send and submitted.Add they may run the task and even finish it.              *)

\* A task is considered once, and refused by a closed pool.
MutexFree == counting = NoTask
Accept(t) == task[t] = "new" /\ MutexFree /\ ~closed

\* The send finds a worker blocked in its receive: the task goes to it directly.
SubmitToWorker(t, w) ==
    /\ Accept(t)
    /\ w \in Receiving
    /\ worker' = [worker EXCEPT ![w] = [pc |-> "run", task |-> t]]
    /\ task' = [task EXCEPT ![t] = "accepted"]
    /\ counting' = t
    /\ UNCHANGED <<queue, closed, closer, submitted, completed, panicked>>

\* Mutant of SubmitToQueue: the capacity is off by one.
SubmitToQueueOver(t) ==
    /\ Accept(t)
    /\ Receiving = {} /\ Len(queue) <= Queue
    /\ queue' = Append(queue, t)
    /\ task' = [task EXCEPT ![t] = "accepted"]
    /\ counting' = t
    /\ UNCHANGED <<worker, closed, closer, submitted, completed, panicked>>

\* Nobody is waiting and the buffer has room.
SubmitToQueue(t) ==
    /\ Accept(t)
    /\ Receiving = {} /\ Len(queue) < Queue
    /\ queue' = Append(queue, t)
    /\ task' = [task EXCEPT ![t] = "accepted"]
    /\ counting' = t
    /\ UNCHANGED <<worker, closed, closer, submitted, completed, panicked>>

\* The accepted task is counted, and Submit returns nil.
SubmitCounted ==
    /\ counting # NoTask
    /\ submitted' = submitted + 1
    /\ counting' = NoTask
    /\ UNCHANGED <<queue, worker, task, closed, closer, completed, panicked>>

\* ReasonFull or ReasonClosed.
SubmitRejected(t) ==
    /\ task[t] = "new" /\ MutexFree
    /\ closed \/ (Receiving = {} /\ Len(queue) >= Queue)
    /\ task' = [task EXCEPT ![t] = "rejected"]
    /\ UNCHANGED <<queue, worker, closed, closer, counting, submitted, completed, panicked>>

-----------------------------------------------------------------------------
(* The workers: for task := range p.queue. *)

\* A worker takes the oldest buffered task.
Take(w) ==
    /\ worker[w].pc = "loop"
    /\ queue # <<>>
    /\ worker' = [worker EXCEPT ![w] = [pc |-> "run", task |-> Head(queue)]]
    /\ queue' = Tail(queue)
    /\ UNCHANGED <<task, closed, closer, counting, submitted, completed, panicked>>

\* There is none: it blocks.
Block(w) ==
    /\ worker[w].pc = "loop"
    /\ queue = <<>> /\ ~closed
    /\ worker' = [worker EXCEPT ![w].pc = "receive"]
    /\ UNCHANGED <<queue, task, closed, closer, counting, submitted, completed, panicked>>

\* Mutant of Exit: a worker leaves as soon as the channel is closed.
ExitAtOnce(w) ==
    /\ worker[w].pc \in {"loop", "receive"}
    /\ closed
    /\ worker' = [worker EXCEPT ![w].pc = "gone"]
    /\ UNCHANGED <<queue, task, closed, closer, counting, submitted, completed, panicked>>

\* The channel is closed and empty: the range ends and the worker with it.
Exit(w) ==
    /\ worker[w].pc \in {"loop", "receive"}
    /\ closed /\ queue = <<>>
    /\ worker' = [worker EXCEPT ![w].pc = "gone"]
    /\ UNCHANGED <<queue, task, closed, closer, counting, submitted, completed, panicked>>

\* Mutant of Finish: whoever waits for a task that panics is not told.
FinishUnsignalled(w, panics) ==
    LET t == worker[w].task IN
    /\ worker[w].pc = "run"
    /\ worker' = [worker EXCEPT ![w] = Loop]
    /\ task' = IF panics THEN task ELSE [task EXCEPT ![t] = "done"]
    /\ panicked' = IF panics THEN panicked + 1 ELSE panicked
    /\ completed' = IF panics THEN completed ELSE completed + 1
    /\ UNCHANGED <<queue, closed, closer, counting, submitted>>

\* Mutant of Finish: a panicking task is counted as completed too.
FinishCountsTwice(w, panics) ==
    LET t == worker[w].task IN
    /\ worker[w].pc = "run"
    /\ worker' = [worker EXCEPT ![w] = Loop]
    /\ task' = [task EXCEPT ![t] = "done"]
    /\ panicked' = IF panics THEN panicked + 1 ELSE panicked
    /\ completed' = completed + 1
    /\ UNCHANGED <<queue, closed, closer, counting, submitted>>

\* run: the task returns or panics; either way the worker goes on.
Finish(w, panics) ==
    LET t == worker[w].task IN
    /\ worker[w].pc = "run"
    /\ worker' = [worker EXCEPT ![w] = Loop]
    /\ task' = [task EXCEPT ![t] = "done"]
    /\ panicked' = IF panics THEN panicked + 1 ELSE panicked
    /\ completed' = IF panics THEN completed ELSE completed + 1
    /\ UNCHANGED <<queue, closed, closer, counting, submitted>>

-----------------------------------------------------------------------------
(* Close; a later call of Close returns at once and changes nothing. *)

Close ==
    /\ ~closed /\ MutexFree
    /\ closed' = TRUE
    /\ closer' = "waiting"
    /\ UNCHANGED <<queue, worker, task, counting, submitted, completed, panicked>>

\* wg.Wait returns when every worker has.
CloseReturns ==
    /\ closer = "waiting"
    /\ \A w \in Workers : worker[w].pc = "gone"
    /\ closer' = "returned"
    /\ UNCHANGED <<queue, worker, task, closed, counting, submitted, completed, panicked>>

PoolInit ==
    /\ queue = <<>> /\ closed = FALSE /\ closer = "no"
    /\ worker = [w \in Workers |-> Loop]
    /\ task = [t \in Tasks |-> "new"]
    /\ counting = NoTask /\ submitted = 0 /\ completed = 0 /\ panicked = 0

Submit(t) == SubmitToQueue(t) \/ SubmitRejected(t) \/ \E w \in Workers : SubmitToWorker(t, w)

PoolNext ==
    \/ (\E t \in Tasks : Submit(t)) \/ SubmitCounted
    \/ \E w \in Workers : Take(w) \/ Block(w) \/ Exit(w) \/ \E panics \in BOOLEAN : Finish(w, panics)
    \/ Close \/ CloseReturns

PoolSpec == PoolInit /\ [][PoolNext]_poolVars

-----------------------------------------------------------------------------
(* Properties *)

Running == {w \in Workers : worker[w].pc = "run"}

\* The pool's variables have their types and the buffer stays within its capacity.
PoolTypeOK ==
    /\ queue \in Seq(Tasks) /\ Len(queue) <= Queue
    /\ worker \in [Workers -> [pc : {"loop", "receive", "run", "gone"}, task : Tasks \cup {NoTask}]]
    /\ task \in [Tasks -> {"new", "accepted", "done", "rejected"}]
    /\ closed \in BOOLEAN /\ closer \in {"no", "waiting", "returned"}
    /\ counting \in Tasks \cup {NoTask} /\ submitted \in Nat /\ completed \in Nat /\ panicked \in Nat

\* Nothing accepted is lost or counted twice, however submissions, panics and the
\* drain interleave: the counters of Stats add up with what is queued and running,
\* up to the one task that a Submit holding the mutex has sent and not yet counted
\* (a snapshot may show it completed and not submitted).
Conserved ==
    submitted + (IF counting = NoTask THEN 0 ELSE 1)
        = completed + panicked + Len(queue) + Cardinality(Running)

\* When Close returns, no accepted task waits or runs: none was accepted behind its
\* back and no worker left early.
ClosedIsDrained == closer = "returned" => queue = <<>> /\ Running = {}

=============================================================================
