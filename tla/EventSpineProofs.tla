--------------------------- MODULE EventSpineProofs ---------------------------
(***************************************************************************)
(* Theorems about EventSpine, for every number of identities, replicas,    *)
(* request threads and keys and for every value of the bounds.             *)
(*                                                                         *)
(* The watermark and outbox invariants are not inductive: they rest on     *)
(* where each thread is.  Inv adds, per thread, what its position in the   *)
(* log says about the tables.                                              *)
(***************************************************************************)
EXTENDS EventSpine, TLAPS

\* A boot thread that is replaying stays within the log it saw when it began.
BootWithinLog ==
    \A r \in Replicas :
        /\ boot[r].pc \in {"catchup", "reconcile", "retx", "readvance"} =>
             /\ 1 <= boot[r].pos
             /\ boot[r].end <= Len(log)
        /\ boot[r].pc \in {"retx", "readvance"} => boot[r].pos <= boot[r].end
        /\ boot[r].pc \in {"catchup", "reconcile"} =>
             boot[r].pos - 1 <= Len(log)

\* A request thread past its append knows the sequence of its own event.
WriterInLog ==
    \A w \in Writers :
        writer[w].pc \in {"appended", "tx", "committed"} =>
            /\ writer[w].seq \in 1..Len(log)
            /\ log[writer[w].seq] = writer[w].ev

\* The tail is between apply and acknowledge only for an event that exists.
TailInLog == tail.pc \in {"applied", "advanced"} => tailAck < Len(log)

TypeInv == TypeOK /\ BootWithinLog /\ WriterInLog /\ TailInLog

-----------------------------------------------------------------------------
\* A thread that is not idle carries a request.
LEMMA BusyWriter ==
    ASSUME TypeOK, NEW w \in Writers, writer[w].pc # "idle"
    PROVE  writer[w] \in Request
BY DEF TypeOK, WriterOK, Idle, Request

\* An effect row of a logged event, or of an event about to be logged, is a row.
LEMMA EffectKeyType ==
    ASSUME NEW seq \in 1..MaxLog, NEW key \in Keys \cup {NoKey}
    PROVE  EffectKey(seq, key) \in EffectKeys
BY DEF EffectKey, EffectKeys

\* The boot record of a replica that is not replaying.
LEMMA DownType ==
    ASSUME NEW x \in BootPc
    PROVE  [Down EXCEPT !.pc = x] \in [pc : BootPc, pos : 0..(MaxLog + 1), end : 0..MaxLog,
                                        since : 0..checkpointEvery, insert : BOOLEAN]
<1>1. 0 \in 0..(MaxLog + 1) /\ 0 \in 0..MaxLog /\ 0 \in 0..checkpointEvery
  BY SpineAssumption
<1> QED
  BY <1>1 DEF Down

\* Empty tables and stopped replicas are well formed.
LEMMA TypeInit == Init => TypeInv
<1> SUFFICES ASSUME Init PROVE TypeInv
  OBVIOUS
<1> USE SpineAssumption DEF Init
<1>1. LogOK /\ TablesOK /\ MarksOK /\ OutboxOK /\ BudgetOK
  BY DEF LogOK, TablesOK, MarksOK, OutboxOK, BudgetOK, States
<1>2. WriterOK /\ BootOK /\ TailOK
  BY DEF WriterOK, BootOK, TailOK, Idle, Down, TailOff, BootPc
<1>3. BootWithinLog /\ WriterInLog /\ TailInLog
  BY DEF BootWithinLog, WriterInLog, TailInLog, Down, Idle, TailOff
<1> QED
  BY <1>1, <1>2, <1>3 DEF TypeInv, TypeOK

\* Every step keeps the state well formed, one case per action.
LEMMA TypeNext == TypeInv /\ [Next]_vars => TypeInv'
<1> SUFFICES ASSUME TypeInv, [Next]_vars PROVE TypeInv'
  OBVIOUS
<1> USE SpineAssumption DEF TypeInv, TypeOK, readModel, outbox, budgets
<1>1. ASSUME NEW w \in Writers, NEW r \in Replicas, NEW i \in Identities,
             NEW to \in States, NEW key \in Keys \cup {NoKey}, TransitionLoad(w, r, i, to,
                key) PROVE TypeInv'
  <2>1. WriterOK'
    BY <1>1 DEF TransitionLoad, WriterOK, Request, Event, Payloads, TablesOK, LogOK
  <2>2. WriterInLog'
    BY <1>1 DEF TransitionLoad, WriterInLog, WriterOK
  <2>3. (LogOK /\ TablesOK /\ MarksOK /\ OutboxOK /\ BootOK /\ TailOK /\ BudgetOK 
     /\ BootWithinLog /\ TailInLog)'
    BY <1>1 DEF TransitionLoad, LogOK, TablesOK, MarksOK, OutboxOK, BootOK, TailOK,
       BudgetOK, BootWithinLog, TailInLog
  <2> QED
    BY <2>1, <2>2, <2>3
<1>2. ASSUME NEW w \in Writers, TransitionAppend(w) PROVE TypeInv'
  <2>1. writer[w] \in Request /\ writer[w].ev \in Event
    BY <1>2, BusyWriter DEF TransitionAppend, Request
  <2>2. /\ log' = Append(log, writer[w].ev) /\ Len(log) \in Nat /\ Len(log') = Len(log) + 1
        /\ DOMAIN log = 1..Len(log) /\ DOMAIN log' = 1..Len(log')
        /\ log'[Len(log) + 1] = writer[w].ev
        /\ \A s \in 1..Len(log) : log'[s] = log[s]
    BY <1>2, <2>1 DEF TransitionAppend, LogOK
  <2>3. LogOK'
    BY <1>2, <2>1, <2>2 DEF TransitionAppend, LogOK
  <2>4. TablesOK'
    BY <1>2, <2>1, <2>2 DEF TransitionAppend, TablesOK, LogOK
  <2>5. MarksOK'
    BY <1>2, <2>1, <2>2 DEF TransitionAppend, MarksOK, LogOK
  <2>6. WriterOK'
    <3>1. Len(log) + 1 \in 0..MaxLog
      BY <1>2, <2>2 DEF TransitionAppend
    <3>2. writer' = [writer EXCEPT ![w] = [writer[w] EXCEPT !.pc = "appended", !.seq = Len(log) + 1]]
      BY <1>2 DEF TransitionAppend
    <3>3. [writer[w] EXCEPT !.pc = "appended", !.seq = Len(log) + 1] \in Request
      BY <2>1, <3>1 DEF Request
    <3> QED
      BY <1>2, <3>2, <3>3 DEF TransitionAppend, WriterOK
  <2>7. BootWithinLog'
    BY <1>2, <2>1, <2>2 DEF TransitionAppend, BootWithinLog, BootOK
  <2>8. WriterInLog'
    BY <1>2, <2>1, <2>2 DEF TransitionAppend, WriterInLog, WriterOK, Request
  <2>9. TailInLog'
    BY <1>2, <2>1, <2>2 DEF TransitionAppend, TailInLog, MarksOK
  <2>10. (OutboxOK /\ BootOK /\ TailOK /\ BudgetOK)'
    BY <1>2 DEF TransitionAppend, OutboxOK, BootOK, TailOK, BudgetOK
  <2> QED
    BY <2>3, <2>4, <2>5, <2>6, <2>7, <2>8, <2>9, <2>10
<1>3. ASSUME NEW w \in Writers, TransitionExec(w) PROVE TypeInv'
  <2>1. writer[w] \in Request
    BY <1>3, BusyWriter DEF TransitionExec
  <2>2. WriterOK'
    BY <1>3, <2>1 DEF TransitionExec, WriterOK, Request
  <2>3. WriterInLog'
    BY <1>3, <2>1 DEF TransitionExec, WriterInLog, WriterOK, Request
  <2>4. (LogOK /\ TablesOK /\ MarksOK /\ OutboxOK /\ BootOK /\ TailOK /\ BudgetOK 
     /\ BootWithinLog /\ TailInLog)'
    BY <1>3 DEF TransitionExec, LogOK, TablesOK, MarksOK, OutboxOK, BootOK, TailOK,
       BudgetOK, BootWithinLog, TailInLog
  <2> QED
    BY <2>2, <2>3, <2>4
<1>4. ASSUME NEW w \in Writers, TransitionCommit(w) PROVE TypeInv'
  <2>1. writer[w] \in Request
    BY <1>4, BusyWriter DEF TransitionCommit
  <2>2. writer[w].seq \in 1..Len(log) /\ writer[w].seq \in 1..MaxLog 
     /\ DOMAIN log = 1..Len(log)
    BY <1>4 DEF TransitionCommit, WriterInLog, LogOK
  <2>3. <<EffectKey(writer[w].seq, writer[w].ev.key), writer[w].payload>> \in Rows
    BY <2>1, <2>2, EffectKeyType DEF Rows, Request, Event
  <2>4. TablesOK'
    BY <1>4, <2>1, <2>2, <2>3 DEF TransitionCommit, TablesOK, ApplyTx, Request, Event, LogOK
  <2>5. OutboxOK'
    BY SMTT(30), <1>4, <2>1, <2>2, <2>3 DEF TransitionCommit, OutboxOK, Insert
  <2>6. WriterOK'
    BY <1>4, <2>1, <2>2, <2>3 DEF TransitionCommit, WriterOK, Request
  <2>7. WriterInLog'
    BY <1>4, <2>1, <2>2, <2>3 DEF TransitionCommit, WriterInLog, WriterOK, Request
  <2>8. (LogOK /\ MarksOK /\ BootOK /\ TailOK /\ BudgetOK /\ BootWithinLog /\ TailInLog)'
    BY <1>4 DEF TransitionCommit, LogOK, MarksOK, BootOK, TailOK, BudgetOK, BootWithinLog,
       TailInLog
  <2> QED
    BY <2>4, <2>5, <2>6, <2>7, <2>8
<1>5. ASSUME NEW w \in Writers, TransitionAnswer(w) PROVE TypeInv'
  <2>1. writer[w] \in Request
    BY <1>5, BusyWriter DEF TransitionAnswer
  <2>2. WriterOK'
    BY <1>5, <2>1 DEF TransitionAnswer, WriterOK, Request, Event
  <2>3. WriterInLog'
    BY <1>5, <2>1 DEF TransitionAnswer, WriterInLog, WriterOK, Idle
  <2>4. (LogOK /\ TablesOK /\ MarksOK /\ OutboxOK /\ BootOK /\ TailOK /\ BudgetOK 
     /\ BootWithinLog /\ TailInLog)'
    BY <1>5 DEF TransitionAnswer, LogOK, TablesOK, MarksOK, OutboxOK, BootOK, TailOK,
       BudgetOK, BootWithinLog, TailInLog
  <2> QED
    BY <2>2, <2>3, <2>4
<1>6. ASSUME NEW w \in Writers, TransitionAbort(w) PROVE TypeInv'
  <2>1. WriterOK'
    BY <1>6 DEF TransitionAbort, WriterOK, Idle
  <2>2. BudgetOK'
    BY <1>6 DEF TransitionAbort, BudgetOK
  <2>3. WriterInLog'
    BY <1>6 DEF TransitionAbort, WriterInLog, WriterOK, Idle
  <2>4. (LogOK /\ TablesOK /\ MarksOK /\ OutboxOK /\ BootOK /\ TailOK /\ BootWithinLog 
     /\ TailInLog)'
    BY <1>6 DEF TransitionAbort, LogOK, TablesOK, MarksOK, OutboxOK, BootOK, TailOK,
       BootWithinLog, TailInLog
  <2> QED
    BY <2>1, <2>2, <2>3, <2>4
<1>7. ASSUME NEW r \in Replicas, Restart(r) PROVE TypeInv'
  <2>1. BootOK'
    BY <1>7 DEF Restart, BootOK, BootPc
  <2>2. BootWithinLog'
    BY <1>7 DEF Restart, BootWithinLog, BootOK
  <2>3. (LogOK /\ TablesOK /\ MarksOK /\ OutboxOK /\ WriterOK /\ TailOK /\ BudgetOK 
     /\ WriterInLog /\ TailInLog)'
    BY <1>7 DEF Restart, LogOK, TablesOK, MarksOK, OutboxOK, WriterOK, TailOK, BudgetOK,
       WriterInLog, TailInLog
  <2> QED
    BY <2>1, <2>2, <2>3
<1>8. ASSUME NEW r \in Replicas, CatchUpBegin(r) PROVE TypeInv'
  <2>1. BootOK'
    BY <1>8 DEF CatchUpBegin, BootOK, BootPc, MarksOK, LogOK
  <2>2. BootWithinLog'
    BY <1>8 DEF CatchUpBegin, BootWithinLog, BootOK, MarksOK, LogOK
  <2>3. (LogOK /\ TablesOK /\ MarksOK /\ OutboxOK /\ WriterOK /\ TailOK /\ BudgetOK 
     /\ WriterInLog /\ TailInLog)'
    BY <1>8 DEF CatchUpBegin, LogOK, TablesOK, MarksOK, OutboxOK, WriterOK, TailOK,
       BudgetOK, WriterInLog, TailInLog
  <2> QED
    BY <2>1, <2>2, <2>3
<1>9. ASSUME NEW r \in Replicas, CatchUpApply(r) PROVE TypeInv'
  <2>1. boot[r].pos \in 1..Len(log) /\ DOMAIN log = 1..Len(log) /\ Len(log) \in Nat 
     /\ log[boot[r].pos] \in Event
    BY <1>9 DEF CatchUpApply, BootWithinLog, BootOK, LogOK
  <2>2. TablesOK'
    BY <1>9, <2>1 DEF CatchUpApply, TablesOK, ApplyTx, Event
  <2>3. BootOK'
    <3>1. boot[r].pos + 1 \in 0..(MaxLog + 1) /\ boot[r].since + 1 \in 0..checkpointEvery
      BY <1>9, <2>1 DEF CatchUpApply, BootOK, LogOK
    <3> QED
      BY <1>9, <3>1 DEF CatchUpApply, BootOK
  <2>4. BootWithinLog'
    BY SMTT(30), <1>9, <2>1 DEF CatchUpApply, BootWithinLog, BootOK
  <2>5. (LogOK /\ MarksOK /\ OutboxOK /\ WriterOK /\ TailOK /\ BudgetOK /\ WriterInLog 
     /\ TailInLog)'
    BY <1>9 DEF CatchUpApply, LogOK, MarksOK, OutboxOK, WriterOK, TailOK, BudgetOK,
       WriterInLog, TailInLog
  <2> QED
    BY <2>2, <2>3, <2>4, <2>5
<1>10. ASSUME NEW r \in Replicas, CatchUpCheckpoint(r) PROVE TypeInv'
  <2>1. MarksOK'
    BY <1>10 DEF CatchUpCheckpoint, MarksOK, Greatest, BootWithinLog, BootOK, LogOK
  <2>2. BootOK'
    BY <1>10 DEF CatchUpCheckpoint, BootOK
  <2>3. BootWithinLog'
    BY <1>10 DEF CatchUpCheckpoint, BootWithinLog, BootOK
  <2>4. (LogOK /\ TablesOK /\ OutboxOK /\ WriterOK /\ TailOK /\ BudgetOK /\ WriterInLog 
     /\ TailInLog)'
    BY <1>10 DEF CatchUpCheckpoint, LogOK, TablesOK, OutboxOK, WriterOK, TailOK, BudgetOK,
       WriterInLog, TailInLog
  <2> QED
    BY <2>1, <2>2, <2>3, <2>4
<1>11. ASSUME NEW r \in Replicas, CatchUpFinish(r) PROVE TypeInv'
  <2>1. MarksOK'
    BY <1>11 DEF CatchUpFinish, MarksOK, Greatest, BootWithinLog, BootOK, LogOK
  <2>2. BootOK'
    BY <1>11, DownType DEF CatchUpFinish, BootOK, BootPc
  <2>3. BootWithinLog'
    BY <1>11 DEF CatchUpFinish, BootWithinLog, BootOK, Down
  <2>4. (LogOK /\ TablesOK /\ OutboxOK /\ WriterOK /\ TailOK /\ BudgetOK /\ WriterInLog 
     /\ TailInLog)'
    BY <1>11 DEF CatchUpFinish, LogOK, TablesOK, OutboxOK, WriterOK, TailOK, BudgetOK,
       WriterInLog, TailInLog
  <2> QED
    BY <2>1, <2>2, <2>3, <2>4
<1>12. ASSUME NEW r \in Replicas, Rebuild(r) PROVE TypeInv'
  <2>1. TablesOK'
    BY <1>12 DEF Rebuild, TablesOK
  <2>2. MarksOK'
    BY <1>12 DEF Rebuild, MarksOK, LogOK
  <2>3. BootOK'
    BY <1>12 DEF Rebuild, BootOK, BootPc
  <2>4. BootWithinLog'
    BY <1>12 DEF Rebuild, BootWithinLog, BootOK
  <2>5. (LogOK /\ OutboxOK /\ WriterOK /\ TailOK /\ BudgetOK /\ WriterInLog /\ TailInLog)'
    BY <1>12 DEF Rebuild, LogOK, OutboxOK, WriterOK, TailOK, BudgetOK, WriterInLog,
       TailInLog
  <2> QED
    BY <2>1, <2>2, <2>3, <2>4, <2>5
<1>13. ASSUME NEW r \in Replicas, ReconcileBegin(r) PROVE TypeInv'
  <2>1. BootOK'
    BY <1>13 DEF ReconcileBegin, BootOK, BootPc, MarksOK, LogOK
  <2>2. BootWithinLog'
    BY <1>13 DEF ReconcileBegin, BootWithinLog, BootOK, MarksOK, LogOK
  <2>3. (LogOK /\ TablesOK /\ MarksOK /\ OutboxOK /\ WriterOK /\ TailOK /\ BudgetOK 
     /\ WriterInLog /\ TailInLog)'
    BY <1>13 DEF ReconcileBegin, LogOK, TablesOK, MarksOK, OutboxOK, WriterOK, TailOK,
       BudgetOK, WriterInLog, TailInLog
  <2> QED
    BY <2>1, <2>2, <2>3
<1>14. ASSUME NEW r \in Replicas, ReconcileExec(r) PROVE TypeInv'
  <2>1. BootOK'
    <3>1. RowExists(KeyOf(boot[r].pos)) \in BOOLEAN
      BY DEF RowExists, Kept
    <3>2. CASE HasEffect(boot[r].pos)
      BY ZenonT(30), <1>14, <3>1, <3>2 DEF ReconcileExec, BootOK, BootPc
    <3>3. CASE ~HasEffect(boot[r].pos)
      BY <1>14, <3>3 DEF ReconcileExec, BootOK, BootPc
    <3> QED
      BY <3>2, <3>3
  <2>2. BootWithinLog'
    BY <1>14 DEF ReconcileExec, BootWithinLog, BootOK
  <2>3. (LogOK /\ TablesOK /\ MarksOK /\ OutboxOK /\ WriterOK /\ TailOK /\ BudgetOK 
     /\ WriterInLog /\ TailInLog)'
    BY <1>14 DEF ReconcileExec, LogOK, TablesOK, MarksOK, OutboxOK, WriterOK, TailOK,
       BudgetOK, WriterInLog, TailInLog
  <2> QED
    BY <2>1, <2>2, <2>3
<1>15. ASSUME NEW r \in Replicas, ReconcileCommit(r) PROVE TypeInv'
  <2>1. boot[r].pos \in 1..MaxLog /\ log[boot[r].pos] \in Event
    BY <1>15 DEF ReconcileCommit, BootWithinLog, BootOK, LogOK
  <2>2. <<KeyOf(boot[r].pos), "event">> \in Rows
    BY <2>1, EffectKeyType DEF Rows, KeyOf, Payloads, Event
  <2>3. OutboxOK'
    BY <1>15, <2>1, <2>2 DEF ReconcileCommit, OutboxOK, Insert
  <2>4. BootOK'
    BY ZenonT(30), <1>15, <2>1, <2>2 DEF ReconcileCommit, BootOK, BootPc
  <2>5. BootWithinLog'
    BY <1>15, <2>1, <2>2 DEF ReconcileCommit, BootWithinLog, BootOK
  <2>6. (LogOK /\ TablesOK /\ MarksOK /\ WriterOK /\ TailOK /\ BudgetOK /\ WriterInLog 
     /\ TailInLog)'
    BY <1>15 DEF ReconcileCommit, LogOK, TablesOK, MarksOK, WriterOK, TailOK, BudgetOK,
       WriterInLog, TailInLog
  <2> QED
    BY <2>3, <2>4, <2>5, <2>6
<1>16. ASSUME NEW r \in Replicas, ReconcileAdvance(r) PROVE TypeInv'
  <2>1. MarksOK'
    BY <1>16 DEF ReconcileAdvance, MarksOK, Greatest, BootWithinLog, BootOK, LogOK
  <2>2. BootOK'
    BY <1>16 DEF ReconcileAdvance, BootOK, BootPc, BootWithinLog, LogOK
  <2>3. BootWithinLog'
    BY <1>16 DEF ReconcileAdvance, BootWithinLog, BootOK, LogOK
  <2>4. (LogOK /\ TablesOK /\ OutboxOK /\ WriterOK /\ TailOK /\ BudgetOK /\ WriterInLog 
     /\ TailInLog)'
    BY <1>16 DEF ReconcileAdvance, LogOK, TablesOK, OutboxOK, WriterOK, TailOK, BudgetOK,
       WriterInLog, TailInLog
  <2> QED
    BY <2>1, <2>2, <2>3, <2>4
<1>17. ASSUME NEW r \in Replicas, Serve(r) PROVE TypeInv'
  <2>1. BootOK'
    BY <1>17, DownType DEF Serve, BootOK, BootPc
  <2>2. BootWithinLog'
    BY <1>17 DEF Serve, BootWithinLog, BootOK, Down
  <2>3. (LogOK /\ TablesOK /\ MarksOK /\ OutboxOK /\ WriterOK /\ TailOK /\ BudgetOK 
     /\ WriterInLog /\ TailInLog)'
    BY <1>17 DEF Serve, LogOK, TablesOK, MarksOK, OutboxOK, WriterOK, TailOK, BudgetOK,
       WriterInLog, TailInLog
  <2> QED
    BY <2>1, <2>2, <2>3
<1>18. ASSUME NEW r \in Replicas, TailStart(r) PROVE TypeInv'
  <2>1. TailOK'
    BY <1>18 DEF TailStart, TailOK
  <2>2. TailInLog'
    BY <1>18 DEF TailStart, TailInLog
  <2>3. (LogOK /\ TablesOK /\ MarksOK /\ OutboxOK /\ WriterOK /\ BootOK /\ BudgetOK 
     /\ BootWithinLog /\ WriterInLog)'
    BY <1>18 DEF TailStart, LogOK, TablesOK, MarksOK, OutboxOK, WriterOK, BootOK, BudgetOK,
       BootWithinLog, WriterInLog
  <2> QED
    BY <2>1, <2>2, <2>3
<1>19. ASSUME TailApply PROVE TypeInv'
  <2>1. tailAck + 1 \in 1..Len(log) /\ DOMAIN log = 1..Len(log) 
     /\ log[tailAck + 1] \in Event
    BY <1>19 DEF TailApply, MarksOK, LogOK
  <2>2. TablesOK'
    BY <1>19, <2>1 DEF TailApply, TablesOK, ApplyTx, Event
  <2>3. TailOK'
    BY <1>19, <2>1 DEF TailApply, TailOK
  <2>4. TailInLog'
    BY <1>19, <2>1 DEF TailApply, TailInLog, TailOK
  <2>5. (LogOK /\ MarksOK /\ OutboxOK /\ WriterOK /\ BootOK /\ BudgetOK 
     /\ BootWithinLog /\ WriterInLog)'
    BY <1>19 DEF TailApply, LogOK, MarksOK, OutboxOK, WriterOK, BootOK, BudgetOK,
       BootWithinLog, WriterInLog
  <2> QED
    BY <2>2, <2>3, <2>4, <2>5
<1>20. ASSUME TailAdvance PROVE TypeInv'
  <2>1. MarksOK'
    BY <1>20 DEF TailAdvance, MarksOK, Greatest, TailInLog, LogOK
  <2>2. TailOK'
    BY <1>20 DEF TailAdvance, TailOK
  <2>3. TailInLog'
    BY <1>20 DEF TailAdvance, TailInLog, TailOK
  <2>4. (LogOK /\ TablesOK /\ OutboxOK /\ WriterOK /\ BootOK /\ BudgetOK 
     /\ BootWithinLog /\ WriterInLog)'
    BY <1>20 DEF TailAdvance, LogOK, TablesOK, OutboxOK, WriterOK, BootOK, BudgetOK,
       BootWithinLog, WriterInLog
  <2> QED
    BY <2>1, <2>2, <2>3, <2>4
<1>21. ASSUME TailAcknowledge PROVE TypeInv'
  <2>1. MarksOK'
    BY <1>21 DEF TailAcknowledge, MarksOK, TailInLog, LogOK
  <2>2. TailOK'
    BY <1>21 DEF TailAcknowledge, TailOK
  <2>3. TailInLog'
    BY <1>21 DEF TailAcknowledge, TailInLog, TailOK
  <2>4. (LogOK /\ TablesOK /\ OutboxOK /\ WriterOK /\ BootOK /\ BudgetOK 
     /\ BootWithinLog /\ WriterInLog)'
    BY <1>21 DEF TailAcknowledge, LogOK, TablesOK, OutboxOK, WriterOK, BootOK, BudgetOK,
       BootWithinLog, WriterInLog
  <2> QED
    BY <2>1, <2>2, <2>3, <2>4
<1>22. ASSUME NEW row \in Rows, Perform(row) PROVE TypeInv'
  <2>1. OutboxOK'
    BY <1>22 DEF Perform, OutboxOK
  <2>2. (LogOK /\ TablesOK /\ MarksOK /\ WriterOK /\ BootOK /\ TailOK /\ BudgetOK 
     /\ BootWithinLog /\ WriterInLog /\ TailInLog)'
    BY <1>22 DEF Perform, LogOK, TablesOK, MarksOK, WriterOK, BootOK, TailOK, BudgetOK,
       BootWithinLog, WriterInLog, TailInLog
  <2> QED
    BY <2>1, <2>2
<1>26. ASSUME NEW row \in Rows, DeadLetter(row) PROVE TypeInv'
  <2>1. OutboxOK'
    BY <1>26 DEF DeadLetter, OutboxOK
  <2>2. (LogOK /\ TablesOK /\ MarksOK /\ WriterOK /\ BootOK /\ TailOK /\ BudgetOK
     /\ BootWithinLog /\ WriterInLog /\ TailInLog)'
    BY <1>26 DEF DeadLetter, LogOK, TablesOK, MarksOK, WriterOK, BootOK, TailOK, BudgetOK,
       BootWithinLog, WriterInLog, TailInLog
  <2> QED
    BY <2>1, <2>2
<1>23. ASSUME NEW row \in Rows, Sweep(row) PROVE TypeInv'
  <2>1. OutboxOK'
    BY <1>23 DEF Sweep, OutboxOK
  <2>2. (LogOK /\ TablesOK /\ MarksOK /\ WriterOK /\ BootOK /\ TailOK /\ BudgetOK 
     /\ BootWithinLog /\ WriterInLog /\ TailInLog)'
    BY <1>23 DEF Sweep, LogOK, TablesOK, MarksOK, WriterOK, BootOK, TailOK, BudgetOK,
       BootWithinLog, WriterInLog, TailInLog
  <2> QED
    BY <2>1, <2>2
<1>24. ASSUME NEW r \in Replicas, Crash(r) PROVE TypeInv'
  <2>1. WriterOK'
    BY <1>24 DEF Crash, WriterOK
  <2>2. BootOK'
    BY <1>24 DEF Crash, BootOK, Down, BootPc
  <2>3. TailOK'
    BY <1>24 DEF Crash, TailOK, TailOff
  <2>4. BudgetOK'
    BY <1>24 DEF Crash, BudgetOK
  <2>5. BootWithinLog'
    BY <1>24 DEF Crash, BootWithinLog, BootOK, Down
  <2>6. WriterInLog'
    BY <1>24 DEF Crash, WriterInLog, WriterOK, Idle
  <2>7. TailInLog'
    BY <1>24 DEF Crash, TailInLog, TailOff
  <2>8. (LogOK /\ TablesOK /\ MarksOK /\ OutboxOK)'
    BY <1>24 DEF Crash, LogOK, TablesOK, MarksOK, OutboxOK
  <2> QED
    BY <2>1, <2>2, <2>3, <2>4, <2>5, <2>6, <2>7, <2>8
<1>25. ASSUME UNCHANGED vars PROVE TypeInv'
  BY <1>25 DEF vars, LogOK, TablesOK, MarksOK, OutboxOK, WriterOK, BootOK, TailOK,
     BudgetOK, BootWithinLog, WriterInLog, TailInLog
<1> QED
  BY <1>1, <1>2, <1>3, <1>4, <1>5, <1>6, <1>7, <1>8, <1>9, <1>10, <1>11, <1>12, <1>13,
     <1>14, <1>15, <1>16, <1>17, <1>18, <1>19, <1>20, <1>21, <1>22, <1>23, <1>24, <1>25, <1>26
     DEF Next, Transition, BootStep, TailStep

\* The state of log, tables, watermarks and threads stays well formed: every
\* sequence a thread, a table row or a watermark names exists in the log.
THEOREM TypeCorrect == Spec => []TypeOK
<1>1. Spec => []TypeInv
  BY TypeInit, TypeNext, PTL DEF Spec
<1> QED
  BY <1>1, PTL DEF TypeInv

-----------------------------------------------------------------------------
(* Watermarks *)

\* A catch-up has applied every event before its position.
CatchUpApplied ==
    \A r \in Replicas : boot[r].pc = "catchup" => 1..(boot[r].pos - 1) \subseteq transitions

\* The tail has applied the event it is about to checkpoint or acknowledge.
TailApplied == tail.pc \in {"applied", "advanced"} => tailAck + 1 \in transitions

WatermarkInv == CheckpointSound /\ CatchUpApplied /\ TailApplied

\* No step removes a row of identity_transitions: Rebuild truncates and refills.
LEMMA TransitionsGrow == TypeInv /\ [Next]_vars => transitions \subseteq transitions'
<1> SUFFICES ASSUME TypeInv, [Next]_vars PROVE transitions \subseteq transitions'
  OBVIOUS
<1>1. ASSUME NEW r \in Replicas, Rebuild(r) PROVE transitions \subseteq transitions'
  BY <1>1 DEF Rebuild, TypeInv, TypeOK, TablesOK
<1>2. ASSUME NEW w \in Writers, Transition(w) PROVE transitions \subseteq transitions'
  BY <1>2 DEF Transition, TransitionLoad, TransitionAppend, TransitionExec, TransitionCommit,
     TransitionAnswer, TransitionAbort, ApplyTx, readModel
<1>3. ASSUME NEW r \in Replicas, BootStep(r), ~Rebuild(r) PROVE transitions \subseteq transitions'
  BY <1>3 DEF BootStep, Restart, CatchUpBegin, CatchUpApply, CatchUpCheckpoint, CatchUpFinish,
     ReconcileBegin, ReconcileExec, ReconcileCommit, ReconcileAdvance, Serve, ApplyTx, readModel
<1>4. ASSUME TailStep PROVE transitions \subseteq transitions'
  BY <1>4 DEF TailStep, TailStart, TailApply, TailAdvance, TailAcknowledge, ApplyTx, readModel
<1>5. ASSUME NEW row \in Rows, Perform(row) \/ DeadLetter(row) \/ Sweep(row) PROVE transitions \subseteq transitions'
  BY <1>5 DEF Perform, DeadLetter, Sweep, readModel
<1>6. ASSUME NEW r \in Replicas, Crash(r) PROVE transitions \subseteq transitions'
  BY <1>6 DEF Crash, readModel
<1>7. ASSUME UNCHANGED vars PROVE transitions \subseteq transitions'
  BY <1>7 DEF vars
<1> QED
  BY <1>1, <1>2, <1>3, <1>4, <1>5, <1>6, <1>7 DEF Next

\* Every step keeps the watermarks behind the applied events.
LEMMA WatermarkNext == TypeInv /\ WatermarkInv /\ [Next]_vars => WatermarkInv'
<1> SUFFICES ASSUME TypeInv, WatermarkInv, [Next]_vars PROVE WatermarkInv'
  OBVIOUS
<1>0. transitions \subseteq transitions'
  BY TransitionsGrow
<1> USE SpineAssumption, <1>0 DEF TypeInv, TypeOK, WatermarkInv
<1>1. CASE UNCHANGED <<projCkpt, tailAck, boot, tail>>
  BY <1>1 DEF CheckpointSound, CatchUpApplied, TailApplied
<1>2. ASSUME NEW r \in Replicas, CatchUpBegin(r) PROVE WatermarkInv'
  BY <1>2 DEF CatchUpBegin, readModel, CheckpointSound, CatchUpApplied, TailApplied, BootOK, MarksOK
<1>3. ASSUME NEW r \in Replicas, CatchUpApply(r) PROVE WatermarkInv'
  <2>1. CheckpointSound' /\ TailApplied'
    BY <1>3 DEF CatchUpApply, CheckpointSound, TailApplied
  <2>2. CatchUpApplied'
    <3> SUFFICES ASSUME NEW q \in Replicas, boot'[q].pc = "catchup"
                 PROVE  1..(boot'[q].pos - 1) \subseteq transitions'
      BY DEF CatchUpApplied
    <3>1. CASE q = r
      BY <1>3, <3>1 DEF CatchUpApply, ApplyTx, CatchUpApplied, BootOK, BootWithinLog
    <3>2. CASE q # r
      BY <1>3, <3>2 DEF CatchUpApply, CatchUpApplied, BootOK
    <3> QED
      BY <3>1, <3>2
  <2> QED
    BY <2>1, <2>2
<1>4. ASSUME NEW r \in Replicas, CatchUpCheckpoint(r) PROVE WatermarkInv'
  BY <1>4 DEF CatchUpCheckpoint, Greatest, readModel, CheckpointSound, CatchUpApplied,
     TailApplied, BootOK, MarksOK
<1>5. ASSUME NEW r \in Replicas, CatchUpFinish(r) PROVE WatermarkInv'
  <2>1. CheckpointSound'
    BY SMTT(30), <1>5 DEF CatchUpFinish, Greatest, readModel, CheckpointSound, CatchUpApplied, BootOK, MarksOK
  <2>2. CatchUpApplied' /\ TailApplied'
    BY <1>5 DEF CatchUpFinish, Down, readModel, CatchUpApplied, TailApplied, BootOK
  <2> QED
    BY <2>1, <2>2
<1>6. ASSUME NEW r \in Replicas, Rebuild(r) PROVE WatermarkInv'
  BY <1>6 DEF Rebuild, CheckpointSound, CatchUpApplied, TailApplied, BootOK, MarksOK, LogOK
<1>7. ASSUME NEW r \in Replicas,
             Restart(r) \/ ReconcileBegin(r) \/ ReconcileExec(r) \/ ReconcileCommit(r)
               \/ ReconcileAdvance(r) \/ Serve(r) \/ Crash(r)
      PROVE  WatermarkInv'
  <2>1. CheckpointSound'
    BY <1>7 DEF Restart, ReconcileBegin, ReconcileExec, ReconcileCommit, ReconcileAdvance,
       Serve, Crash, CheckpointSound
  <2>2. CatchUpApplied'
    <3>1. boot'[r].pc # "catchup"
      <4>1. CASE ReconcileExec(r)
        BY <4>1 DEF ReconcileExec, BootOK
      <4>2. CASE Restart(r) \/ ReconcileBegin(r) \/ ReconcileCommit(r) \/ ReconcileAdvance(r)
        BY <4>2 DEF Restart, ReconcileBegin, ReconcileCommit, ReconcileAdvance, BootOK
      <4>3. CASE Serve(r) \/ Crash(r)
        BY <4>3 DEF Serve, Crash, Down, BootOK
      <4> QED
        BY <1>7, <4>1, <4>2, <4>3
    <3>2. \A q \in Replicas \ {r} : boot'[q] = boot[q]
      BY <1>7 DEF Restart, ReconcileBegin, ReconcileExec, ReconcileCommit, ReconcileAdvance,
         Serve, Crash, BootOK
    <3> QED
      BY <3>1, <3>2 DEF CatchUpApplied
  <2>3. TailApplied'
    BY <1>7 DEF Restart, ReconcileBegin, ReconcileExec, ReconcileCommit, ReconcileAdvance,
       Serve, Crash, TailOff, TailApplied
  <2> QED
    BY <2>1, <2>2, <2>3
<1>8. ASSUME TailStep PROVE WatermarkInv'
  <2>1. ASSUME NEW r \in Replicas, TailStart(r) PROVE WatermarkInv'
    BY <2>1 DEF TailStart, CheckpointSound, CatchUpApplied, TailApplied
  <2>2. ASSUME TailApply PROVE WatermarkInv'
    BY <2>2 DEF TailApply, ApplyTx, CheckpointSound, CatchUpApplied, TailApplied
  <2>3. ASSUME TailAdvance PROVE WatermarkInv'
    BY <2>3 DEF TailAdvance, Greatest, CheckpointSound, CatchUpApplied, TailApplied, TailOK, MarksOK
  <2>4. ASSUME TailAcknowledge PROVE WatermarkInv'
    BY <2>4 DEF TailAcknowledge, CheckpointSound, CatchUpApplied, TailApplied, TailOK, MarksOK
  <2> QED
    BY <1>8, <2>1, <2>2, <2>3, <2>4 DEF TailStep
<1>9. ASSUME NEW w \in Writers, Transition(w) PROVE UNCHANGED <<projCkpt, tailAck, boot, tail>>
  BY <1>9 DEF Transition, TransitionLoad, TransitionAppend, TransitionExec, TransitionCommit,
     TransitionAnswer, TransitionAbort
<1>10. ASSUME NEW row \in Rows, Perform(row) \/ DeadLetter(row) \/ Sweep(row)
       PROVE  UNCHANGED <<projCkpt, tailAck, boot, tail>>
  BY <1>10 DEF Perform, DeadLetter, Sweep
<1> QED
  BY <1>1, <1>2, <1>3, <1>4, <1>5, <1>6, <1>7, <1>8, <1>9, <1>10 DEF Next, BootStep, vars

\* A watermark never covers an event the read model has not applied, for any
\* number of replicas, boot catch-ups, rebuilds, tail restarts and crashes: a
\* restart that resumes after projection_checkpoint or after the tail's durable
\* cursor skips nothing.
THEOREM WatermarksAreSound == Spec => []CheckpointSound
<1>1. Init => WatermarkInv
  BY DEF Init, WatermarkInv, CheckpointSound, CatchUpApplied, TailApplied, Down, TailOff
<1>2. Spec => [](TypeInv /\ WatermarkInv)
  BY <1>1, TypeInit, TypeNext, WatermarkNext, PTL DEF Spec
<1> QED
  BY <1>2, PTL DEF WatermarkInv

-----------------------------------------------------------------------------
(* Reconciliation *)

\* A row in the outbox marked delivered stands for a call that was made, so the
\* GC forgets a row and never an effect.
DeliveredPerformed == \A row \in Rows : delivered[row] > 0 => performed[row] > 0

\* The reconciler's position: everything before it is recorded, and the event at
\* hand is recorded unless its insert is still to be committed.
ReconcilerRecorded ==
    \A r \in Replicas :
        /\ boot[r].pc \in {"reconcile", "retx", "readvance"} =>
             \A s \in 1..(boot[r].pos - 1) : HasEffect(s) => EffectRecorded(KeyOf(s))
        /\ boot[r].pc = "retx" /\ ~boot[r].insert => EffectRecorded(KeyOf(boot[r].pos))
        /\ boot[r].pc = "readvance" /\ HasEffect(boot[r].pos) => EffectRecorded(KeyOf(boot[r].pos))

ReconcileInv == ReconciledEffectsRecorded /\ DeliveredPerformed /\ ReconcilerRecorded

\* Only log.Append of a request changes the log.
LEMMA LogStep == [Next]_vars => log' = log \/ \E w \in Writers : TransitionAppend(w)
<1> SUFFICES ASSUME [Next]_vars PROVE log' = log \/ \E w \in Writers : TransitionAppend(w)
  OBVIOUS
<1>1. ASSUME NEW w \in Writers, Transition(w), ~TransitionAppend(w) PROVE log' = log
  BY <1>1 DEF Transition, TransitionLoad, TransitionExec, TransitionCommit, TransitionAnswer,
     TransitionAbort
<1>2. ASSUME NEW r \in Replicas, BootStep(r) \/ Crash(r) PROVE log' = log
  BY <1>2 DEF BootStep, Restart, CatchUpBegin, CatchUpApply, CatchUpCheckpoint, CatchUpFinish,
     Rebuild, ReconcileBegin, ReconcileExec, ReconcileCommit, ReconcileAdvance, Serve, Crash
<1>3. ASSUME TailStep PROVE log' = log
  BY <1>3 DEF TailStep, TailStart, TailApply, TailAdvance, TailAcknowledge
<1>4. ASSUME NEW row \in Rows, Perform(row) \/ DeadLetter(row) \/ Sweep(row) PROVE log' = log
  BY <1>4 DEF Perform, DeadLetter, Sweep
<1>5. ASSUME UNCHANGED vars PROVE log' = log
  BY <1>5 DEF vars
<1> QED
  BY <1>1, <1>2, <1>3, <1>4, <1>5 DEF Next

\* What an append does to the log.
LEMMA Appended ==
    ASSUME TypeInv, NEW w \in Writers, TransitionAppend(w)
    PROVE  /\ writer[w].ev \in Event /\ Len(log) \in Nat /\ Len(log') = Len(log) + 1
           /\ log'[Len(log) + 1] = writer[w].ev /\ \A s \in 1..Len(log) : log'[s] = log[s]
<1>1. writer[w].ev \in Event
  BY BusyWriter DEF TransitionAppend, Request, TypeInv
<1> QED
  BY <1>1 DEF TransitionAppend, TypeInv, TypeOK, LogOK

\* The log is append-only: an event, its effect and its key never change.
LEMMA LogStable ==
    ASSUME TypeInv, [Next]_vars, NEW s \in 1..Len(log)
    PROVE  s \in 1..Len(log') /\ log'[s] = log[s]
<1>1. ASSUME NEW w \in Writers, TransitionAppend(w) PROVE s \in 1..Len(log') /\ log'[s] = log[s]
  BY <1>1, Appended
<1> QED
  BY <1>1, LogStep

\* Insert only adds to the outbox.
LEMMA InsertGrows ==
    ASSUME OutboxOK, NEW yes, NEW k \in EffectKeys, NEW p \in Payloads, Insert(yes, k, p),
           UNCHANGED <<delivered, dead, performed>>
    PROVE  /\ \A row \in Rows : pending'[row] >= pending[row]
           /\ yes => pending'[<<k, p>>] > 0
<1>1. <<k, p>> \in Rows
  BY DEF Rows
<1> QED
  BY <1>1 DEF OutboxOK, Insert

\* Only the two enqueues, the dispatcher and the GC touch the outbox.
LEMMA OutboxSteps ==
    ASSUME [Next]_vars
    PROVE  \/ UNCHANGED outbox
           \/ \E w \in Writers : TransitionCommit(w)
           \/ \E r \in Replicas : ReconcileCommit(r)
           \/ \E row \in Rows : Perform(row) \/ DeadLetter(row) \/ Sweep(row)
<1>1. ASSUME NEW w \in Writers, Transition(w), ~TransitionCommit(w) PROVE UNCHANGED outbox
  BY <1>1 DEF Transition, TransitionLoad, TransitionAppend, TransitionExec, TransitionAnswer,
     TransitionAbort
<1>2. ASSUME NEW r \in Replicas, BootStep(r) \/ Crash(r), ~ReconcileCommit(r) PROVE UNCHANGED outbox
  BY <1>2 DEF BootStep, Restart, CatchUpBegin, CatchUpApply, CatchUpCheckpoint, CatchUpFinish,
     Rebuild, ReconcileBegin, ReconcileExec, ReconcileAdvance, Serve, Crash
<1>3. ASSUME TailStep PROVE UNCHANGED outbox
  BY <1>3 DEF TailStep, TailStart, TailApply, TailAdvance, TailAcknowledge
<1>4. ASSUME UNCHANGED vars PROVE UNCHANGED outbox
  BY <1>4 DEF vars, outbox
<1> QED
  BY <1>1, <1>2, <1>3, <1>4 DEF Next

\* What the outbox does to a row in one step: a call made stays made, and a row
\* that leaves the outbox stands for a call that was made.
LEMMA RowsStay ==
    ASSUME TypeInv, DeliveredPerformed, [Next]_vars, NEW row \in Rows
    PROVE  /\ performed[row] > 0 => performed'[row] > 0
           /\ Kept(row) > 0 =>
                Kept(row)' > 0 \/ performed'[row] > 0
           /\ delivered'[row] > 0 => performed'[row] > 0
<1> DEFINE Goal == /\ performed[row] > 0 => performed'[row] > 0
                   /\ Kept(row) > 0 =>
                        Kept(row)' > 0 \/ performed'[row] > 0
                   /\ delivered'[row] > 0 => performed'[row] > 0
<1> USE DEF TypeInv, TypeOK, OutboxOK, DeliveredPerformed, outbox, Kept
<1>1. CASE UNCHANGED outbox
  BY <1>1
<1>2. ASSUME NEW w \in Writers, TransitionCommit(w) PROVE Goal
  <2>1. writer[w] \in Request /\ writer[w].seq \in 1..MaxLog
    BY <1>2, BusyWriter, SpineAssumption DEF TransitionCommit, Request, WriterInLog, LogOK
  <2>2. EffectKey(writer[w].seq, writer[w].ev.key) \in EffectKeys /\ writer[w].payload \in Payloads
    BY <2>1, EffectKeyType DEF Request, Event
  <2>3. pending'[row] >= pending[row] /\ UNCHANGED <<delivered, dead, performed>> /\ pending'[row] \in Nat
    BY SMTT(30), <1>2, <2>2 DEF TransitionCommit, Insert, Rows
  <2> QED
    BY <2>3
<1>3. ASSUME NEW r \in Replicas, ReconcileCommit(r) PROVE Goal
  <2>1. pending'[row] >= pending[row] /\ UNCHANGED <<delivered, dead, performed>> /\ pending'[row] \in Nat
    BY <1>3 DEF ReconcileCommit, Insert
  <2> QED
    BY <2>1
<1>4. ASSUME NEW x \in Rows, Perform(x) PROVE Goal
  BY <1>4 DEF Perform
<1>6. ASSUME NEW x \in Rows, DeadLetter(x) PROVE Goal
  BY <1>6 DEF DeadLetter
<1>5. ASSUME NEW x \in Rows, Sweep(x) PROVE Goal
  BY <1>5 DEF Sweep
<1> QED
  BY <1>1, <1>2, <1>3, <1>4, <1>5, <1>6, OutboxSteps

\* A recorded effect stays recorded.
LEMMA RecordedStays ==
    ASSUME TypeInv, DeliveredPerformed, [Next]_vars, NEW k \in EffectKeys, EffectRecorded(k)
    PROVE  EffectRecorded(k)'
<1>1. \A p \in Payloads : <<k, p>> \in Rows
  BY DEF Rows
<1>2. CASE RowExists(k)
  <2>1. PICK p \in Payloads : Kept(<<k, p>>) > 0
    BY <1>2 DEF RowExists, Kept
  <2>2. Kept(<<k, p>>)' > 0 \/ performed'[<<k, p>>] > 0
    BY <1>1, <2>1, RowsStay
  <2> QED
    BY <2>2 DEF EffectRecorded, RowExists, Kept, Performed
<1>3. CASE Performed(k)
  <2>1. PICK p \in Payloads : performed[<<k, p>>] > 0
    BY <1>3 DEF Performed
  <2>2. performed'[<<k, p>>] > 0
    BY <1>1, <2>1, RowsStay
  <2> QED
    BY <2>2 DEF EffectRecorded, Performed
<1> QED
  BY <1>2, <1>3 DEF EffectRecorded

\* The effect of a logged event stays recorded, and stays an effect.
LEMMA EventRecordedStays ==
    ASSUME TypeInv, DeliveredPerformed, [Next]_vars, NEW s \in 1..Len(log)
    PROVE  /\ HasEffect(s)' <=> HasEffect(s)
           /\ EffectRecorded(KeyOf(s)) => (EffectRecorded(KeyOf(s)))'
<1>1. KeyOf(s) \in EffectKeys
  <2>1. s \in 1..MaxLog /\ log[s] \in Event
    BY SpineAssumption DEF TypeInv, TypeOK, LogOK
  <2>2. log[s].key \in Keys \cup {NoKey}
    BY <2>1 DEF Event
  <2> QED
    BY <2>1, <2>2, EffectKeyType DEF KeyOf
<1>2. log'[s] = log[s]
  BY LogStable
<1>3. HasEffect(s)' <=> HasEffect(s)
  BY <1>2 DEF HasEffect
<1>4. KeyOf(s)' = KeyOf(s)
  BY <1>2 DEF KeyOf
<1>5. ASSUME EffectRecorded(KeyOf(s)) PROVE EffectRecorded(KeyOf(s))'
  <2>1. PICK k \in EffectKeys : k = KeyOf(s)
    BY <1>1
  <2>2. EffectRecorded(k)'
    BY <1>5, <2>1, RecordedStays
  <2>3. k = KeyOf(s)'
    BY <1>4, <2>1
  <2> QED
    BY <2>2, <2>3 DEF EffectRecorded, RowExists, Kept, Performed
<1> QED
  BY <1>3, <1>5

\* Every step keeps what the reconciler has passed recorded.
LEMMA ReconcileNext == TypeInv /\ ReconcileInv /\ [Next]_vars => ReconcileInv'
<1> SUFFICES ASSUME TypeInv, ReconcileInv, [Next]_vars PROVE ReconcileInv'
  OBVIOUS
<1>1. DeliveredPerformed'
  BY RowsStay DEF ReconcileInv, DeliveredPerformed
<1>2. \A s \in 1..Len(log) : /\ HasEffect(s)' <=> HasEffect(s)
                             /\ EffectRecorded(KeyOf(s)) => (EffectRecorded(KeyOf(s)))'
  BY EventRecordedStays DEF ReconcileInv
<1> USE SpineAssumption, <1>2 DEF TypeInv, TypeOK, ReconcileInv, BootOK, MarksOK, LogOK
<1>3. ReconciledEffectsRecorded'
  <2>1. CASE reconCkpt' = reconCkpt
    BY <2>1 DEF ReconciledEffectsRecorded
  <2>2. ASSUME NEW r \in Replicas, ReconcileAdvance(r) PROVE ReconciledEffectsRecorded'
    <3>1. boot[r].pos \in 1..Len(log) /\ \A s \in 1..boot[r].pos : HasEffect(s) => EffectRecorded(KeyOf(s))
      BY SMTT(30), <2>2 DEF ReconcileAdvance, ReconcilerRecorded, BootWithinLog
    <3>2. \A s \in 1..reconCkpt' : s \in 1..Len(log) /\ (HasEffect(s) => EffectRecorded(KeyOf(s)))
      BY <2>2, <3>1 DEF ReconcileAdvance, Greatest, ReconciledEffectsRecorded
    <3> QED
      BY <3>2 DEF ReconciledEffectsRecorded
  <2>3. ASSUME NEW w \in Writers, Transition(w) PROVE reconCkpt' = reconCkpt
    BY <2>3 DEF Transition, TransitionLoad, TransitionAppend, TransitionExec, TransitionCommit,
       TransitionAnswer, TransitionAbort
  <2>4. ASSUME NEW r \in Replicas, BootStep(r) \/ Crash(r), ~ReconcileAdvance(r)
        PROVE  reconCkpt' = reconCkpt
    BY <2>4 DEF BootStep, Restart, CatchUpBegin, CatchUpApply, CatchUpCheckpoint, CatchUpFinish,
       Rebuild, ReconcileBegin, ReconcileExec, ReconcileCommit, Serve, Crash
  <2>5. ASSUME TailStep PROVE reconCkpt' = reconCkpt
    BY <2>5 DEF TailStep, TailStart, TailApply, TailAdvance, TailAcknowledge
  <2>6. ASSUME NEW row \in Rows, Perform(row) \/ DeadLetter(row) \/ Sweep(row) PROVE reconCkpt' = reconCkpt
    BY <2>6 DEF Perform, DeadLetter, Sweep
  <2> QED
    BY <2>1, <2>2, <2>3, <2>4, <2>5, <2>6 DEF Next, vars
<1>4. ReconcilerRecorded'
  <2> DEFINE Before(r)   == boot[r].pc \in {"reconcile", "retx", "readvance"} =>
                              \A s \in 1..(boot[r].pos - 1) : HasEffect(s) => EffectRecorded(KeyOf(s))
             AtHand(r)   == boot[r].pc = "retx" /\ ~boot[r].insert => EffectRecorded(KeyOf(boot[r].pos))
             Finished(r) == boot[r].pc = "readvance" /\ HasEffect(boot[r].pos)
                              => EffectRecorded(KeyOf(boot[r].pos))
  <2>1. ASSUME NEW q \in Replicas, boot'[q] = boot[q] PROVE (Before(q) /\ AtHand(q) /\ Finished(q))'
    <3>1. CASE boot[q].pc \in {"reconcile", "retx", "readvance"}
      <4>1. boot[q].pos - 1 <= Len(log) /\ boot[q].pos >= 1
            /\ (boot[q].pc \in {"retx", "readvance"} => boot[q].pos \in 1..Len(log))
        BY <3>1 DEF BootWithinLog
      <4>2. Before(q)'
        BY <2>1, <3>1, <4>1 DEF ReconcilerRecorded
      <4>3. AtHand(q)' /\ Finished(q)'
        BY <2>1, <3>1, <4>1 DEF ReconcilerRecorded
      <4> QED
        BY <4>2, <4>3
    <3>2. CASE boot[q].pc \notin {"reconcile", "retx", "readvance"}
      BY <2>1, <3>2
    <3> QED
      BY <3>1, <3>2
  <2>2. ASSUME NEW q \in Replicas, boot'[q].pc \notin {"reconcile", "retx", "readvance"}
        PROVE  (Before(q) /\ AtHand(q) /\ Finished(q))'
    BY <2>2
  <2>3. ASSUME NEW r \in Replicas, ReconcileBegin(r) PROVE (Before(r) /\ AtHand(r) /\ Finished(r))'
    <3>1. boot'[r].pc = "reconcile" /\ boot'[r].pos = reconCkpt + 1
      BY <2>3 DEF ReconcileBegin
    <3>2. \A s \in 1..reconCkpt : s \in 1..Len(log) /\ (HasEffect(s) => EffectRecorded(KeyOf(s)))
      BY DEF ReconciledEffectsRecorded
    <3> QED
      BY <3>1, <3>2
  <2>4. ASSUME NEW r \in Replicas, ReconcileExec(r) PROVE (Before(r) /\ AtHand(r) /\ Finished(r))'
    <3>1. /\ boot'[r].pos = boot[r].pos /\ boot[r].pos \in 1..Len(log) /\ log' = log
          /\ UNCHANGED outbox
      BY <2>4 DEF ReconcileExec, BootWithinLog
    <3>2. \A s \in 1..(boot[r].pos - 1) : HasEffect(s) => EffectRecorded(KeyOf(s))
      BY <2>4 DEF ReconcileExec, ReconcilerRecorded
    <3>3. Before(r)'
      BY SMTT(30), <3>1, <3>2
    <3>4. CASE HasEffect(boot[r].pos)
      <4>1. boot'[r].pc = "retx" /\ (boot'[r].insert <=> ~RowExists(KeyOf(boot[r].pos)))
        BY <2>4, <3>4 DEF ReconcileExec, RowExists, Kept
      <4>2. AtHand(r)'
        BY <3>1, <4>1 DEF EffectRecorded
      <4>3. Finished(r)'
        BY <4>1
      <4> QED
        BY <3>3, <4>2, <4>3
    <3>5. CASE ~HasEffect(boot[r].pos)
      <4>1. boot'[r].pc = "readvance"
        BY <2>4, <3>5 DEF ReconcileExec
      <4> QED
        BY <3>1, <3>3, <3>5, <4>1
    <3> QED
      BY <3>4, <3>5
  <2>5. ASSUME NEW r \in Replicas, ReconcileCommit(r) PROVE (Before(r) /\ AtHand(r) /\ Finished(r))'
    <3>1. /\ boot'[r].pos = boot[r].pos /\ boot'[r].pc = "readvance"
          /\ boot[r].pos \in 1..Len(log) /\ log' = log
      BY <2>5 DEF ReconcileCommit, BootWithinLog
    <3>2. \A s \in 1..(boot[r].pos - 1) : HasEffect(s) => EffectRecorded(KeyOf(s))
      BY <2>5 DEF ReconcileCommit, ReconcilerRecorded
    <3>3. Before(r)' /\ AtHand(r)'
      BY SMTT(30), <3>1, <3>2
    <3>4. CASE boot[r].insert
      <4>1. KeyOf(boot[r].pos) \in EffectKeys /\ KeyOf(boot[r].pos)' = KeyOf(boot[r].pos)
        <5>1. boot[r].pos \in 1..MaxLog /\ log[boot[r].pos] \in Event
          BY <3>1
        <5>2. log[boot[r].pos].key \in Keys \cup {NoKey}
          BY <5>1 DEF Event
        <5>3. KeyOf(boot[r].pos)' = KeyOf(boot[r].pos)
          BY <3>1 DEF KeyOf
        <5> QED
          BY <5>1, <5>2, <5>3, EffectKeyType DEF KeyOf
      <4>2. pending'[<<KeyOf(boot[r].pos), "event">>] > 0 /\ UNCHANGED <<delivered, dead>>
        BY <2>5, <3>4, <4>1, InsertGrows DEF ReconcileCommit, Payloads
      <4>3. /\ delivered[<<KeyOf(boot[r].pos), "event">>] \in Nat
            /\ dead[<<KeyOf(boot[r].pos), "event">>] \in Nat
            /\ pending'[<<KeyOf(boot[r].pos), "event">>] \in Nat
        BY <4>1, TypeNext DEF OutboxOK, Rows, Payloads
      <4>4. RowExists(KeyOf(boot[r].pos))'
        BY <3>1, <4>1, <4>2, <4>3 DEF RowExists, Kept, Payloads
      <4> QED
        BY <3>1, <3>3, <4>4 DEF EffectRecorded
    <3>5. CASE ~boot[r].insert
      <4>1. EffectRecorded(KeyOf(boot[r].pos))
        BY <2>5, <3>5 DEF ReconcileCommit, ReconcilerRecorded
      <4> QED
        BY <3>1, <3>3, <4>1
    <3> QED
      BY <3>4, <3>5
  <2>6. ASSUME NEW r \in Replicas, ReconcileAdvance(r) PROVE (Before(r) /\ AtHand(r) /\ Finished(r))'
    <3>1. boot'[r].pos = boot[r].pos + 1 /\ boot'[r].pc = "reconcile" /\ boot[r].pos \in 1..Len(log)
      BY <2>6 DEF ReconcileAdvance, BootWithinLog
    <3>2. \A s \in 1..boot[r].pos : HasEffect(s) => EffectRecorded(KeyOf(s))
      BY SMTT(30), <2>6, <3>1 DEF ReconcileAdvance, ReconcilerRecorded
    <3> QED
      BY <3>1, <3>2
  <2>7. ASSUME NEW r \in Replicas, BootStep(r) \/ Crash(r)
        PROVE  \A q \in Replicas \ {r} : boot'[q] = boot[q]
    BY <2>7 DEF BootStep, Restart, CatchUpBegin, CatchUpApply, CatchUpCheckpoint, CatchUpFinish,
       Rebuild, ReconcileBegin, ReconcileExec, ReconcileCommit, ReconcileAdvance, Serve, Crash
  <2>8. ASSUME NEW r \in Replicas,
               Restart(r) \/ CatchUpBegin(r) \/ CatchUpApply(r) \/ CatchUpCheckpoint(r)
                 \/ CatchUpFinish(r) \/ Rebuild(r) \/ Serve(r) \/ Crash(r)
        PROVE  boot'[r].pc \notin {"reconcile", "retx", "readvance"}
    <3>1. CASE CatchUpFinish(r) \/ Serve(r) \/ Crash(r)
      BY <3>1 DEF CatchUpFinish, Serve, Crash, Down
    <3>2. CASE Restart(r) \/ CatchUpBegin(r) \/ Rebuild(r)
      BY SMTT(30), <3>2 DEF Restart, CatchUpBegin, Rebuild
    <3>3. CASE CatchUpApply(r) \/ CatchUpCheckpoint(r)
      <4>1. boot[r].pc = "catchup" /\ boot'[r].pc = boot[r].pc
        BY <3>3, Zenon DEF CatchUpApply, CatchUpCheckpoint
      <4> QED
        BY <4>1
    <3> QED
      BY <2>8, <3>1, <3>2, <3>3
  <2>9. ASSUME NEW r \in Replicas, BootStep(r) \/ Crash(r) PROVE ReconcilerRecorded'
    <3>1. (Before(r) /\ AtHand(r) /\ Finished(r))'
      <4>1. CASE ReconcileBegin(r) \/ ReconcileExec(r) \/ ReconcileCommit(r) \/ ReconcileAdvance(r)
        BY <2>3, <2>4, <2>5, <2>6, <4>1
      <4>2. CASE \/ Restart(r) \/ CatchUpBegin(r) \/ CatchUpApply(r) \/ CatchUpCheckpoint(r)
                 \/ CatchUpFinish(r) \/ Rebuild(r) \/ Serve(r) \/ Crash(r)
        BY <2>2, <2>8, <4>2
      <4> QED
        BY <2>9, <4>1, <4>2 DEF BootStep
    <3>2. \A q \in Replicas \ {r} : (Before(q) /\ AtHand(q) /\ Finished(q))'
      BY <2>1, <2>7, <2>9
    <3> QED
      BY <3>1, <3>2 DEF ReconcilerRecorded
  <2>10. ASSUME boot' = boot PROVE ReconcilerRecorded'
    BY <2>1, <2>10 DEF ReconcilerRecorded
  <2>11. ASSUME NEW w \in Writers, Transition(w) PROVE boot' = boot
    BY <2>11 DEF Transition, TransitionLoad, TransitionAppend, TransitionExec, TransitionCommit,
       TransitionAnswer, TransitionAbort
  <2>12. ASSUME TailStep PROVE boot' = boot
    BY <2>12 DEF TailStep, TailStart, TailApply, TailAdvance, TailAcknowledge
  <2>13. ASSUME NEW row \in Rows, Perform(row) \/ DeadLetter(row) \/ Sweep(row) PROVE boot' = boot
    BY <2>13 DEF Perform, DeadLetter, Sweep
  <2> QED
    BY <2>9, <2>10, <2>11, <2>12, <2>13 DEF Next, vars
<1> QED
  BY <1>1, <1>3, <1>4

\* ReconcileOutbox closes the append-then-project crash window: once its
\* checkpoint has passed an event with a side effect, the effect is a row of the
\* outbox or has been performed - for any number of replicas reconciling at once,
\* with request threads, the dispatcher and the outbox GC running, and with a
\* crash between any two of their steps.
THEOREM ReconciliationIsComplete == Spec => []ReconciledEffectsRecorded
<1>1. Init => ReconcileInv
  BY DEF Init, ReconcileInv, ReconciledEffectsRecorded, DeliveredPerformed, ReconcilerRecorded, Down
<1>2. Spec => [](TypeInv /\ ReconcileInv)
  BY <1>1, TypeInit, TypeNext, ReconcileNext, PTL DEF Spec
<1> QED
  BY <1>2, PTL DEF ReconcileInv

-----------------------------------------------------------------------------
(* Answers *)

\* Every event of the log, and every request under way, is an edge of the table.
EdgesOnly ==
    /\ \A s \in 1..Len(log) : CanTransition(log[s].from, log[s].to)
    /\ \A w \in Writers : writer[w].pc # "idle" => CanTransition(writer[w].ev.from, writer[w].ev.to)

\* The events of one client key have one target, a retry that is under way included.
KeysAgree ==
    /\ \A s, t \in 1..Len(log) : log[s].key # NoKey /\ log[t].key = log[s].key => log[t].to = log[s].to
    /\ \A w \in Writers, s \in 1..Len(log) :
         writer[w].pc # "idle" /\ writer[w].ev.key # NoKey /\ log[s].key = writer[w].ev.key
         => log[s].to = writer[w].ev.to

\* Do's claim: a key under way is not completed and belongs to one request.
ClaimsExclude ==
    \A w \in Writers : writer[w].pc # "idle" =>
        /\ writer[w].ev.key \notin completed
        /\ \A v \in Writers : v # w /\ writer[v].pc # "idle" /\ writer[w].ev.key # NoKey
                              => writer[v].ev.key # writer[w].ev.key

\* The effect of a request is recorded once its transaction has committed, and
\* before that when the transaction found its row.
WriterRecorded ==
    \A w \in Writers :
        /\ writer[w].pc = "committed" \/ (writer[w].pc = "tx" /\ ~writer[w].insert)
        /\ HasSideEffect(writer[w].ev.from, writer[w].ev.to)
        => EffectRecorded(EffectKey(writer[w].seq, writer[w].ev.key))

AnswerInv == EdgesOnly /\ KeysAgree /\ ClaimsExclude /\ WriterRecorded /\ AnsweredHasEffect

\* On an edge of the table, the target alone tells whether there is an effect.
LEMMA EdgeEffect ==
    ASSUME NEW from, NEW to, CanTransition(from, to)
    PROVE  HasSideEffect(from, to) <=> to # "retired"
BY DEF CanTransition, HasSideEffect, sideEffects, Edges

\* A step that leaves log and claims alone and only ends requests: every step but
\* the five of a request that goes well.
Quiet == /\ UNCHANGED <<log, completed>>
         /\ \A w \in Writers : writer'[w] = writer[w] \/ writer'[w] = Idle

\* A request moves in its own five steps; whatever else happens may only end it.
LEMMA RequestSteps ==
    ASSUME TypeOK, [Next]_vars
    PROVE  \/ Quiet
           \/ \E w \in Writers :
                \/ \E r \in Replicas, i \in Identities, to \in States, key \in Keys \cup {NoKey} :
                      TransitionLoad(w, r, i, to, key)
                \/ TransitionAppend(w) \/ TransitionExec(w)
                \/ TransitionCommit(w) \/ TransitionAnswer(w)
<1> USE DEF TypeOK, WriterOK
<1>1. ASSUME NEW w \in Writers, TransitionAbort(w) PROVE Quiet
  BY <1>1 DEF TransitionAbort, Quiet
<1>2. ASSUME NEW r \in Replicas, BootStep(r) PROVE Quiet
  BY <1>2 DEF BootStep, Restart, CatchUpBegin, CatchUpApply, CatchUpCheckpoint, CatchUpFinish,
     Rebuild, ReconcileBegin, ReconcileExec, ReconcileCommit, ReconcileAdvance, Serve, Quiet
<1>3. ASSUME NEW r \in Replicas, Crash(r) PROVE Quiet
  BY <1>3 DEF Crash, Quiet
<1>4. ASSUME TailStep PROVE Quiet
  BY <1>4 DEF TailStep, TailStart, TailApply, TailAdvance, TailAcknowledge, Quiet
<1>5. ASSUME NEW row \in Rows, Perform(row) \/ DeadLetter(row) \/ Sweep(row) PROVE Quiet
  BY <1>5 DEF Perform, DeadLetter, Sweep, Quiet
<1>6. ASSUME UNCHANGED vars PROVE Quiet
  BY <1>6 DEF vars, Quiet
<1> QED
  BY <1>1, <1>2, <1>3, <1>4, <1>5, <1>6 DEF Next, Transition

\* The effect key of a request past its append is the key of its event.
LEMMA WriterKey ==
    ASSUME TypeInv, NEW w \in Writers, writer[w].pc \in {"appended", "tx", "committed"}
    PROVE  /\ writer[w].seq \in 1..Len(log) /\ writer[w].ev \in Event
           /\ writer[w].payload \in Payloads
           /\ EffectKey(writer[w].seq, writer[w].ev.key) \in EffectKeys
           /\ EffectKey(writer[w].seq, writer[w].ev.key) = KeyOf(writer[w].seq)
<1>1. writer[w] \in Request
  BY BusyWriter DEF TypeInv
<1>2. writer[w].seq \in 1..Len(log) /\ log[writer[w].seq] = writer[w].ev
  BY DEF TypeInv, WriterInLog
<1>3. writer[w].ev \in Event /\ writer[w].payload \in Payloads
  BY <1>1 DEF Request
<1>4. writer[w].seq \in 1..MaxLog /\ writer[w].ev.key \in Keys \cup {NoKey}
  BY <1>2, <1>3, SpineAssumption DEF TypeInv, TypeOK, LogOK, Event
<1> QED
  BY <1>2, <1>3, <1>4, EffectKeyType DEF KeyOf

\* The effect of a request that does not move stays recorded.
LEMMA WriterRecordedStays ==
    ASSUME TypeInv, DeliveredPerformed, WriterRecorded, [Next]_vars,
           NEW v \in Writers, writer'[v] = writer[v],
           writer[v].pc = "committed" \/ (writer[v].pc = "tx" /\ ~writer[v].insert),
           HasSideEffect(writer[v].ev.from, writer[v].ev.to)
    PROVE  EffectRecorded(EffectKey(writer[v].seq, writer[v].ev.key))'
<1>1. PICK k \in EffectKeys : k = EffectKey(writer[v].seq, writer[v].ev.key)
  BY WriterKey
<1>2. EffectRecorded(k)
  BY <1>1 DEF WriterRecorded
<1>3. EffectRecorded(k)'
  BY <1>2, RecordedStays
<1>4. k = EffectKey(writer[v].seq, writer[v].ev.key)'
  BY <1>1 DEF EffectKey
<1> QED
  BY <1>3, <1>4 DEF EffectRecorded, RowExists, Kept, Performed

\* Every step keeps answers and effects together, one case per step of a request.
LEMMA AnswerNext == TypeInv /\ ReconcileInv /\ AnswerInv /\ [Next]_vars => AnswerInv'
<1> SUFFICES ASSUME TypeInv, ReconcileInv, AnswerInv, [Next]_vars PROVE AnswerInv'
  OBVIOUS
<1>1. \A s \in 1..Len(log) : /\ s \in 1..Len(log') /\ log'[s] = log[s]
                             /\ HasEffect(s)' <=> HasEffect(s)
                             /\ EffectRecorded(KeyOf(s)) => (EffectRecorded(KeyOf(s)))'
  BY LogStable, EventRecordedStays DEF ReconcileInv
<1>2. DeliveredPerformed /\ DOMAIN log = 1..Len(log) /\ NoKey \notin completed
  BY SpineAssumption DEF ReconcileInv, TypeInv, TypeOK, LogOK, WriterOK
<1>3. Len(log') \in Nat /\ DOMAIN log' = 1..Len(log')
  BY TypeNext DEF TypeInv, TypeOK, LogOK
<1> USE DEF AnswerInv
<1>4. ASSUME log' = log, completed' = completed PROVE AnsweredHasEffect'
  BY <1>1, <1>2, <1>4 DEF AnsweredHasEffect
<1>5. ASSUME Quiet PROVE AnswerInv'
  <2>1. EdgesOnly' /\ KeysAgree' /\ ClaimsExclude'
    BY <1>5 DEF Quiet, EdgesOnly, KeysAgree, ClaimsExclude, Idle
  <2>2. WriterRecorded'
    BY <1>2, <1>5, WriterRecordedStays DEF Quiet, WriterRecorded, Idle
  <2> QED
    BY <1>4, <1>5, <2>1, <2>2 DEF Quiet
<1>6. ASSUME NEW w \in Writers, NEW r \in Replicas, NEW i \in Identities, NEW to \in States,
             NEW key \in Keys \cup {NoKey}, TransitionLoad(w, r, i, to, key)
      PROVE  AnswerInv'
  <2>1. /\ UNCHANGED <<log, completed>> /\ \A v \in Writers \ {w} : writer'[v] = writer[v]
        /\ writer'[w].pc = "loaded" /\ writer'[w].ev.from = status[i] /\ writer'[w].ev.to = to
        /\ writer'[w].ev.key = key
    BY <1>6 DEF TransitionLoad, TypeInv, TypeOK, WriterOK
  <2>2. EdgesOnly'
    BY <1>6, <2>1 DEF TransitionLoad, EdgesOnly
  <2>3. KeysAgree'
    BY <1>2, <1>6, <2>1 DEF TransitionLoad, KeysAgree
  <2>4. ClaimsExclude'
    BY <1>6, <2>1 DEF TransitionLoad, ClaimsExclude
  <2>5. WriterRecorded'
    BY <1>2, <2>1, WriterRecordedStays DEF WriterRecorded
  <2> QED
    BY <1>4, <2>1, <2>2, <2>3, <2>4, <2>5
<1>7. ASSUME NEW w \in Writers, TransitionAppend(w) PROVE AnswerInv'
  <2>1. /\ writer[w].ev \in Event /\ Len(log) \in Nat /\ Len(log') = Len(log) + 1
        /\ log'[Len(log) + 1] = writer[w].ev /\ \A s \in 1..Len(log) : log'[s] = log[s]
    BY <1>7, Appended
  <2>2. /\ completed' = completed /\ \A v \in Writers \ {w} : writer'[v] = writer[v]
        /\ writer[w].pc = "loaded" /\ writer'[w].pc = "appended" /\ writer'[w].ev = writer[w].ev
    BY <1>7, BusyWriter DEF TransitionAppend, TypeInv, TypeOK, WriterOK, Request
  <2>3. \A s \in 1..Len(log') : s \in 1..Len(log) \/ s = Len(log) + 1
    BY <2>1
  <2>4. EdgesOnly'
    BY <2>1, <2>2, <2>3 DEF EdgesOnly
  <2>5. KeysAgree'
    <3>1. ASSUME NEW s \in 1..Len(log'), NEW t \in 1..Len(log'),
                 log'[s].key # NoKey, log'[t].key = log'[s].key
          PROVE  log'[t].to = log'[s].to
      BY <2>1, <2>2, <2>3, <3>1 DEF KeysAgree
    <3>2. ASSUME NEW v \in Writers, NEW s \in 1..Len(log'), writer'[v].pc # "idle",
                 writer'[v].ev.key # NoKey, log'[s].key = writer'[v].ev.key
          PROVE  log'[s].to = writer'[v].ev.to
      BY <2>1, <2>2, <2>3, <3>2 DEF KeysAgree, ClaimsExclude
    <3> QED
      BY <3>1, <3>2 DEF KeysAgree
  <2>6. ClaimsExclude'
    BY <2>2 DEF ClaimsExclude
  <2>7. WriterRecorded'
    BY <1>2, <2>2, WriterRecordedStays DEF WriterRecorded
  <2>8. AnsweredHasEffect'
    <3> SUFFICES ASSUME NEW s \in 1..Len(log'), log'[s].key \in completed, HasEffect(s)'
                 PROVE  EffectRecorded(KeyOf(s))'
      BY <1>3, <2>2 DEF AnsweredHasEffect
    <3>1. s # Len(log) + 1
      BY <2>1, <2>2 DEF ClaimsExclude
    <3>2. s \in 1..Len(log)
      BY <2>3, <3>1
    <3>3. EffectRecorded(KeyOf(s))
      BY <1>1, <1>2, <3>2 DEF AnsweredHasEffect
    <3> QED
      BY <1>1, <3>2, <3>3
  <2> QED
    BY <2>4, <2>5, <2>6, <2>7, <2>8
<1>8. ASSUME NEW w \in Writers, TransitionExec(w) \/ TransitionCommit(w) PROVE AnswerInv'
  <2>1. /\ UNCHANGED <<log, completed>> /\ \A v \in Writers \ {w} : writer'[v] = writer[v]
        /\ writer[w].pc \in {"appended", "tx"} /\ writer'[w].pc \in {"tx", "committed"}
        /\ writer'[w].ev = writer[w].ev /\ writer'[w].seq = writer[w].seq
    BY <1>8, BusyWriter DEF TransitionExec, TransitionCommit, TypeInv, TypeOK, WriterOK, Request
  <2>2. EdgesOnly' /\ KeysAgree' /\ ClaimsExclude'
    BY <2>1 DEF EdgesOnly, KeysAgree, ClaimsExclude
  <2>3. PICK k \in EffectKeys : k = EffectKey(writer[w].seq, writer[w].ev.key)
    BY <2>1, WriterKey
  <2>4. EffectKey(writer[w].seq, writer[w].ev.key)' = k
    BY <2>1, <2>3 DEF EffectKey
  <2>5. ASSUME writer'[w].pc = "committed" \/ (writer'[w].pc = "tx" /\ ~writer'[w].insert),
               HasSideEffect(writer[w].ev.from, writer[w].ev.to)
        PROVE  EffectRecorded(k)'
    <3>1. CASE TransitionExec(w)
      <4>1. writer'[w].insert <=> HasSideEffect(writer[w].ev.from, writer[w].ev.to) /\ ~RowExists(k)
        BY <2>3, <3>1, BusyWriter DEF TransitionExec, TypeInv, TypeOK, WriterOK, Request
      <4>2. writer'[w].pc = "tx"
        BY <3>1, BusyWriter DEF TransitionExec, TypeInv, TypeOK, WriterOK, Request
      <4>3. EffectRecorded(k)
        BY <2>5, <4>1, <4>2 DEF EffectRecorded
      <4> QED
        BY <1>2, <4>3, RecordedStays
    <3>2. CASE TransitionCommit(w) /\ writer[w].insert
      <4>1. PICK p \in Payloads : p = writer[w].payload
        BY <2>1, WriterKey
      <4>2. Insert(TRUE, k, p) /\ UNCHANGED <<delivered, dead, performed>>
        BY <2>3, <3>2, <4>1 DEF TransitionCommit, Insert
      <4>3. pending'[<<k, p>>] > 0
        BY <4>2, InsertGrows DEF TypeInv, TypeOK
      <4>4. pending'[<<k, p>>] \in Nat /\ delivered'[<<k, p>>] \in Nat /\ dead'[<<k, p>>] \in Nat
        BY TypeNext DEF TypeInv, TypeOK, OutboxOK, Rows
      <4> QED
        BY <4>3, <4>4 DEF EffectRecorded, RowExists, Kept
    <3>3. CASE TransitionCommit(w) /\ ~writer[w].insert
      <4>1. EffectRecorded(k)
        BY <2>3, <2>5, <3>3 DEF TransitionCommit, WriterRecorded
      <4> QED
        BY <1>2, <4>1, RecordedStays
    <3> QED
      BY <1>8, <3>1, <3>2, <3>3
  <2>6. WriterRecorded'
    <3> SUFFICES ASSUME NEW v \in Writers,
                        writer'[v].pc = "committed" \/ (writer'[v].pc = "tx" /\ ~writer'[v].insert),
                        HasSideEffect(writer'[v].ev.from, writer'[v].ev.to)
                 PROVE  EffectRecorded(EffectKey(writer[v].seq, writer[v].ev.key))'
      BY DEF WriterRecorded
    <3>1. CASE v = w
      BY <2>1, <2>4, <2>5, <3>1 DEF EffectRecorded, RowExists, Kept, Performed
    <3>2. CASE v # w
      BY <1>2, <2>1, <3>2, WriterRecordedStays
    <3> QED
      BY <3>1, <3>2
  <2> QED
    BY <1>4, <2>1, <2>2, <2>6
<1>9. ASSUME NEW w \in Writers, TransitionAnswer(w) PROVE AnswerInv'
  <2>1. /\ log' = log /\ completed' = completed \cup ({writer[w].ev.key} \ {NoKey})
        /\ \A v \in Writers \ {w} : writer'[v] = writer[v]
        /\ writer[w].pc = "committed" /\ writer'[w] = Idle
    BY <1>9 DEF TransitionAnswer, TypeInv, TypeOK, WriterOK
  <2>2. EdgesOnly' /\ KeysAgree'
    BY <2>1 DEF EdgesOnly, KeysAgree, Idle
  <2>3. ClaimsExclude'
    BY <2>1 DEF ClaimsExclude, Idle
  <2>4. WriterRecorded'
    BY <1>2, <2>1, WriterRecordedStays DEF WriterRecorded, Idle
  <2>5. AnsweredHasEffect'
    <3> SUFFICES ASSUME NEW s \in 1..Len(log), log[s].key \in completed', HasEffect(s)'
                 PROVE  EffectRecorded(KeyOf(s))'
      BY <1>2, <2>1 DEF AnsweredHasEffect
    <3>1. CASE log[s].key \in completed
      BY <1>1, <1>2, <3>1 DEF AnsweredHasEffect
    <3>2. CASE log[s].key = writer[w].ev.key /\ log[s].key # NoKey
      <4>1. log[s].to = writer[w].ev.to
        BY <2>1, <3>2 DEF KeysAgree
      <4>2. CanTransition(log[s].from, log[s].to) /\ CanTransition(writer[w].ev.from, writer[w].ev.to)
        BY <2>1 DEF EdgesOnly
      <4>3. HasSideEffect(writer[w].ev.from, writer[w].ev.to)
        BY <1>1, <4>1, <4>2, EdgeEffect DEF HasEffect
      <4>4. EffectRecorded(EffectKey(writer[w].seq, writer[w].ev.key))
        BY <2>1, <4>3 DEF WriterRecorded
      <4>5. KeyOf(s) = EffectKey(writer[w].seq, writer[w].ev.key)
        BY <3>2 DEF KeyOf, EffectKey
      <4> QED
        BY <1>1, <4>4, <4>5
    <3> QED
      BY <2>1, <3>1, <3>2
  <2> QED
    BY <2>2, <2>3, <2>4, <2>5
<1> QED
  BY <1>5, <1>6, <1>7, <1>8, <1>9, RequestSteps DEF TypeInv

\* A client that got its answer got its effect: once Do has recorded a key as
\* completed, the effect of the transition it carried is enqueued or performed,
\* through retries of the key, aborted transactions, crashes and reconciliations.
THEOREM AnswersHaveEffects == Spec => []AnsweredHasEffect
<1>1. Init => ReconcileInv
  BY DEF Init, ReconcileInv, ReconciledEffectsRecorded, DeliveredPerformed, ReconcilerRecorded, Down
<1>2. Init => AnswerInv
  BY DEF Init, AnswerInv, EdgesOnly, KeysAgree, ClaimsExclude, WriterRecorded, AnsweredHasEffect, Idle
<1>3. Spec => [](TypeInv /\ ReconcileInv /\ AnswerInv)
  BY <1>1, <1>2, TypeInit, TypeNext, ReconcileNext, AnswerNext, PTL DEF Spec
<1> QED
  BY <1>3, PTL DEF AnswerInv

-----------------------------------------------------------------------------
(* History *)

\* The history has a last event of every identity, or none.
HistoryEnds == \A i \in Identities : \E st \in States : LatestTo(1..Len(log), i, st)

\* An append gives its identity a new last event and leaves the others theirs.
LEMMA HistoryNext == TypeInv /\ HistoryEnds /\ [Next]_vars => HistoryEnds'
<1> SUFFICES ASSUME TypeInv, HistoryEnds, [Next]_vars PROVE HistoryEnds'
  OBVIOUS
<1>1. CASE log' = log
  BY <1>1 DEF HistoryEnds, LatestTo
<1>2. ASSUME NEW w \in Writers, TransitionAppend(w) PROVE HistoryEnds'
  <2>1. /\ writer[w].ev \in Event /\ Len(log) \in Nat /\ Len(log') = Len(log) + 1
        /\ log'[Len(log) + 1] = writer[w].ev /\ \A s \in 1..Len(log) : log'[s] = log[s]
    BY <1>2, Appended
  <2> SUFFICES ASSUME NEW i \in Identities PROVE \E st \in States : LatestTo(1..Len(log), i, st)'
    BY DEF HistoryEnds
  <2>2. CASE writer[w].ev.identity = i
    <3>1. PICK st \in States : st = writer[w].ev.to
      BY <2>1 DEF Event
    <3>2. PICK n \in Nat : n = Len(log) + 1
      BY <2>1
    <3>3. /\ n \in 1..Len(log') /\ log'[n].identity = i /\ log'[n].to = st
          /\ \A t \in 1..Len(log') : ~(t > n)
      BY <2>1, <2>2, <3>1, <3>2
    <3>4. LatestTo(1..Len(log), i, st)'
      BY <3>3 DEF LatestTo
    <3> QED
      BY <3>4
  <2>3. CASE writer[w].ev.identity # i
    <3>1. PICK st \in States : LatestTo(1..Len(log), i, st)
      BY DEF HistoryEnds
    <3>2. \A s \in 1..Len(log') : (s \in 1..Len(log) /\ log'[s] = log[s]) \/ log'[s].identity # i
      BY <2>1, <2>3
    <3>3. CASE st = "requested" /\ \A s \in 1..Len(log) : log[s].identity # i
      <4>1. LatestTo(1..Len(log), i, st)'
        BY <3>2, <3>3 DEF LatestTo
      <4> QED
        BY <4>1
    <3>4. CASE \E s \in 1..Len(log) : /\ log[s].identity = i /\ log[s].to = st
                                      /\ \A t \in 1..Len(log) : t > s => log[t].identity # i
      <4>1. PICK s \in 1..Len(log) : /\ log[s].identity = i /\ log[s].to = st
                                     /\ \A t \in 1..Len(log) : t > s => log[t].identity # i
        BY <3>4
      <4>2. s \in 1..Len(log') /\ log'[s] = log[s]
        BY <2>1
      <4>3. \A t \in 1..Len(log') : t > s => log'[t].identity # i
        BY <3>2, <4>1
      <4>4. LatestTo(1..Len(log), i, st)'
        BY <4>1, <4>2, <4>3 DEF LatestTo
      <4> QED
        BY <4>4
    <3> QED
      BY <3>1, <3>3, <3>4 DEF LatestTo
  <2> QED
    BY <2>2, <2>3
<1> QED
  BY <1>1, <1>2, LogStep

\* Orchestrator.State and History converge to the log: when the tail has acknowledged
\* its head, the state of every identity is the target of its last logged event, in
\* whatever order request threads, catch-ups, rebuilds and the tail applied them.
THEOREM HistoryConverges == Spec => []HistoryMatchesLog
<1>1. Init => HistoryEnds
  BY DEF Init, HistoryEnds, LatestTo, States
<1>2. Init => WatermarkInv
  BY DEF Init, WatermarkInv, CheckpointSound, CatchUpApplied, TailApplied, Down, TailOff
<1>3. TypeInv /\ WatermarkInv /\ HistoryEnds => HistoryMatchesLog
  <2> SUFFICES ASSUME TypeInv, WatermarkInv, HistoryEnds, tailAck = Len(log), NEW i \in Identities
               PROVE  LatestTo(DOMAIN log, i, State(i))
    BY DEF HistoryMatchesLog
  <2>1. transitions = DOMAIN log /\ DOMAIN log = 1..Len(log)
    <3>1. DOMAIN log = 1..Len(log)
      BY DEF TypeInv, TypeOK, LogOK
    <3>2. transitions \subseteq DOMAIN log
      BY DEF TypeInv, TypeOK, TablesOK
    <3>3. 1..Len(log) \subseteq transitions
      BY DEF WatermarkInv, CheckpointSound
    <3> QED
      BY <3>1, <3>2, <3>3
  <2>2. \E st \in States : LatestTo(transitions, i, st)
    BY <2>1 DEF HistoryEnds
  <2>3. LatestTo(transitions, i, State(i))
    BY <2>2 DEF State
  <2> QED
    BY <2>1, <2>3
<1>4. Spec => [](TypeInv /\ WatermarkInv /\ HistoryEnds)
  BY <1>1, <1>2, TypeInit, TypeNext, WatermarkNext, HistoryNext, PTL DEF Spec
<1> QED
  BY <1>3, <1>4, PTL

-----------------------------------------------------------------------------
(* Rows *)

\* A request is served by a replica that is up.
ServedByUp == \A w \in Writers : writer[w].pc # "idle" => boot[writer[w].on].pc = "up"

\* Requests past their append have different events.
SeqsDiffer ==
    \A v, w \in Writers :
        /\ v # w
        /\ writer[v].pc \in {"appended", "tx", "committed"}
        /\ writer[w].pc \in {"appended", "tx", "committed"}
        => writer[v].seq # writer[w].seq

\* What NOT EXISTS said when its statement ran is still true when it commits.
InsertsAbsent ==
    /\ \A w \in Writers : writer[w].pc = "tx" /\ writer[w].insert
                          => ~RowExists(EffectKey(writer[w].seq, writer[w].ev.key))
    /\ \A r \in Replicas : boot[r].pc = "retx" /\ boot[r].insert => ~RowExists(KeyOf(boot[r].pos))

RowInv == ServedByUp /\ SeqsDiffer /\ InsertsAbsent /\ OneRowPerKey

\* A replica reconciles while no other one reconciles or serves: of two reconcilers,
\* or a reconciler and a request, both can find a row absent and insert it, since
\* EnqueueIfAbsent takes no lock.
Reconciling(r)  == boot[r].pc \in {"reconcile", "retx", "readvance"}
ReconcilesAlone ==
    \A q, r \in Replicas : Reconciling(r) /\ q # r => ~Reconciling(q) /\ boot[q].pc # "up"

\* A boot thread serves nothing until it is up, and a crash ends what it served.
LEMMA ServedNext == TypeInv /\ ServedByUp /\ [Next]_vars => ServedByUp'
<1> SUFFICES ASSUME TypeInv, ServedByUp, [Next]_vars PROVE ServedByUp'
  OBVIOUS
<1> USE DEF TypeInv, TypeOK, WriterOK, BootOK
<1>1. ASSUME NEW r \in Replicas, BootStep(r) PROVE ServedByUp'
  <2>1. writer' = writer /\ boot[r].pc # "up"
    BY <1>1 DEF BootStep, Restart, CatchUpBegin, CatchUpApply, CatchUpCheckpoint, CatchUpFinish,
       Rebuild, ReconcileBegin, ReconcileExec, ReconcileCommit, ReconcileAdvance, Serve
  <2>2. \A q \in Replicas \ {r} : boot'[q] = boot[q]
    BY <1>1 DEF BootStep, Restart, CatchUpBegin, CatchUpApply, CatchUpCheckpoint, CatchUpFinish,
       Rebuild, ReconcileBegin, ReconcileExec, ReconcileCommit, ReconcileAdvance, Serve
  <2>3. \A w \in Writers : writer[w].pc # "idle" => writer[w].on \in Replicas
    BY BusyWriter DEF Request
  <2> QED
    BY <2>1, <2>2, <2>3 DEF ServedByUp
<1>2. ASSUME NEW r \in Replicas, Crash(r) PROVE ServedByUp'
  BY <1>2 DEF Crash, ServedByUp, Idle
<1>3. ASSUME NEW w \in Writers, Transition(w) PROVE ServedByUp'
  <2>1. boot' = boot /\ \A v \in Writers \ {w} : writer'[v] = writer[v]
    BY <1>3 DEF Transition, TransitionLoad, TransitionAppend, TransitionExec, TransitionCommit,
       TransitionAnswer, TransitionAbort
  <2>2. writer'[w].pc # "idle" => boot[writer'[w].on].pc = "up"
    <3>1. CASE writer[w].pc = "idle"
      BY <1>3, <3>1 DEF Transition, TransitionLoad, TransitionAppend, TransitionExec,
         TransitionCommit, TransitionAnswer, TransitionAbort
    <3>2. CASE TransitionAnswer(w) \/ TransitionAbort(w)
      BY <3>2 DEF TransitionAnswer, TransitionAbort, Idle
    <3>3. CASE TransitionAppend(w) \/ TransitionExec(w) \/ TransitionCommit(w)
      <4>1. writer[w].pc # "idle" /\ writer'[w].on = writer[w].on
        BY <3>3, BusyWriter DEF TransitionAppend, TransitionExec, TransitionCommit, Request
      <4> QED
        BY <4>1 DEF ServedByUp
    <3> QED
      BY <1>3, <3>1, <3>2, <3>3 DEF Transition, TransitionLoad
  <2> QED
    BY <2>1, <2>2 DEF ServedByUp
<1>4. CASE UNCHANGED <<boot, writer>>
  BY <1>4 DEF ServedByUp
<1>5. ASSUME TailStep PROVE UNCHANGED <<boot, writer>>
  BY <1>5 DEF TailStep, TailStart, TailApply, TailAdvance, TailAcknowledge
<1>6. ASSUME NEW row \in Rows, Perform(row) \/ DeadLetter(row) \/ Sweep(row) PROVE UNCHANGED <<boot, writer>>
  BY <1>6 DEF Perform, DeadLetter, Sweep
<1> QED
  BY <1>1, <1>2, <1>3, <1>4, <1>5, <1>6 DEF Next, vars

\* An append takes a sequence nobody has.
LEMMA SeqsNext == TypeInv /\ SeqsDiffer /\ [Next]_vars => SeqsDiffer'
<1> SUFFICES ASSUME TypeInv, SeqsDiffer, [Next]_vars PROVE SeqsDiffer'
  OBVIOUS
<1>1. CASE Quiet
  BY <1>1 DEF Quiet, SeqsDiffer, Idle
<1>2. ASSUME NEW w \in Writers, NEW r \in Replicas, NEW i \in Identities, NEW to \in States,
             NEW key \in Keys \cup {NoKey}, TransitionLoad(w, r, i, to, key)
      PROVE  SeqsDiffer'
  BY <1>2 DEF TransitionLoad, SeqsDiffer, TypeInv, TypeOK, WriterOK
<1>3. ASSUME NEW w \in Writers, TransitionAppend(w) PROVE SeqsDiffer'
  <2>1. \A v \in Writers \ {w} : writer'[v] = writer[v]
    BY <1>3 DEF TransitionAppend, TypeInv, TypeOK, WriterOK
  <2>2. writer'[w].seq = Len(log) + 1
    BY <1>3, BusyWriter DEF TransitionAppend, TypeInv, TypeOK, WriterOK, Request
  <2>3. \A v \in Writers : writer[v].pc \in {"appended", "tx", "committed"} => writer[v].seq # Len(log) + 1
    BY DEF TypeInv, TypeOK, WriterInLog, LogOK
  <2> QED
    BY <2>1, <2>2, <2>3 DEF SeqsDiffer
<1>4. ASSUME NEW w \in Writers, TransitionExec(w) \/ TransitionCommit(w) PROVE SeqsDiffer'
  <2>1. /\ \A v \in Writers \ {w} : writer'[v] = writer[v]
        /\ writer[w].pc \in {"appended", "tx"} /\ writer'[w].seq = writer[w].seq
    BY <1>4, BusyWriter DEF TransitionExec, TransitionCommit, TypeInv, TypeOK, WriterOK, Request
  <2> QED
    BY <2>1 DEF SeqsDiffer
<1>5. ASSUME NEW w \in Writers, TransitionAnswer(w) PROVE SeqsDiffer'
  BY <1>5 DEF TransitionAnswer, SeqsDiffer, TypeInv, TypeOK, WriterOK, Idle
<1> QED
  BY <1>1, <1>2, <1>3, <1>4, <1>5, RequestSteps DEF TypeInv

\* Two requests past their append never share an effect key.
LEMMA KeysDiffer ==
    ASSUME TypeInv, ClaimsExclude, SeqsDiffer, NEW v \in Writers, NEW w \in Writers, v # w,
           writer[v].pc \in {"appended", "tx", "committed"},
           writer[w].pc \in {"appended", "tx", "committed"}
    PROVE  EffectKey(writer[v].seq, writer[v].ev.key) # EffectKey(writer[w].seq, writer[w].ev.key)
<1>1. writer[v].seq # writer[w].seq
  BY DEF SeqsDiffer
<1>2. writer[w].ev.key # NoKey => writer[v].ev.key # writer[w].ev.key
  BY DEF ClaimsExclude
<1> QED
  BY <1>1, <1>2 DEF EffectKey

\* An insert whose NOT EXISTS still holds keeps one row per key and adds its own.
LEMMA InsertOne ==
    ASSUME OutboxOK, OneRowPerKey, NEW yes \in BOOLEAN, NEW k \in EffectKeys, NEW p \in Payloads,
           yes => ~RowExists(k), Insert(yes, k, p), UNCHANGED <<delivered, dead>>
    PROVE  /\ OneRowPerKey'
           /\ \A j \in EffectKeys \ {k} : RowExists(j)' => RowExists(j)
<1>1. \A j \in EffectKeys, q \in Payloads :
         /\ <<j, q>> \in Rows
         /\ pending[<<j, q>>] \in Nat /\ delivered[<<j, q>>] \in Nat /\ dead[<<j, q>>] \in Nat
         /\ delivered'[<<j, q>>] = delivered[<<j, q>>] /\ dead'[<<j, q>>] = dead[<<j, q>>]
         /\ <<j, q>> # <<k, p>> => pending'[<<j, q>>] = pending[<<j, q>>]
  BY DEF Rows, OutboxOK, Insert
<1>2. CASE ~yes
  <2>1. pending' = pending
    BY <1>2 DEF Insert
  <2> QED
    BY <2>1 DEF OneRowPerKey, RowExists, Kept
<1>3. CASE yes
  <2>1. \A q \in Payloads : Kept(<<k, q>>) = 0
    BY <1>1, <1>3 DEF RowExists, Kept
  <2>2. pending'[<<k, p>>] = pending[<<k, p>>] + 1
    BY <1>1, <1>3 DEF Insert, OutboxOK
  <2>3. \A q \in Payloads : q # p => Kept(<<k, q>>)' = 0
    BY <1>1, <2>1 DEF Kept
  <2>4. Kept(<<k, p>>)' = 1
    BY <1>1, <2>1, <2>2 DEF Kept
  <2>5. \A j \in EffectKeys \ {k}, q \in Payloads :
           Kept(<<j, q>>)' = Kept(<<j, q>>)
    BY <1>1 DEF Kept
  <2>6. OneRowPerKey'
    <3> SUFFICES ASSUME NEW j \in EffectKeys, NEW a \in Payloads, NEW b \in Payloads
                 PROVE  LET n == Kept(<<j, a>>)'
                            m == Kept(<<j, b>>)'
                        IN  n <= 1 /\ (a # b => n + m <= 1)
      BY DEF OneRowPerKey
    <3>1. CASE j = k
      BY <2>3, <2>4, <3>1
    <3>2. CASE j # k
      BY <2>5, <3>2 DEF OneRowPerKey
    <3> QED
      BY <3>1, <3>2
  <2> QED
    BY <2>5, <2>6 DEF RowExists, Kept
<1> QED
  BY <1>2, <1>3

\* The only steps that make a row appear are the commits of an enqueue.
LEMMA RowAppears ==
    ASSUME TypeInv, [Next]_vars, NEW k \in EffectKeys, RowExists(k)', ~RowExists(k)
    PROVE  \/ \E w \in Writers : /\ TransitionCommit(w)
                                 /\ k = EffectKey(writer[w].seq, writer[w].ev.key)
           \/ \E r \in Replicas : ReconcileCommit(r) /\ k = KeyOf(boot[r].pos)
<1>1. PICK q \in Payloads : Kept(<<k, q>>)' > 0
  BY DEF RowExists, Kept
<1>2. <<k, q>> \in Rows /\ ~(Kept(<<k, q>>) > 0)
  BY DEF RowExists, Kept, Rows
<1> USE DEF TypeInv, TypeOK, OutboxOK, outbox, Kept
<1>3. ~UNCHANGED outbox
  BY <1>1, <1>2
<1>4. ASSUME NEW row \in Rows, Perform(row) \/ DeadLetter(row) \/ Sweep(row) PROVE FALSE
  BY <1>1, <1>2, <1>4 DEF Perform, DeadLetter, Sweep
<1>5. ASSUME NEW w \in Writers, TransitionCommit(w)
      PROVE  k = EffectKey(writer[w].seq, writer[w].ev.key)
  BY <1>1, <1>2, <1>5 DEF TransitionCommit, Insert
<1>6. ASSUME NEW r \in Replicas, ReconcileCommit(r) PROVE k = KeyOf(boot[r].pos)
  BY <1>1, <1>2, <1>6 DEF ReconcileCommit, Insert
<1> QED
  BY <1>3, <1>4, <1>5, <1>6, OutboxSteps

\* A request is in its transaction because it was, or because it has just begun it.
LEMMA InTransaction ==
    ASSUME TypeInv, [Next]_vars, NEW v \in Writers, writer'[v].pc = "tx"
    PROVE  writer'[v] = writer[v] \/ TransitionExec(v)
<1> USE DEF TypeInv, TypeOK, WriterOK
<1>1. CASE Quiet
  BY <1>1 DEF Quiet, Idle
<1>2. ASSUME NEW w \in Writers, NEW r \in Replicas, NEW i \in Identities, NEW to \in States,
             NEW key \in Keys \cup {NoKey}, TransitionLoad(w, r, i, to, key)
      PROVE  writer'[v] = writer[v]
  BY <1>2 DEF TransitionLoad
<1>3. ASSUME NEW w \in Writers,
             TransitionAppend(w) \/ TransitionCommit(w) \/ TransitionAnswer(w)
      PROVE  writer'[v] = writer[v]
  <2>1. v # w => writer'[v] = writer[v]
    BY <1>3 DEF TransitionAppend, TransitionCommit, TransitionAnswer
  <2>2. writer'[w].pc # "tx"
    BY <1>3, BusyWriter DEF TransitionAppend, TransitionCommit, TransitionAnswer, Idle, Request
  <2> QED
    BY <2>1, <2>2
<1>4. ASSUME NEW w \in Writers, TransitionExec(w), v # w PROVE writer'[v] = writer[v]
  BY <1>4 DEF TransitionExec
<1> QED
  BY <1>1, <1>2, <1>3, <1>4, RequestSteps

\* The same of a reconciler and its insert.
LEMMA InReconciliation ==
    ASSUME TypeInv, [Next]_vars, NEW q \in Replicas, boot'[q].pc = "retx"
    PROVE  boot'[q] = boot[q] \/ ReconcileExec(q)
<1> USE DEF TypeInv, TypeOK, BootOK
<1>1. ASSUME NEW r \in Replicas, BootStep(r) \/ Crash(r), q # r PROVE boot'[q] = boot[q]
  BY <1>1 DEF BootStep, Restart, CatchUpBegin, CatchUpApply, CatchUpCheckpoint, CatchUpFinish,
     Rebuild, ReconcileBegin, ReconcileExec, ReconcileCommit, ReconcileAdvance, Serve, Crash
<1>2. CASE Restart(q) \/ CatchUpBegin(q) \/ Rebuild(q) \/ ReconcileBegin(q)
  BY <1>2 DEF Restart, CatchUpBegin, Rebuild, ReconcileBegin
<1>3. CASE CatchUpApply(q) \/ CatchUpCheckpoint(q)
  <2>1. boot[q].pc = "catchup" /\ boot'[q].pc = boot[q].pc
    BY <1>3 DEF CatchUpApply, CatchUpCheckpoint
  <2> QED
    BY <2>1
<1>4. CASE ReconcileCommit(q) \/ ReconcileAdvance(q)
  BY <1>4 DEF ReconcileCommit, ReconcileAdvance
<1>5. CASE CatchUpFinish(q) \/ Serve(q) \/ Crash(q)
  BY <1>5 DEF CatchUpFinish, Serve, Crash, Down
<1>6. CASE boot' = boot
  BY <1>6
<1>7. ASSUME NEW w \in Writers, Transition(w) PROVE boot' = boot
  BY <1>7 DEF Transition, TransitionLoad, TransitionAppend, TransitionExec, TransitionCommit,
     TransitionAnswer, TransitionAbort
<1>8. ASSUME TailStep PROVE boot' = boot
  BY <1>8 DEF TailStep, TailStart, TailApply, TailAdvance, TailAcknowledge
<1>9. ASSUME NEW row \in Rows, Perform(row) \/ DeadLetter(row) \/ Sweep(row) PROVE boot' = boot
  BY <1>9 DEF Perform, DeadLetter, Sweep
<1> QED
  BY <1>1, <1>2, <1>3, <1>4, <1>5, <1>6, <1>7, <1>8, <1>9 DEF Next, BootStep, vars

\* Nothing inserts a row between an enqueue's statement and its commit: a busy
\* request keeps the reconcilers away, and its key keeps the other requests away.
LEMMA AbsentNext ==
    ASSUME ReconcilesAlone, TypeInv, ClaimsExclude, ServedByUp, SeqsDiffer, InsertsAbsent, [Next]_vars
    PROVE  InsertsAbsent'
<1>1. ASSUME NEW v \in Writers, NEW r \in Replicas, writer[v].pc = "tx" PROVE ~Reconciling(r)
  <2>1. writer[v].on \in Replicas /\ boot[writer[v].on].pc = "up"
    BY <1>1, BusyWriter DEF ServedByUp, Request, TypeInv
  <2> QED
    BY <2>1 DEF ReconcilesAlone, Reconciling
<1>2. ASSUME NEW v \in Writers, writer'[v].pc = "tx", writer'[v].insert,
             NEW k \in EffectKeys, k = EffectKey(writer[v].seq, writer[v].ev.key)', RowExists(k)'
      PROVE  FALSE
  <2>1. CASE TransitionExec(v)
    <3>1. /\ writer[v] \in Request /\ writer'[v].seq = writer[v].seq /\ writer'[v].ev = writer[v].ev
          /\ UNCHANGED outbox
          /\ writer'[v].insert => ~RowExists(EffectKey(writer[v].seq, writer[v].ev.key))
      BY <2>1, BusyWriter DEF TransitionExec, TypeInv, TypeOK, WriterOK, Request
    <3>2. ~RowExists(k)
      BY <1>2, <3>1 DEF EffectKey
    <3> QED
      BY <1>2, <3>1, <3>2 DEF RowExists, Kept, outbox
  <2>2. CASE writer'[v] = writer[v]
    <3>1. writer[v].pc = "tx" /\ k = EffectKey(writer[v].seq, writer[v].ev.key)
      BY <1>2, <2>2 DEF EffectKey
    <3>2. ~RowExists(k)
      BY <1>2, <2>2, <3>1 DEF InsertsAbsent
    <3>3. ASSUME NEW w \in Writers, TransitionCommit(w), k = EffectKey(writer[w].seq, writer[w].ev.key)
          PROVE  FALSE
      <4>1. writer[w].pc = "tx" /\ writer'[w].pc # "tx"
        BY <3>3, BusyWriter DEF TransitionCommit, TypeInv, TypeOK, WriterOK, Request
      <4> QED
        BY <1>2, <3>1, <3>3, <4>1, KeysDiffer
    <3>4. ASSUME NEW r \in Replicas, ReconcileCommit(r) PROVE FALSE
      BY <1>1, <3>1, <3>4 DEF ReconcileCommit, Reconciling
    <3> QED
      BY <1>2, <3>2, <3>3, <3>4, RowAppears
  <2> QED
    BY <1>2, <2>1, <2>2, InTransaction
<1>3. ASSUME NEW q \in Replicas, boot'[q].pc = "retx", boot'[q].insert,
             NEW k \in EffectKeys, k = KeyOf(boot[q].pos)', RowExists(k)'
      PROVE  FALSE
  <2>1. CASE ReconcileExec(q)
    <3>1. boot'[q].pos = boot[q].pos /\ log' = log /\ UNCHANGED outbox
      BY <2>1 DEF ReconcileExec, TypeInv, TypeOK, BootOK
    <3>2. ~RowExists(KeyOf(boot[q].pos))
      <4>1. HasEffect(boot[q].pos)
        BY <1>3, <2>1 DEF ReconcileExec, TypeInv, TypeOK, BootOK
      <4> QED
        BY <1>3, <2>1, <4>1 DEF ReconcileExec, TypeInv, TypeOK, BootOK
    <3>3. k = KeyOf(boot[q].pos)
      BY <1>3, <3>1 DEF KeyOf
    <3> QED
      BY <1>3, <3>1, <3>2, <3>3 DEF RowExists, Kept, outbox
  <2>2. CASE boot'[q] = boot[q]
    <3>1. boot[q].pos \in 1..Len(log)
      BY <1>3, <2>2 DEF TypeInv, TypeOK, BootWithinLog, BootOK, LogOK
    <3>2. k = KeyOf(boot[q].pos)
      BY <1>3, <2>2, <3>1, LogStable DEF KeyOf
    <3>3. ~RowExists(k)
      BY <1>3, <2>2, <3>2 DEF InsertsAbsent
    <3>4. ASSUME NEW w \in Writers, TransitionCommit(w) PROVE FALSE
      BY <1>1, <1>3, <2>2, <3>4 DEF TransitionCommit, Reconciling
    <3>5. ASSUME NEW r \in Replicas, ReconcileCommit(r) PROVE FALSE
      <4>1. boot'[r].pc = "readvance"
        BY <3>5 DEF ReconcileCommit, TypeInv, TypeOK, BootOK
      <4>2. boot[r].pc = "retx" /\ boot[q].pc = "retx"
        BY <1>3, <2>2, <3>5 DEF ReconcileCommit
      <4> QED
        BY <1>3, <4>1, <4>2 DEF ReconcilesAlone, Reconciling
    <3> QED
      BY <1>3, <3>3, <3>4, <3>5, RowAppears
  <2> QED
    BY <1>3, <2>1, <2>2, InReconciliation
<1>4. TypeInv'
  BY TypeNext
<1>5. ASSUME NEW v \in Writers, writer'[v].pc = "tx", writer'[v].insert
      PROVE  ~RowExists(EffectKey(writer[v].seq, writer[v].ev.key))'
  <2>1. PICK k : k = EffectKey(writer[v].seq, writer[v].ev.key)'
    OBVIOUS
  <2>2. k \in EffectKeys
    <3>1. writer'[v].seq \in 1..Len(log') /\ writer'[v] \in Request /\ Len(log') \in Nat /\ Len(log') <= MaxLog
      BY <1>4, <1>5 DEF TypeInv, TypeOK, WriterInLog, WriterOK, Idle, Request, LogOK
    <3>2. writer'[v].seq \in 1..MaxLog /\ writer'[v].ev.key \in Keys \cup {NoKey}
      BY <3>1, SpineAssumption DEF Request, Event
    <3> QED
      BY <2>1, <3>2, EffectKeyType DEF EffectKey
  <2>3. ~RowExists(k)'
    BY <1>2, <1>5, <2>1, <2>2
  <2> QED
    BY <2>1, <2>3 DEF RowExists, Kept
<1>6. ASSUME NEW q \in Replicas, boot'[q].pc = "retx", boot'[q].insert
      PROVE  ~RowExists(KeyOf(boot[q].pos))'
  <2>1. PICK k : k = KeyOf(boot[q].pos)'
    OBVIOUS
  <2>2. k \in EffectKeys
    <3>1. boot'[q].pos \in 1..Len(log') /\ log' \in Seq(Event) /\ Len(log') <= MaxLog
      BY <1>4, <1>6 DEF TypeInv, TypeOK, BootWithinLog, BootOK, LogOK
    <3>2. boot'[q].pos \in 1..MaxLog /\ log'[boot'[q].pos] \in Event
      BY <3>1, SpineAssumption
    <3>3. log'[boot'[q].pos].key \in Keys \cup {NoKey}
      BY <3>2 DEF Event
    <3> QED
      BY <2>1, <3>2, <3>3, EffectKeyType DEF KeyOf, EffectKey
  <2>3. ~RowExists(k)'
    BY <1>3, <1>6, <2>1, <2>2
  <2> QED
    BY <2>1, <2>3 DEF RowExists, Kept
<1> QED
  BY <1>5, <1>6 DEF InsertsAbsent

\* An enqueue commits a row only where there is none.
LEMMA OneRowNext ==
    ASSUME TypeInv, InsertsAbsent, OneRowPerKey, [Next]_vars
    PROVE  OneRowPerKey'
<1>1. OutboxOK
  BY DEF TypeInv, TypeOK
<1>2. CASE UNCHANGED outbox
  BY <1>2 DEF outbox, OneRowPerKey, Kept
<1>3. ASSUME NEW w \in Writers, TransitionCommit(w) PROVE OneRowPerKey'
  <2>1. writer[w] \in Request /\ writer[w].pc = "tx"
    BY <1>3, BusyWriter DEF TransitionCommit, TypeInv
  <2>2. PICK k \in EffectKeys : k = EffectKey(writer[w].seq, writer[w].ev.key)
    BY <2>1, WriterKey
  <2>3. PICK p \in Payloads : p = writer[w].payload
    BY <2>1 DEF Request
  <2>4. PICK yes \in BOOLEAN : yes = writer[w].insert
    BY <2>1 DEF Request
  <2>5. Insert(yes, k, p) /\ UNCHANGED <<delivered, dead>>
    BY <1>3, <2>2, <2>3, <2>4 DEF TransitionCommit
  <2>6. yes => ~RowExists(k)
    BY <2>1, <2>2, <2>4 DEF InsertsAbsent
  <2> QED
    BY <1>1, <2>5, <2>6, InsertOne
<1>4. ASSUME NEW r \in Replicas, ReconcileCommit(r) PROVE OneRowPerKey'
  <2>1. boot[r].pc = "retx" /\ boot[r].insert \in BOOLEAN
    BY <1>4 DEF ReconcileCommit, TypeInv, TypeOK, BootOK
  <2>2. boot[r].pos \in 1..MaxLog /\ log[boot[r].pos] \in Event
    BY <2>1, SpineAssumption DEF TypeInv, TypeOK, BootWithinLog, BootOK, LogOK
  <2>3. KeyOf(boot[r].pos) \in EffectKeys
    BY <2>2, EffectKeyType DEF KeyOf, Event
  <2>4. PICK k \in EffectKeys : k = KeyOf(boot[r].pos)
    BY <2>3
  <2>5. PICK yes \in BOOLEAN : yes = boot[r].insert
    BY <2>1
  <2>6. Insert(yes, k, "event") /\ UNCHANGED <<delivered, dead>>
    BY <1>4, <2>4, <2>5 DEF ReconcileCommit
  <2>7. yes => ~RowExists(k)
    BY <2>1, <2>4, <2>5 DEF InsertsAbsent
  <2> QED
    BY <1>1, <2>6, <2>7, InsertOne DEF Payloads
<1>5. ASSUME NEW row \in Rows, Perform(row) \/ DeadLetter(row) \/ Sweep(row) PROVE OneRowPerKey'
  <2>1. \A k \in EffectKeys, p \in Payloads :
           /\ Kept(<<k, p>>) \in Nat
           /\ Kept(<<k, p>>)' \in Nat
           /\ Kept(<<k, p>>)' <= Kept(<<k, p>>)
    <3> SUFFICES ASSUME NEW x \in Rows
                 PROVE  /\ Kept(x) \in Nat /\ Kept(x)' \in Nat
                        /\ Kept(x)' <= Kept(x)
      BY DEF Rows
    <3> QED
      BY <1>1, <1>5 DEF OutboxOK, Kept, Perform, DeadLetter, Sweep
  <2> SUFFICES ASSUME NEW k \in EffectKeys, NEW p \in Payloads, NEW q \in Payloads
               PROVE  LET n == Kept(<<k, p>>)'
                          m == Kept(<<k, q>>)'
                      IN  n <= 1 /\ (p # q => n + m <= 1)
    BY DEF OneRowPerKey
  <2>2. Kept(<<k, p>>) <= 1
    BY DEF OneRowPerKey
  <2>3. p # q => (Kept(<<k, p>>)) + (Kept(<<k, q>>)) <= 1
    BY DEF OneRowPerKey
  <2> QED
    BY <2>1, <2>2, <2>3
<1> QED
  BY <1>2, <1>3, <1>4, <1>5, OutboxSteps

\* EnqueueIfAbsent keeps one outbox row per idempotency key in every execution in
\* which a replica reconciles alone, for any number of replicas that serve at the
\* same time, of their request threads, crashes and dispatches: the boot-time pass
\* beside a live replica (a rolling restart) is what the claim of one row lacks.
THEOREM RowsAreUniqueIfReconcilersAreAlone ==
    Spec => ([]ReconcilesAlone => []OneRowPerKey)
<1>1. Init => ReconcileInv /\ AnswerInv
  BY DEF Init, ReconcileInv, ReconciledEffectsRecorded, DeliveredPerformed, ReconcilerRecorded, Down,
     AnswerInv, EdgesOnly, KeysAgree, ClaimsExclude, WriterRecorded, AnsweredHasEffect, Idle
<1>2. Init => RowInv
  <2> SUFFICES ASSUME Init PROVE RowInv
    OBVIOUS
  <2>1. ServedByUp /\ SeqsDiffer /\ InsertsAbsent
    BY DEF Init, ServedByUp, SeqsDiffer, InsertsAbsent, Idle, Down
  <2>2. OneRowPerKey
    BY DEF Init, OneRowPerKey, Rows, Kept
  <2> QED
    BY <2>1, <2>2 DEF RowInv
<1>3. ReconcilesAlone /\ TypeInv /\ AnswerInv /\ RowInv /\ [Next]_vars => RowInv'
  BY ServedNext, SeqsNext, AbsentNext, OneRowNext DEF RowInv, AnswerInv
<1>4. Spec => ([]ReconcilesAlone => [](TypeInv /\ ReconcileInv /\ AnswerInv /\ RowInv))
  BY <1>1, <1>2, <1>3, TypeInit, TypeNext, ReconcileNext, AnswerNext, PTL DEF Spec
<1> QED
  BY <1>4, PTL DEF RowInv

=============================================================================
