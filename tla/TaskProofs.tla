----------------------------- MODULE TaskProofs -----------------------------
(***************************************************************************)
(* The immovable set, the work queue and the tasks in the RSML agree: the  *)
(* proof of ImmovableMatchesTasks from the inductive invariant TaskInv.    *)
(***************************************************************************)
EXTENDS HandoverProofs

\* TaskInv in parts: the tasks of one server, and the acknowledgements.
TasksOf(s) ==
    /\ immovable[s] = {h.rng : h \in work[s]}
    /\ rsmlTask[s] = work[s] \cup completed[s]
    /\ work[s] \cap completed[s] = {}
    /\ \A h1, h2 \in work[s] : h1.rng = h2.rng => h1 = h2

TasksRecorded == \A s \in Servers : \A h \in rsmlTask[s] : h.src = s /\ call[h] = "done"

DownIdle == \A s \in Servers \ up : work[s] = {} /\ completed[s] = {}

OneAckWaits ==
    \A a \in acks : a.waiting =>
        /\ a.ho \in work[a.ho.src]
        /\ \A b \in acks : b.waiting /\ b.ho = a.ho => b = a

LEMMA TaskParts ==
    TaskInv <=> (Running => /\ \A s \in up : TasksOf(s)
                            /\ TasksRecorded /\ DownIdle /\ OneAckWaits)
BY Zenon DEF TaskInv, TasksOf, TasksRecorded, DownIdle, OneAckWaits

LEMMA TaskPartsPrime ==
    TaskInv' <=> (Running' => /\ \A s \in up' : TasksOf(s)'
                              /\ TasksRecorded' /\ DownIdle' /\ OneAckWaits')
BY Zenon DEF TaskInv, TasksOf, TasksRecorded, DownIdle, OneAckWaits

\* A hand-over that is done stays done.
LEMMA DoneStays ==
    ASSUME TypeInv, OneWaiter, Next
    PROVE  \A h \in Handover : call[h] = "done" => call'[h] = "done"
<1> USE DEF TypeInv, TypeOK
<1> SUFFICES ASSUME NEW h \in Handover, call[h] = "done" PROVE call'[h] = "done"
  BY ZenonT(60)
<1>1. ASSUME call' = call PROVE call'[h] = "done"
  BY Zenon, <1>1
<1>2. ASSUME NEW g \in Handover, call[g] # "done", NEW st, call' = [call EXCEPT ![g] = st]
      PROVE  call'[h] = "done"
  BY Zenon, <1>2
<1>3. ASSUME NEW s \in Servers, NEW r \in Ranges, MaintenanceStep(s, r)
      PROVE  call'[h] = "done"
  BY Zenon, <1>1, <1>3 DEF MaintenanceStep, RelinquishInstallLog, RelinquishCompact
<1>4. ASSUME NEW g \in Handover, HandoverStep(g) \/ MoveRangeTimeout(g)
      PROVE  call'[h] = "done"
  BY Zenon, <1>2, <1>4 DEF HandoverStep, MoveRangeTimeout, MoveRange, SendMoveRange,
                    RelinquishRemove, RelinquishRecord, SplitRecord, Reported
<1>5. ASSUME NEW g \in Handover, AcknowledgeRelinquish(g) \/ AcknowledgeTimeout(g)
      PROVE  call'[h] = "done"
  BY Zenon, <1>1, <1>5 DEF AcknowledgeRelinquish, AcknowledgeTimeout, rsVars
<1>6. ASSUME NEW s \in Servers, RecordRemoval(s) \/ ServerRecover(s) \/ ServerCrash(s)
      PROVE  call'[h] = "done"
  <2>1. CASE ServerCrash(s)
    BY Zenon, <2>1 DEF ServerCrash
  <2> QED
    BY Zenon, <1>1, <1>6, <2>1 DEF RecordRemoval, ServerRecover
<1>7. ASSUME NEW q \in requests, HandleMoveRange(q)
      PROVE  call'[h] = "done"
  <2>1. q.ho \in Handover /\ (q.waiting => call[q.ho] # "done")
    BY Zenon DEF OneWaiter, Request
  <2> QED
    BY Zenon, <1>1, <1>2, <1>7, <2>1 DEF HandleMoveRange
<1>8. ASSUME NEW o \in OpIds, OperationStep(o) \/ MoveLoadError(o) \/ MoveAcknowledgeError(o)
      PROVE  call'[h] = "done"
  <2>1. CASE MoveStarted(o)
    <3>1. op[o] # None
      BY Zenon, <2>1 DEF MoveStarted, Runs
    <3>2. op[o].ho \in Handover /\ (op[o].event => call[op[o].ho] # "done")
      BY Zenon, <3>1 DEF OneWaiter, Operation
    <3> QED
      BY Zenon, <1>1, <1>2, <2>1, <3>2 DEF MoveStarted
  <2> QED
    BY Zenon, <1>1, <1>8, <2>1 DEF OperationStep, MoveInitial, MoveLoad, MoveLoadError,
       MoveAcknowledge, MoveAcknowledgeError, MoveComplete, MoveLeave, rsVars
<1>9. ASSUME NEW a \in acks, HandleAck(a) \/ FinishAck(a)
      PROVE  call'[h] = "done"
  BY Zenon, <1>1, <1>9 DEF HandleAck, FinishAck
<1>10. CASE BalanceStep
  BY Zenon, <1>1, <1>10 DEF BalanceStep, BalanceRegister, BalanceRelinquish, BalanceReply,
                     BalanceError, rsVars
<1>11. CASE MasterRestart
  BY Zenon, <1>1, <1>11 DEF MasterRestart, rsVars
<1> QED
  BY ZenonT(60), <1>3, <1>4, <1>5, <1>6, <1>7, <1>8, <1>9, <1>10, <1>11, NextCases


\* A task enters the work queue of its source.
LEMMA AddTask ==
    ASSUME TypeInv, Running, TaskInv, NEW h \in Handover, h.src \in up,
           call[h] # "done", call'[h] = "done",
           \A g \in Handover : call[g] = "done" => call'[g] = "done",
           rsmlTask' = [rsmlTask EXCEPT ![h.src] = @ \cup {h}],
           AddToWorkQueue(h), UNCHANGED <<up, completed, acks>>
    PROVE  TaskInv'
<1> USE DEF TypeInv, TypeOK
<1> SUFFICES ASSUME Running'
             PROVE  /\ \A s \in up' : TasksOf(s)'
                    /\ TasksRecorded' /\ DownIdle' /\ OneAckWaits'
  BY Zenon, TaskPartsPrime
<1>0. (\A s \in up : TasksOf(s)) /\ TasksRecorded /\ DownIdle /\ OneAckWaits
  BY Zenon, TaskParts
<1>1. h.src \in Servers /\ h.rng \in Ranges
  BY Zenon DEF Handover
<1>2. /\ h.rng \notin immovable[h.src]
      /\ immovable' = [immovable EXCEPT ![h.src] = @ \cup {h.rng}]
      /\ work' = [work EXCEPT ![h.src] = @ \cup {h}]
  <2>1. abort' # "immovable"
    BY Zenon, NoneAssumption DEF Running, Asserts
  <2> QED
    BY Zenon, <2>1 DEF AddToWorkQueue
<1>3. h \notin rsmlTask[h.src]
  BY Zenon, <1>0, <1>1 DEF TasksRecorded
<1>4. ASSUME NEW s \in up PROVE TasksOf(s)'
  <2>1. CASE s = h.src
    <3>1. /\ immovable'[s] = immovable[s] \cup {h.rng}
          /\ work'[s] = work[s] \cup {h}
          /\ rsmlTask'[s] = rsmlTask[s] \cup {h}
          /\ completed'[s] = completed[s]
      BY Zenon, <1>1, <1>2, <2>1
    <3>2. TasksOf(s)
      BY Zenon, <1>0
    <3>3. immovable'[s] = {g.rng : g \in work'[s]}
      BY SMTT(60), <3>1, <3>2 DEF TasksOf
    <3>4. rsmlTask'[s] = work'[s] \cup completed'[s] /\ work'[s] \cap completed'[s] = {}
      BY SMTT(60), <1>3, <2>1, <3>1, <3>2 DEF TasksOf
    <3>5. \A h1, h2 \in work'[s] : h1.rng = h2.rng => h1 = h2
      BY SMTT(60), <1>2, <2>1, <3>1, <3>2 DEF TasksOf
    <3> QED
      BY Zenon, <3>3, <3>4, <3>5 DEF TasksOf
  <2>2. CASE s # h.src
    BY ZenonT(60), <1>0, <1>1, <1>2, <2>2 DEF TasksOf
  <2> QED
    BY Zenon, <2>1, <2>2
<1>5. TasksRecorded'
  BY ZenonT(60), <1>0, <1>1 DEF TasksRecorded
<1>6. DownIdle'
  BY Zenon, <1>0, <1>1, <1>2 DEF DownIdle
<1>7. OneAckWaits'
  <2>1. \A a \in acks : a.ho.src \in Servers
    BY ZenonT(60) DEF Ack, Handover
  <2>2. \A s \in Servers : work[s] \subseteq work'[s]
    BY Zenon, <1>1, <1>2
  <2> QED
    BY Zenon, <1>0, <2>1, <2>2 DEF OneAckWaits
<1> QED
  BY Zenon, <1>4, <1>5, <1>6, <1>7

\* The reply to an acknowledgement takes its task out of the work queue.
LEMMA ReplyTask ==
    ASSUME TypeInv, Running, TaskInv, NEW a \in acks, AckReply(a), acks' = acks \ {a},
           UNCHANGED <<up, rsmlTask, call, abort>>
    PROVE  TaskInv'
<1> USE DEF TypeInv, TypeOK
<1>0. (\A s \in up : TasksOf(s)) /\ TasksRecorded /\ DownIdle /\ OneAckWaits
  BY Zenon, TaskParts
<1>1. a.ho \in Handover /\ a.ho.src \in Servers /\ a.ho.rng \in Ranges
  BY Zenon DEF Ack, Handover
<1>2. CASE ~a.waiting
  <2>1. UNCHANGED <<work, immovable, completed>>
    BY Zenon, <1>2 DEF AckReply
  <2>2. OneAckWaits'
    BY Zenon, <1>0, <2>1 DEF OneAckWaits
  <2> QED
    BY SMTT(60), <1>0, <2>1, <2>2, TaskPartsPrime DEF TasksOf, TasksRecorded, DownIdle
<1>3. CASE a.waiting
  <2>1. /\ work' = [work EXCEPT ![a.ho.src] = @ \ {a.ho}]
        /\ immovable' = [immovable EXCEPT ![a.ho.src] = @ \ {a.ho.rng}]
        /\ completed' = [completed EXCEPT ![a.ho.src] = @ \cup {a.ho}]
    BY ZenonT(60), <1>3 DEF AckReply
  <2>2. a.ho \in work[a.ho.src]
    BY Zenon, <1>0, <1>3 DEF OneAckWaits
  <2>3. a.ho.src \in up
    BY Zenon, <1>0, <1>1, <2>2 DEF DownIdle
  <2>4. ASSUME NEW s \in up PROVE TasksOf(s)'
    <3>1. CASE s = a.ho.src
      <4>1. /\ immovable'[s] = immovable[s] \ {a.ho.rng}
            /\ work'[s] = work[s] \ {a.ho}
            /\ completed'[s] = completed[s] \cup {a.ho}
            /\ rsmlTask'[s] = rsmlTask[s]
        BY Zenon, <1>1, <2>1, <3>1
      <4>2. TasksOf(s)
        BY Zenon, <1>0
      <4>3. immovable'[s] = {g.rng : g \in work'[s]}
        <5>1. \A g \in work[s] : g # a.ho => g.rng # a.ho.rng
          BY Zenon, <2>2, <3>1, <4>2 DEF TasksOf
        <5>2. immovable[s] = {g.rng : g \in work[s]}
          BY Zenon, <4>2 DEF TasksOf
        <5> QED
          BY ONLY SMTT(60), <4>1, <5>1, <5>2
      <4>4. rsmlTask'[s] = work'[s] \cup completed'[s] /\ work'[s] \cap completed'[s] = {}
        <5>1. a.ho \in work[s]
          BY Zenon, <2>2, <3>1
        <5>2. rsmlTask[s] = work[s] \cup completed[s] /\ work[s] \cap completed[s] = {}
          BY Zenon, <4>2 DEF TasksOf
        <5> QED
          BY ONLY SMTT(60), <4>1, <5>1, <5>2
      <4>5. \A h1, h2 \in work'[s] : h1.rng = h2.rng => h1 = h2
        BY Zenon, <4>1, <4>2 DEF TasksOf
      <4> QED
        BY Zenon, <4>3, <4>4, <4>5 DEF TasksOf
    <3>2. CASE s # a.ho.src
      BY ZenonT(60), <1>0, <1>1, <2>1, <3>2 DEF TasksOf
    <3> QED
      BY Zenon, <3>1, <3>2
  <2>5. DownIdle'
    BY ZenonT(60), <1>0, <1>1, <2>1, <2>3 DEF DownIdle
  <2>6. OneAckWaits'
    <3> SUFFICES ASSUME NEW b \in acks, b # a, b.waiting
                 PROVE  /\ b.ho \in work'[b.ho.src]
                        /\ \A c \in acks : c.waiting /\ c.ho = b.ho => c = b
      BY Zenon DEF OneAckWaits
    <3>1. b.ho # a.ho
      BY Zenon, <1>0, <1>3 DEF OneAckWaits
    <3>2. b.ho.src \in Servers
      BY Zenon DEF Ack, Handover
    <3> QED
      BY ZenonT(60), <1>0, <2>1, <3>1, <3>2 DEF OneAckWaits
  <2>7. TasksRecorded'
    BY Zenon, <1>0 DEF TasksRecorded
  <2> QED
    BY Zenon, <2>4, <2>5, <2>6, <2>7, TaskPartsPrime
<1> QED
  BY Zenon, <1>2, <1>3


LEMMA HandleAckTasks ==
    ASSUME TypeInv, Running, TaskInv, NEW a \in acks, HandleAck(a) \/ FinishAck(a)
    PROVE  TaskInv'
<1>0. (\A s \in up : TasksOf(s)) /\ TasksRecorded /\ DownIdle /\ OneAckWaits
  BY Zenon, TaskParts
<1>1. UNCHANGED <<up, rsmlTask, call>>
  BY Zenon DEF HandleAck, FinishAck
<1>2. CASE FinishAck(a)
  BY Zenon, <1>1, <1>2, ReplyTask DEF FinishAck
<1>3. CASE HandleAck(a)
  <2> DEFINE o == moveOps[hash_code(a.ho)]
  <2>1. CASE AckReply(a) /\ acks' = acks \ {a} /\ UNCHANGED abort
    BY Zenon, <1>1, <2>1, ReplyTask
  <2>2. CASE abort' = "operation"
    BY Zenon, <2>2, NoneAssumption DEF TaskInv, Running, Asserts
  <2>3. CASE /\ acks' = (acks \ {a}) \cup {[a EXCEPT !.pc = "recorded"]}
             /\ UNCHANGED <<work, immovable, completed, abort>>
    <3> DEFINE n == [a EXCEPT !.pc = "recorded"]
    <3>1. n.ho = a.ho /\ n.waiting = a.waiting
      BY ZenonT(60) DEF TypeInv, TypeOK, Ack
    <3>2. acks' = (acks \ {a}) \cup {n}
      BY Zenon, <2>3
    <3> HIDE DEF n
    <3>3. OneAckWaits'
      <4> SUFFICES ASSUME NEW b \in acks', b.waiting
                   PROVE  /\ b.ho \in work[b.ho.src]
                          /\ \A c \in acks' : c.waiting /\ c.ho = b.ho => c = b
        BY Zenon, <2>3 DEF OneAckWaits
      <4>1. CASE b = n
        BY Zenon, <1>0, <3>1, <3>2, <4>1 DEF OneAckWaits
      <4>2. CASE b # n
        BY Zenon, <1>0, <3>1, <3>2, <4>2 DEF OneAckWaits
      <4> QED
        BY Zenon, <4>1, <4>2
    <3> QED
      BY ZenonT(60), <1>0, <1>1, <2>3, <3>3, TaskPartsPrime DEF TasksOf, TasksRecorded, DownIdle
  <2> HIDE DEF o
  <2> QED
    BY Zenon, <1>3, <2>1, <2>2, <2>3, HandleAckCases DEF o
<1> QED
  BY Zenon, <1>2, <1>3

LEMMA AcknowledgeTasks ==
    ASSUME TypeInv, Running, TaskInv, NEW h \in Handover,
           AcknowledgeRelinquish(h) \/ AcknowledgeTimeout(h)
    PROVE  TaskInv'
<1>0. (\A s \in up : TasksOf(s)) /\ TasksRecorded /\ DownIdle /\ OneAckWaits
  BY Zenon, TaskParts
<1>1. UNCHANGED <<up, rsmlTask, call, work, immovable, completed, abort>>
  BY Zenon DEF AcknowledgeRelinquish, AcknowledgeTimeout, rsVars
<1>2. OneAckWaits'
  <2>1. CASE AcknowledgeRelinquish(h)
    <3> DEFINE n == [ho |-> h, waiting |-> TRUE, pc |-> "start"]
    <3>1. n.ho = h
      BY Zenon
    <3>2. /\ acks' = acks \cup {n} /\ h \in work[h.src]
          /\ \A b \in acks : b.waiting => b.ho # h
      BY Zenon, <2>1 DEF AcknowledgeRelinquish
    <3> HIDE DEF n
    <3> QED
      BY Zenon, <1>0, <1>1, <3>1, <3>2 DEF OneAckWaits
  <2>2. CASE AcknowledgeTimeout(h)
    <3>1. acks' = {IF b.ho = h THEN [b EXCEPT !.waiting = FALSE] ELSE b : b \in acks}
      BY Zenon, <2>2 DEF AcknowledgeTimeout
    <3>2. \A b \in acks : [b EXCEPT !.waiting = FALSE].waiting = FALSE
      BY Zenon DEF TypeInv, TypeOK, Ack
    <3>3. \A b \in acks' : b.waiting => b \in acks
      BY ONLY Zenon, <3>1, <3>2
    <3> QED
      BY Zenon, <1>0, <1>1, <3>3 DEF OneAckWaits
  <2> QED
    BY Zenon, <2>1, <2>2
<1> QED
  BY ZenonT(60), <1>0, <1>1, <1>2, TaskPartsPrime DEF TasksOf, TasksRecorded, DownIdle

LEMMA ServerTasks ==
    ASSUME TypeInv, OneWaiter, Running, TaskInv, Next, NEW s \in Servers,
           RecordRemoval(s) \/ ServerRecover(s) \/ ServerCrash(s)
    PROVE  TaskInv'
<1> USE DEF TypeInv, TypeOK
<1>0. (\A t \in up : TasksOf(t)) /\ TasksRecorded /\ DownIdle /\ OneAckWaits
  BY ZenonT(60), TaskParts
<1>a. \A a \in acks : a.ho.src \in Servers
  BY Zenon DEF Ack, Handover
<1>1. CASE RecordRemoval(s)
  <2>1. /\ UNCHANGED <<up, call, work, immovable, acks, abort>> /\ s \in up
        /\ rsmlTask' = [rsmlTask EXCEPT ![s] = @ \ completed[s]]
        /\ completed' = [completed EXCEPT ![s] = {}]
    BY ZenonT(60), <1>1 DEF RecordRemoval, netVars
  <2>2. ASSUME NEW t \in up PROVE TasksOf(t)'
    <3>1. CASE t = s
      <4>1. rsmlTask'[t] = rsmlTask[t] \ completed[t] /\ completed'[t] = {}
        BY Zenon, <2>1, <3>1
      <4>2. TasksOf(t)
        BY Zenon, <1>0
      <4>3. rsmlTask'[t] = work[t] \cup completed'[t] /\ work[t] \cap completed'[t] = {}
        BY Zenon, <4>1, <4>2 DEF TasksOf
      <4> QED
        BY Zenon, <2>1, <4>2, <4>3 DEF TasksOf
    <3>2. CASE t # s
      BY Zenon, <1>0, <2>1, <3>2 DEF TasksOf
    <3> QED
      BY Zenon, <3>1, <3>2
  <2>3. TasksRecorded'
    BY SMTT(60), <1>0, <2>1 DEF TasksRecorded
  <2>4. DownIdle'
    BY Zenon, <1>0, <2>1 DEF DownIdle
  <2>5. OneAckWaits'
    BY Zenon, <1>0, <2>1 DEF OneAckWaits
  <2> QED
    BY Zenon, <2>1, <2>2, <2>3, <2>4, <2>5, TaskPartsPrime
<1>2. CASE ServerRecover(s) /\ RecoveryAssert(s) # None
  BY Zenon, <1>2 DEF TaskInv, Running, ServerRecover
<1>3. CASE ServerRecover(s) /\ RecoveryAssert(s) = None
  <2>1. /\ UNCHANGED <<call, rsmlTask, completed, acks>> /\ s \notin up
        /\ up' = up \cup {s}
        /\ work' = [work EXCEPT ![s] = rsmlTask[s]]
        /\ immovable' = [immovable EXCEPT ![s] = {h.rng : h \in rsmlTask[s]}]
    BY ZenonT(60), <1>3 DEF ServerRecover, netVars
  <2>2. \A h1, h2 \in rsmlTask[s] : h1.rng = h2.rng => h1 = h2
    BY Zenon, <1>3, NoneAssumption DEF RecoveryAssert, Asserts
  <2>3. ASSUME NEW t \in up' PROVE TasksOf(t)'
    <3>1. CASE t = s
      <4>1. /\ work'[t] = rsmlTask[t]
            /\ immovable'[t] = {h.rng : h \in rsmlTask[t]}
            /\ completed'[t] = {}
        BY ZenonT(60), <1>0, <2>1, <3>1 DEF DownIdle
      <4> QED
        BY ZenonT(60), <2>1, <2>2, <3>1, <4>1 DEF TasksOf
    <3>2. CASE t # s
      BY ZenonT(60), <1>0, <2>1, <2>3, <3>2 DEF TasksOf
    <3> QED
      BY Zenon, <3>1, <3>2
  <2>4. TasksRecorded'
    BY ZenonT(60), <1>0, <2>1 DEF TasksRecorded
  <2>5. DownIdle'
    BY Zenon, <1>0, <2>1 DEF DownIdle
  <2>6. \A t \in Servers : work[t] \subseteq work'[t]
    BY Zenon, <1>0, <2>1 DEF DownIdle
  <2>7. OneAckWaits'
    BY Zenon, <1>0, <1>a, <2>1, <2>6 DEF OneAckWaits
  <2> QED
    BY Zenon, <2>3, <2>4, <2>5, <2>7, TaskPartsPrime
<1>4. CASE ServerCrash(s)
  <2>1. /\ UNCHANGED <<rsmlTask, abort>>
        /\ up' = up \ {s}
        /\ work' = [work EXCEPT ![s] = {}]
        /\ completed' = [completed EXCEPT ![s] = {}]
        /\ immovable' = [immovable EXCEPT ![s] = {}]
        /\ acks' = {IF a.ho.src = s THEN [a EXCEPT !.waiting = FALSE] ELSE a : a \in acks}
    BY Zenon, <1>4 DEF ServerCrash
  <2>2. \A t \in up' : TasksOf(t)'
    BY SMTT(60), <1>0, <2>1 DEF TasksOf
  <2>3. TasksRecorded'
    BY Zenon, <1>0, <2>1, DoneStays DEF TasksRecorded
  <2>4. DownIdle'
    BY Zenon, <1>0, <2>1 DEF DownIdle
  <2>5. OneAckWaits'
    <3>1. \A a \in acks : [a EXCEPT !.waiting = FALSE].waiting = FALSE
      BY ZenonT(60) DEF Ack
    <3>2. acks' = {IF a.ho.src = s THEN [a EXCEPT !.waiting = FALSE] ELSE a : a \in acks}
      BY Zenon, <2>1
    <3>3. \A b \in acks' : b.waiting => b \in acks /\ b.ho.src # s
      BY ONLY Zenon, <3>1, <3>2
    <3>4. \A t \in Servers : t # s => work'[t] = work[t]
      BY Zenon, <2>1
    <3> QED
      BY Zenon, <1>0, <1>a, <3>3, <3>4 DEF OneAckWaits
  <2> QED
    BY Zenon, <2>2, <2>3, <2>4, <2>5, TaskPartsPrime
<1> QED
  BY Zenon, <1>1, <1>2, <1>3, <1>4

LEMMA NextTasks == TypeInv /\ OneWaiter /\ TaskInv /\ [Next]_vars => TaskInv'
<1> SUFFICES ASSUME TypeInv, OneWaiter, TaskInv, [Next]_vars PROVE TaskInv'
  BY Zenon
<1>1. CASE UNCHANGED vars
  BY SMTT(60), <1>1 DEF vars, rsVars, netVars, TaskInv, Running
<1>2. CASE Next
  <2>0. /\ Running /\ TasksRecorded /\ DownIdle /\ OneAckWaits
        /\ \A s \in up : TasksOf(s)
    BY ZenonT(60), <1>2, NextCases, TaskParts
  <2>1. ASSUME UNCHANGED <<up, work, rsmlTask, completed, immovable, acks, abort>>
        PROVE  TaskInv'
    <3>1. TasksRecorded'
      BY Zenon, <1>2, <2>0, <2>1, DoneStays DEF TasksRecorded, TypeInv, TypeOK
    <3> QED
      BY ZenonT(60), <2>0, <2>1, <3>1, TaskPartsPrime DEF TasksOf, DownIdle, OneAckWaits
  <2>2. ASSUME NEW s \in Servers, NEW r \in Ranges, MaintenanceStep(s, r) PROVE TaskInv'
    BY ZenonT(60), <2>1, <2>2 DEF MaintenanceStep, RelinquishInstallLog, RelinquishCompact, netVars
  <2>3. ASSUME NEW h \in Handover, HandoverStep(h) \/ MoveRangeTimeout(h) PROVE TaskInv'
    <3>1. CASE MoveRange(h) \/ MoveRangeTimeout(h) \/ RelinquishRemove(h)
      BY Zenon, <2>1, <3>1 DEF MoveRange, MoveRangeTimeout, SendMoveRange, RelinquishRemove, netVars
    <3>2. CASE RelinquishRecord(h)
      <4>1. call'[h] = "done"
        BY ZenonT(60), <3>2 DEF RelinquishRecord, TypeInv, TypeOK
      <4> QED
        BY Zenon, <1>2, <2>0, <3>2, <4>1, DoneStays, AddTask DEF RelinquishRecord, netVars
    <3>3. CASE SplitRecord(h)
      <4>1. call'[h] = "done"
        BY ZenonT(60), <3>3 DEF SplitRecord, TypeInv, TypeOK
      <4> QED
        BY Zenon, <1>2, <2>0, <3>3, <4>1, DoneStays, AddTask DEF SplitRecord, Reported, netVars
    <3> QED
      BY Zenon, <2>3, <3>1, <3>2, <3>3 DEF HandoverStep
  <2>4. ASSUME NEW q \in requests, HandleMoveRange(q) PROVE TaskInv'
    BY Zenon, <2>1, <2>4 DEF HandleMoveRange
  <2>5. ASSUME NEW o \in OpIds, OperationStep(o) \/ MoveLoadError(o) \/ MoveAcknowledgeError(o)
        PROVE  TaskInv'
    BY Zenon, <2>1, <2>5 DEF OperationStep, MoveInitial, MoveStarted, MoveLoad, MoveLoadError,
       MoveAcknowledge, MoveAcknowledgeError, MoveComplete, MoveLeave, rsVars, netVars
  <2>6. CASE BalanceStep
    BY ZenonT(60), <2>1, <2>6 DEF BalanceStep, BalanceRegister, BalanceRelinquish, BalanceReply,
                      BalanceError, rsVars, netVars
  <2>7. CASE MasterRestart
    <3>1. acks' = {} /\ UNCHANGED <<up, work, rsmlTask, completed, immovable, call>>
      BY Zenon, <2>7 DEF MasterRestart, rsVars
    <3>2. OneAckWaits'
      BY Zenon, <3>1 DEF OneAckWaits
    <3> QED
      BY ZenonT(60), <2>0, <3>1, <3>2, TaskPartsPrime DEF TasksOf, TasksRecorded, DownIdle
  <2> QED
    BY Zenon, <1>2, <2>0, <2>2, <2>3, <2>4, <2>5, <2>6, <2>7, NextCases, AcknowledgeTasks,
       ServerTasks, HandleAckTasks
<1> QED
  BY Zenon, <1>1, <1>2

LEMMA InitTasks == Init => TaskInv
<1> SUFFICES ASSUME Init PROVE TaskInv
  BY Zenon
<1>1. /\ up = Servers /\ acks = {}
      /\ \A s \in Servers : work[s] = {} /\ completed[s] = {} /\ rsmlTask[s] = {}
                            /\ immovable[s] = {}
  BY Zenon DEF Init
<1> QED
  BY Zenon, <1>1 DEF TaskInv

\* The inductive invariant of the acknowledge relinquish tasks.
THEOREM TaskInvariant == Spec => []TaskInv
<1>1. TypeInv /\ HandoverInv /\ TaskInv /\ [Next]_vars => TaskInv'
  BY Zenon, NextTasks DEF HandoverInv
<1>2. Spec => []TypeInv
  BY InitType, NextType, PTL DEF Spec
<1> QED
  BY <1>1, <1>2, HandoverInvariant, InitTasks, PTL DEF Spec

\* The immovable set, the work queue and the RSML's tasks agree on every running
\* server, in every execution in which no assertion has failed.
THEOREM ImmovableMatches == Spec => []ImmovableMatchesTasks
<1>1. TaskInv => ImmovableMatchesTasks
  BY Zenon DEF TaskInv, ImmovableMatchesTasks
<1> QED
  BY <1>1, TaskInvariant, PTL

=============================================================================
