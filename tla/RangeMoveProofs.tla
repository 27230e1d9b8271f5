--------------------------- MODULE RangeMoveProofs ---------------------------
(***************************************************************************)
(* Proofs about RangeMove, for every number of servers, ranges, loads and  *)
(* operations and every bound on the failures.                             *)
(***************************************************************************)
EXTENDS RangeMove, WellFoundedInduction, TLAPS

\* A non-empty set of operation ids has a least element: MasterRestart picks
\* the operation that the MML holds first.
LEMMA LeastOp ==
    ASSUME NEW S \in SUBSET OpIds, S # {}
    PROVE  \E o \in S : \A p \in S : o <= p
<1>1. S \subseteq Nat
  BY SMTT(60), ConstantsAssumption DEF OpIds
<1>2. PICK o \in S : \A p \in S : ~(<<p, o>> \in OpToRel(<, Nat))
  BY Zenon, <1>1, WFMin, NatLessThanWellFounded
<1>3. \A p \in S : ~(p < o)
  BY Zenon, <1>1, <1>2 DEF OpToRel
<1> QED
  BY SMTT(60), <1>1, <1>3

\* The operations that the reference manager holds are in memory.
RefsHeld == \A o \in refs : op[o] # None

TypeInv == TypeOK /\ RefsHeld

LEMMA InitType == Init => TypeInv
<1> SUFFICES ASSUME Init PROVE TypeInv
  BY Zenon
<1>1. 1 \in Ids /\ Ids \subseteq Nat
  BY SMTT(60), ConstantsAssumption DEF Ids
<1>2. live \in [Servers -> [Ranges -> LiveRange \cup {None}]]
  BY Zenon, <1>1 DEF Init, LiveRange, RangeStates
<1>3. rsml \in [Servers -> SUBSET RangeEntity]
  <2>1. \A r \in Ranges :
          [rng |-> r, state |-> "STEADY", id |-> 1, acked |-> TRUE] \in RangeEntity
    BY Zenon, <1>1 DEF RangeEntity, RangeStates
  <2> QED
    BY Zenon, <2>1 DEF Init
<1> QED
  BY Zenon, <1>1, <1>2, <1>3, ConstantsAssumption, BudgetAssumption
  DEF Init, TypeInv, TypeOK, RefsHeld, CallStates

\* The steps of the source server keep the types.
LEMMA RangeUpdate ==
    ASSUME NEW x \in LiveRange
    PROVE  /\ \A st \in RangeStates : [x EXCEPT !.state = st] \in LiveRange
           /\ [x EXCEPT !.acked = TRUE] \in LiveRange
           /\ [x EXCEPT !.relinquish = TRUE] \in LiveRange
BY Zenon DEF LiveRange

LEMMA MaintenanceType ==
    ASSUME TypeInv, NEW s \in Servers, NEW r \in Ranges, MaintenanceStep(s, r)
    PROVE  TypeInv'
<1> USE DEF TypeInv, TypeOK, RefsHeld, masterVars, netVars
<1>1. CASE RelinquishInstallLog(s, r)
  <2>1. live[s][r] \in LiveRange
    BY SMTT(60), <1>1 DEF RelinquishInstallLog
  <2>2. live' \in [Servers -> [Ranges -> LiveRange \cup {None}]]
    BY Zenon, <1>1, <2>1 DEF RelinquishInstallLog, LiveRange, RangeStates
  <2>3. [EntityOf(s, r) EXCEPT !.state = "RELINQUISH_LOG_INSTALLED"] \in RangeEntity
    BY Zenon, <2>1 DEF EntityOf, LiveRange, RangeEntity, RangeStates
  <2>4. rsml' \in [Servers -> SUBSET RangeEntity]
    BY Zenon, <1>1, <2>3 DEF RelinquishInstallLog, RecordRange, RemoveRange
  <2> QED
    BY Zenon, <1>1, <2>2, <2>4 DEF RelinquishInstallLog
<1>2. CASE RelinquishCompact(s, r)
  <2>1. live[s][r] \in LiveRange
    BY SMTT(60), <1>2 DEF RelinquishCompact
  <2>2. live' \in [Servers -> [Ranges -> LiveRange \cup {None}]]
    BY Zenon, <1>2, <2>1 DEF RelinquishCompact, LiveRange, RangeStates
  <2> QED
    BY Zenon, <1>2, <2>2 DEF RelinquishCompact
<1> QED
  BY Zenon, <1>1, <1>2 DEF MaintenanceStep


\* Updates of the records that the Master keeps.
LEMMA OperationUpdate ==
    ASSUME NEW x \in Operation
    PROVE  /\ [x EXCEPT !.event = FALSE] \in Operation
           /\ \A st \in OpStates : [x EXCEPT !.state = st] \in Operation
           /\ \A d \in Servers : [x EXCEPT !.dest = d] \in Operation
           /\ \A st \in OpStates, d \in Servers :
                [x EXCEPT !.state = st, !.dest = d] \in Operation
           /\ Persistent(x) \in Operation
BY Zenon DEF Operation, Persistent

LEMMA MessageUpdate ==
    /\ \A q \in Request : [q EXCEPT !.waiting = FALSE] \in Request
    /\ \A a \in Ack : /\ [a EXCEPT !.waiting = FALSE] \in Ack
                      /\ [a EXCEPT !.pc = "recorded"] \in Ack
BY Zenon DEF Request, Ack

LEMMA AddToWorkQueueType ==
    ASSUME TypeInv, NEW h \in Handover, AddToWorkQueue(h)
    PROVE  /\ work' \in [Servers -> SUBSET Handover]
           /\ immovable' \in [Servers -> SUBSET Ranges]
           /\ abort' \in Asserts \cup {None}
<1>1. h.src \in Servers /\ h.rng \in Ranges
  BY Zenon DEF Handover
<1>2. work' \in [Servers -> SUBSET Handover]
  BY SMTT(60), <1>1 DEF TypeInv, TypeOK, AddToWorkQueue
<1>3. immovable' \in [Servers -> SUBSET Ranges]
  BY SMTT(60), <1>1 DEF TypeInv, TypeOK, AddToWorkQueue
<1>4. abort' \in Asserts \cup {None}
  BY Zenon DEF TypeInv, TypeOK, AddToWorkQueue, Asserts
<1> QED
  BY Zenon, <1>2, <1>3, <1>4

LEMMA SendMoveRangeType ==
    ASSUME TypeInv, NEW h \in Handover, SendMoveRange(h)
    PROVE  TypeInv'
<1> USE DEF TypeInv, TypeOK, RefsHeld, SendMoveRange
<1>1. call' \in [Handover -> CallStates]
  BY Zenon DEF CallStates
<1>2. requests' \subseteq Request
  <2>1. [ho |-> h, waiting |-> TRUE] \in Request
    BY Zenon DEF Request
  <2> QED
    BY ZenonT(60), <2>1, MessageUpdate
<1>3. \A o \in OpIds : op[o] # None => [op[o] EXCEPT !.event = FALSE] \in Operation
  BY Zenon, OperationUpdate
<1>4. op' \in [OpIds -> Operation \cup {None}]
  BY Zenon, <1>3
<1>5. \A o \in OpIds : op[o] # None => op'[o] # None
  BY ZenonT(60), <1>3, NoneAssumption
<1> QED
  BY Zenon, <1>1, <1>2, <1>4, <1>5


LEMMA HandoverType ==
    ASSUME TypeInv, NEW h \in Handover,
           HandoverStep(h) \/ MoveRangeTimeout(h)
    PROVE  TypeInv'
<1> USE DEF TypeInv, TypeOK, RefsHeld, masterVars, netVars
<1>0. h.src \in Servers /\ h.rng \in Ranges /\ h.id \in Ids
  BY Zenon DEF Handover
<1>1. CASE MoveRange(h) \/ MoveRangeTimeout(h)
  BY Zenon, <1>1, SendMoveRangeType DEF MoveRange, MoveRangeTimeout
<1>2. CASE RelinquishRemove(h)
  <2>1. live' \in [Servers -> [Ranges -> LiveRange \cup {None}]]
    BY Zenon, <1>0, <1>2 DEF RelinquishRemove
  <2>2. call' \in [Handover -> CallStates]
    BY Zenon, <1>2 DEF RelinquishRemove, CallStates
  <2> QED
    BY Zenon, <1>2, <2>1, <2>2 DEF RelinquishRemove
<1>3. CASE RelinquishRecord(h)
  <2>1. rsml' \in [Servers -> SUBSET RangeEntity]
    BY Zenon, <1>0, <1>3 DEF RelinquishRecord, RemoveRange
  <2>2. rsmlTask' \in [Servers -> SUBSET Handover]
    BY Zenon, <1>0, <1>3 DEF RelinquishRecord
  <2>3. call' \in [Handover -> CallStates]
    BY Zenon, <1>3 DEF RelinquishRecord, CallStates
  <2>4. AddToWorkQueue(h)
    BY Zenon, <1>3 DEF RelinquishRecord
  <2> QED
    BY Zenon, <1>3, <2>1, <2>2, <2>3, <2>4, AddToWorkQueueType DEF RelinquishRecord
<1>4. CASE SplitRecord(h)
  <2>1. parent' \in [Ranges -> {"NONE", "SPLIT_SHRUNK", "STEADY"}]
    BY Zenon, <1>0, <1>4 DEF SplitRecord
  <2>2. rsmlTask' \in [Servers -> SUBSET Handover]
    BY Zenon, <1>0, <1>4 DEF SplitRecord
  <2>3. call' \in [Handover -> CallStates]
    BY Zenon, <1>4 DEF SplitRecord, CallStates
  <2>4. AddToWorkQueue(h)
    BY Zenon, <1>4 DEF SplitRecord
  <2> QED
    BY Zenon, <1>4, <2>1, <2>2, <2>3, <2>4, AddToWorkQueueType DEF SplitRecord
<1> QED
  BY Zenon, <1>1, <1>2, <1>3, <1>4 DEF HandoverStep

LEMMA AcknowledgeType ==
    ASSUME TypeInv, NEW h \in Handover,
           AcknowledgeRelinquish(h) \/ AcknowledgeTimeout(h)
    PROVE  TypeInv'
<1> USE DEF TypeInv, TypeOK, RefsHeld, rsVars, masterVars
<1>1. acks' \subseteq Ack
  <2>1. [ho |-> h, waiting |-> TRUE, pc |-> "start"] \in Ack
    BY Zenon DEF Ack
  <2>2. CASE AcknowledgeRelinquish(h)
    BY Zenon, <2>1, <2>2 DEF AcknowledgeRelinquish
  <2>3. CASE AcknowledgeTimeout(h)
    BY ZenonT(60), <2>3, MessageUpdate DEF AcknowledgeTimeout
  <2> QED
    BY Zenon, <2>2, <2>3
<1> QED
  BY Zenon, <1>1 DEF AcknowledgeRelinquish, AcknowledgeTimeout

LEMMA ServerType ==
    ASSUME TypeInv, NEW s \in Servers,
           RecordRemoval(s) \/ ServerRecover(s) \/ ServerCrash(s)
    PROVE  TypeInv'
<1> USE DEF TypeInv, TypeOK, RefsHeld, masterVars, netVars
<1>1. CASE RecordRemoval(s)
  <2>1. rsmlTask' \in [Servers -> SUBSET Handover]
    BY Zenon, <1>1 DEF RecordRemoval
  <2>2. completed' \in [Servers -> SUBSET Handover]
    BY Zenon, <1>1 DEF RecordRemoval
  <2> QED
    BY Zenon, <1>1, <2>1, <2>2 DEF RecordRemoval
<1>2. CASE ServerRecover(s)
  <2>1. \A r \in Ranges : ReplayedRange(s, r) \in LiveRange \cup {None}
    <3> SUFFICES ASSUME NEW r \in Ranges, \E x \in rsml[s] : x.rng = r
                 PROVE  ReplayedRange(s, r) \in LiveRange
      BY Zenon DEF ReplayedRange
    <3> DEFINE e == CHOOSE x \in rsml[s] : x.rng = r
    <3>1. e \in RangeEntity
      BY Zenon
    <3>2. ReplayedRange(s, r) = [state |-> e.state, id |-> e.id, acked |-> e.acked,
                                 relinquish |-> FALSE]
      BY Zenon DEF ReplayedRange
    <3> HIDE DEF e
    <3> QED
      BY SMTT(60), <3>1, <3>2 DEF RangeEntity, LiveRange
  <2>2. live' \in [Servers -> [Ranges -> LiveRange \cup {None}]]
    <3>1. [r \in Ranges |-> ReplayedRange(s, r)] \in [Ranges -> LiveRange \cup {None}]
      BY Zenon, <2>1
    <3>2. \/ live' = [live EXCEPT ![s] = [r \in Ranges |-> ReplayedRange(s, r)]]
          \/ live' = live
      BY Zenon, <1>2 DEF ServerRecover
    <3> QED
      BY Zenon, <3>1, <3>2
  <2>3. up' \subseteq Servers
    <3>1. up' = up \cup {s} \/ up' = up
      BY Zenon, <1>2 DEF ServerRecover
    <3> QED
      BY Zenon, <3>1
  <2>4. work' \in [Servers -> SUBSET Handover]
    <3>1. work' = [work EXCEPT ![s] = rsmlTask[s]] \/ work' = work
      BY Zenon, <1>2 DEF ServerRecover
    <3> QED
      BY Zenon, <3>1
  <2>5. \A h \in rsmlTask[s] : h.rng \in Ranges
    BY SMTT(60) DEF Handover
  <2>6. immovable' \in [Servers -> SUBSET Ranges]
    <3>1. {h.rng : h \in rsmlTask[s]} \subseteq Ranges
      BY SMTT(60), <2>5
    <3>2. \/ immovable' = [immovable EXCEPT ![s] = {h.rng : h \in rsmlTask[s]}]
          \/ immovable' = immovable
      BY Zenon, <1>2 DEF ServerRecover
    <3> QED
      BY Zenon, <3>1, <3>2
  <2>7. abort' \in Asserts \cup {None}
    BY Zenon, <1>2 DEF ServerRecover, RecoveryAssert, Asserts
  <2> QED
    BY Zenon, <1>2, <2>2, <2>3, <2>4, <2>6, <2>7 DEF ServerRecover
<1>3. CASE ServerCrash(s)
  <2> USE DEF ServerCrash
  <2>1. live' \in [Servers -> [Ranges -> LiveRange \cup {None}]]
    BY Zenon, <1>3
  <2>2. call' \in [Handover -> CallStates]
    BY Zenon, <1>3 DEF CallStates
  <2>3. requests' \subseteq Request
    BY SMTT(60), <1>3, MessageUpdate
  <2>8. acks' \subseteq Ack
    <3>1. \A a \in acks : a \in Ack /\ [a EXCEPT !.waiting = FALSE] \in Ack
      BY Zenon, MessageUpdate
    <3>2. acks' = {IF a.ho.src = s THEN [a EXCEPT !.waiting = FALSE] ELSE a : a \in acks}
      BY Zenon, <1>3
    <3> QED
      BY ONLY Zenon, <3>1, <3>2
  <2>4. \A o \in OpIds : op[o] # None => [op[o] EXCEPT !.event = FALSE] \in Operation
    BY Zenon, OperationUpdate
  <2>5. op' \in [OpIds -> Operation \cup {None}]
    BY Zenon, <1>3, <2>4
  <2>6. \A o \in OpIds : op[o] # None => op'[o] # None
    BY SMTT(60), <1>3, <2>4, NoneAssumption
  <2>7. left' \in [FailureKind -> Nat]
    BY SMTT(60), <1>3 DEF Spend, FailureKind
  <2> QED
    BY Zenon, <1>3, <2>1, <2>2, <2>3, <2>5, <2>6, <2>7, <2>8
<1> QED
  BY Zenon, <1>1, <1>2, <1>3


\* The steps of the Master keep the types.
LEMMA HashCodeType ==
    /\ \A h \in Handover : hash_code(h) \in HashCode
    /\ \A x \in Operation : decoded_hash_code(x) \in HashCode
BY SMTT(60), ConstantsAssumption
   DEF hash_code, decoded_hash_code, HashCode, Handover, Ids, Operation

LEMMA HandleMoveRangeType ==
    ASSUME TypeInv, NEW q \in requests, HandleMoveRange(q)
    PROVE  TypeInv'
<1> USE DEF TypeInv, TypeOK, RefsHeld
<1>1. q.ho \in Handover /\ q.waiting \in BOOLEAN
  BY Zenon DEF Request
<1>2. hash_code(q.ho) \in HashCode
  BY Zenon, <1>1, HashCodeType
<1>3. requests' \subseteq Request
  BY Zenon DEF HandleMoveRange
<1>4. CASE InProgress(q.ho)
  <2>1. call' \in [Handover -> CallStates]
    BY Zenon, <1>1, <1>4 DEF HandleMoveRange, CallStates
  <2> QED
    BY Zenon, <1>3, <1>4, <2>1 DEF HandleMoveRange
<1>5. CASE ~InProgress(q.ho)
  <2>1. lastOp + 1 \in OpIds
    BY SMTT(60), <1>5, ConstantsAssumption DEF HandleMoveRange, OpIds
  <2>2. [ho |-> q.ho, hash |-> hash_code(q.ho), state |-> "INITIAL", dest |-> None,
         approvals |-> {}, event |-> q.waiting, pc |-> "run", removeOk |-> FALSE]
           \in Operation
    BY Zenon, <1>1, <1>2 DEF Operation, OpStates
  <2>3. op' \in [OpIds -> Operation \cup {None}]
    BY Zenon, <1>5, <2>1, <2>2 DEF HandleMoveRange
  <2>4. moveOps' \in [HashCode -> OpIds \cup {0}]
    BY Zenon, <1>2, <1>5, <2>1 DEF HandleMoveRange
  <2>5. RefsHeld'
    <3>1. op'[lastOp + 1] # None
      BY Zenon, <1>5, <2>1, <2>2, NoneAssumption DEF HandleMoveRange
    <3>2. \A o \in OpIds : op[o] # None => op'[o] # None
      BY Zenon, <1>5, <2>1, <3>1 DEF HandleMoveRange
    <3>3. refs' = refs \cup {lastOp + 1}
      BY Zenon, <1>5 DEF HandleMoveRange
    <3> QED
      BY Zenon, <2>1, <3>1, <3>2, <3>3
  <2> QED
    BY SMTT(60), <1>3, <1>5, <2>1, <2>3, <2>4, <2>5 DEF HandleMoveRange
<1> QED
  BY Zenon, <1>4, <1>5

LEMMA LoadType ==
    ASSUME TypeInv, NEW s \in Servers, NEW r \in Ranges, Load(s, r)
    PROVE  /\ live' \in [Servers -> [Ranges -> LiveRange \cup {None}]]
           /\ rsml' \in [Servers -> SUBSET RangeEntity]
           /\ lastId' \in [Ranges -> Ids]
<1> USE DEF TypeInv, TypeOK
<1>1. lastId[r] + 1 \in Ids
  BY SMTT(60), ConstantsAssumption DEF Load, Ids
<1>2. lastId' \in [Ranges -> Ids]
  BY Zenon, <1>1 DEF Load
<1>3. [state |-> "STEADY", id |-> lastId[r] + 1, acked |-> FALSE, relinquish |-> FALSE]
        \in LiveRange
  BY Zenon, <1>1 DEF LiveRange, RangeStates
<1>4. live' \in [Servers -> [Ranges -> LiveRange \cup {None}]]
  BY Zenon, <1>3 DEF Load
<1>5. [rng |-> r, state |-> "STEADY", id |-> lastId[r] + 1, acked |-> FALSE] \in RangeEntity
  BY Zenon, <1>1 DEF RangeEntity, RangeStates
<1>6. rsml' \in [Servers -> SUBSET RangeEntity]
  BY Zenon, <1>5 DEF Load, RecordRange, RemoveRange
<1> QED
  BY Zenon, <1>2, <1>4, <1>6

LEMMA AcknowledgeLoadType ==
    ASSUME TypeInv, NEW s \in Servers, NEW r \in Ranges, AcknowledgeLoad(s, r)
    PROVE  /\ live' \in [Servers -> [Ranges -> LiveRange \cup {None}]]
           /\ rsml' \in [Servers -> SUBSET RangeEntity]
<1> USE DEF TypeInv, TypeOK
<1>1. CASE live[s][r] # None /\ ~live[s][r].acked
  <2>1. live[s][r] \in LiveRange
    BY SMTT(60), <1>1
  <2>2. live' = [live EXCEPT ![s][r].acked = TRUE]
    BY Zenon, <1>1 DEF AcknowledgeLoad
  <2>3. [live[s][r] EXCEPT !.acked = TRUE] \in LiveRange
    BY Zenon, <2>1, RangeUpdate
  <2>4. live' \in [Servers -> [Ranges -> LiveRange \cup {None}]]
    BY Zenon, <2>2, <2>3
  <2>5. [EntityOf(s, r) EXCEPT !.acked = TRUE] \in RangeEntity
    <3>1. EntityOf(s, r) \in RangeEntity
      BY Zenon, <2>1 DEF EntityOf, LiveRange, RangeEntity
    <3> QED
      BY ONLY Zenon, <3>1 DEF RangeEntity
  <2>6. rsml' = [rsml EXCEPT ![s] =
                   RecordRange(@, [EntityOf(s, r) EXCEPT !.acked = TRUE])]
    BY Zenon, <1>1 DEF AcknowledgeLoad
  <2>7. rsml' \in [Servers -> SUBSET RangeEntity]
    BY Zenon, <2>5, <2>6 DEF RecordRange, RemoveRange
  <2> QED
    BY Zenon, <2>4, <2>7
<1>2. CASE ~(live[s][r] # None /\ ~live[s][r].acked)
  BY Zenon, <1>2 DEF AcknowledgeLoad
<1> QED
  BY Zenon, <1>1, <1>2


\* An update of one operation that keeps its type.
LEMMA OpUpdateType ==
    ASSUME TypeInv, NEW o \in OpIds, NEW x \in Operation,
           op' = [op EXCEPT ![o] = x], refs' \subseteq refs
    PROVE  /\ op' \in [OpIds -> Operation \cup {None}]
           /\ RefsHeld'
<1>1. op' \in [OpIds -> Operation \cup {None}]
  BY Zenon DEF TypeInv, TypeOK
<1>2. \A p \in OpIds : op[p] # None => op'[p] # None
  BY Zenon, NoneAssumption DEF TypeInv, TypeOK
<1> QED
  BY Zenon, <1>1, <1>2 DEF TypeInv, TypeOK, RefsHeld

LEMMA RecordOperationType ==
    ASSUME TypeInv, NEW o \in OpIds, NEW x \in Operation, RecordOperation(o, x)
    PROVE  /\ mml' \in [OpIds -> Operation \cup {None}]
           /\ refs' \subseteq refs
<1>1. Persistent(x) \in Operation
  BY Zenon, OperationUpdate
<1> QED
  BY Zenon, <1>1 DEF RecordOperation, TypeInv, TypeOK

LEMMA SpendType ==
    ASSUME TypeInv, NEW kind \in FailureKind, Spend(kind)
    PROVE  left' \in [FailureKind -> Nat]
BY SMTT(60) DEF TypeInv, TypeOK, Spend

LEMMA OperationType ==
    ASSUME TypeInv, NEW o \in OpIds,
           OperationStep(o) \/ MoveLoadError(o) \/ MoveAcknowledgeError(o)
    PROVE  TypeInv'
<1> USE DEF TypeInv, TypeOK, rsVars, netVars
<1>0. /\ op[o] \in Operation
      /\ op[o].ho \in Handover /\ op[o].ho.rng \in Ranges /\ op[o].hash \in HashCode
      /\ op[o].dest \in Servers \cup {None}
  <2>1. op[o] # None
    BY Zenon DEF OperationStep, MoveInitial, MoveStarted, MoveLoad, MoveLoadError,
           MoveAcknowledge, MoveAcknowledgeError, MoveComplete, MoveLeave, Runs
  <2> QED
    BY Zenon, <2>1 DEF Operation, Handover
<1>1. CASE MoveInitial(o)
  <2>1. PICK d \in Destinations(op[o].ho.rng) :
          /\ op' = [op EXCEPT ![o].state = "STARTED", ![o].dest = d]
          /\ mml' = [mml EXCEPT ![o] = Persistent([op[o] EXCEPT !.state = "STARTED", !.dest = d])]
          /\ currentSet' = [currentSet EXCEPT ![op[o].ho.rng] = d]
    BY Zenon, <1>1 DEF MoveInitial
  <2>2. d \in Servers
    BY Zenon, <1>0 DEF Destinations
  <2> DEFINE x == [op[o] EXCEPT !.state = "STARTED", !.dest = d]
  <2>3. x \in Operation
    BY Zenon, <1>0, <2>2, OperationUpdate DEF OpStates
  <2>4. Persistent(x) \in Operation
    BY Zenon, <2>3, OperationUpdate
  <2>5. op' = [op EXCEPT ![o] = x]
    BY Zenon, <1>0, <2>1 DEF Operation
  <2>6. mml' \in [OpIds -> Operation \cup {None}]
    BY Zenon, <2>1, <2>4
  <2>7. currentSet' \in [Ranges -> Servers \cup {None}]
    BY Zenon, <1>0, <2>1, <2>2
  <2>8. refs' \subseteq refs
    BY Zenon, <1>1 DEF MoveInitial
  <2> HIDE DEF x
  <2> QED
    BY Zenon, <1>1, <2>3, <2>5, <2>6, <2>7, <2>8, OpUpdateType DEF MoveInitial
<1>2. CASE MoveStarted(o)
  <2> DEFINE x == [op[o] EXCEPT !.state = "LOAD_RANGE", !.event = FALSE]
  <2>1. x \in Operation
    BY Zenon, <1>0 DEF Operation, OpStates
  <2>2. op' = [op EXCEPT ![o] = x]
    BY Zenon, <1>2 DEF MoveStarted
  <2>3. call' \in [Handover -> CallStates]
    BY Zenon, <1>0, <1>2 DEF MoveStarted, CallStates
  <2>4. refs' \subseteq refs
    BY Zenon, <1>2 DEF MoveStarted
  <2> HIDE DEF x
  <2> QED
    BY Zenon, <1>2, <2>1, <2>2, <2>3, <2>4, OpUpdateType DEF MoveStarted
<1>3. CASE MoveLoad(o)
  <2> DEFINE x == [op[o] EXCEPT !.state = "ACKNOWLEDGE"]
  <2>1. x \in Operation /\ Persistent(x) \in Operation
    BY Zenon, <1>0, OperationUpdate DEF OpStates
  <2>2. op' = [op EXCEPT ![o] = x]
    BY Zenon, <1>3 DEF MoveLoad
  <2>3. mml' \in [OpIds -> Operation \cup {None}]
    BY Zenon, <1>3, <2>1 DEF MoveLoad
  <2>4. op[o].dest \in Servers
    BY Zenon, <1>3 DEF MoveLoad
  <2>5. /\ live' \in [Servers -> [Ranges -> LiveRange \cup {None}]]
        /\ rsml' \in [Servers -> SUBSET RangeEntity]
        /\ lastId' \in [Ranges -> Ids]
    BY Zenon, <1>0, <1>3, <2>4, LoadType DEF MoveLoad
  <2>6. refs' \subseteq refs
    BY Zenon, <1>3 DEF MoveLoad
  <2> HIDE DEF x
  <2> QED
    BY Zenon, <1>3, <2>1, <2>2, <2>3, <2>5, <2>6, OpUpdateType DEF MoveLoad
<1>4. CASE MoveLoadError(o)
  <2> DEFINE x == [op[o] EXCEPT !.state = "INITIAL"]
  <2>1. x \in Operation
    BY Zenon, <1>0, OperationUpdate DEF OpStates
  <2>2. op' = [op EXCEPT ![o] = x]
    BY Zenon, <1>4 DEF MoveLoadError
  <2>3. /\ live' \in [Servers -> [Ranges -> LiveRange \cup {None}]]
        /\ rsml' \in [Servers -> SUBSET RangeEntity]
        /\ lastId' \in [Ranges -> Ids]
    <3>1. CASE op[o].dest \in up /\ Load(op[o].dest, op[o].ho.rng)
      BY Zenon, <1>0, <3>1, LoadType
    <3>2. CASE UNCHANGED <<lastId, rsml, live>>
      BY Zenon, <3>2
    <3> QED
      BY Zenon, <1>4, <3>1, <3>2 DEF MoveLoadError
  <2>4. left' \in [FailureKind -> Nat]
    <3>1. CASE op[o].dest \in up
      BY Zenon, <1>4, <3>1, SpendType DEF MoveLoadError, FailureKind
    <3>2. CASE op[o].dest \notin up
      BY Zenon, <1>4, <3>2 DEF MoveLoadError
    <3> QED
      BY Zenon, <3>1, <3>2
  <2>5. refs' \subseteq refs
    BY Zenon, <1>4 DEF MoveLoadError
  <2> HIDE DEF x
  <2> QED
    BY Zenon, <1>4, <2>1, <2>2, <2>3, <2>4, <2>5, OpUpdateType DEF MoveLoadError
<1>5. CASE MoveAcknowledge(o)
  <2> DEFINE x == [op[o] EXCEPT !.approvals = @ \cup {2}, !.pc = "approved",
                                !.removeOk = 1 \in op[o].approvals]
  <2>1. x \in Operation
    <3>1. op[o].approvals \cup {2} \in SUBSET {1, 2}
      BY Zenon, <1>0 DEF Operation
    <3>2. (1 \in op[o].approvals) \in BOOLEAN
      BY SMTT(60)
    <3> QED
      BY Zenon, <1>0, <3>1, <3>2 DEF Operation
  <2>2. op' = [op EXCEPT ![o] = x]
    BY Zenon, <1>5 DEF MoveAcknowledge
  <2>3. /\ live' \in [Servers -> [Ranges -> LiveRange \cup {None}]]
        /\ rsml' \in [Servers -> SUBSET RangeEntity]
    BY Zenon, <1>0, <1>5, AcknowledgeLoadType DEF MoveAcknowledge
  <2>4. currentSet' \in [Ranges -> Servers \cup {None}]
    BY Zenon, <1>0, <1>5 DEF MoveAcknowledge
  <2>5. refs' \subseteq refs
    BY Zenon, <1>5 DEF MoveAcknowledge
  <2> HIDE DEF x
  <2> QED
    BY ZenonT(60), <1>5, <2>1, <2>2, <2>3, <2>4, <2>5, OpUpdateType DEF MoveAcknowledge
<1>6. CASE MoveAcknowledgeError(o)
  <2>1. PICK d \in Destinations(op[o].ho.rng) :
          /\ op' = [op EXCEPT ![o].dest = d]
          /\ currentSet' = [currentSet EXCEPT ![op[o].ho.rng] = d]
    BY Zenon, <1>6 DEF MoveAcknowledgeError
  <2>2. d \in Servers
    BY Zenon, <1>0 DEF Destinations
  <2> DEFINE x == [op[o] EXCEPT !.dest = d]
  <2>3. x \in Operation
    BY Zenon, <1>0, <2>2, OperationUpdate
  <2>4. op' = [op EXCEPT ![o] = x]
    BY Zenon, <2>1
  <2>5. /\ live' \in [Servers -> [Ranges -> LiveRange \cup {None}]]
        /\ rsml' \in [Servers -> SUBSET RangeEntity]
    <3>1. CASE op[o].dest \in up /\ AcknowledgeLoad(op[o].dest, op[o].ho.rng)
      BY Zenon, <1>0, <3>1, AcknowledgeLoadType
    <3>2. CASE UNCHANGED <<live, rsml>>
      BY Zenon, <3>2
    <3> QED
      BY Zenon, <1>6, <3>1, <3>2 DEF MoveAcknowledgeError
  <2>6. currentSet' \in [Ranges -> Servers \cup {None}]
    BY Zenon, <1>0, <2>1, <2>2
  <2>7. left' \in [FailureKind -> Nat]
    <3>1. CASE op[o].dest \in up
      BY Zenon, <1>6, <3>1, SpendType DEF MoveAcknowledgeError, FailureKind
    <3>2. CASE op[o].dest \notin up
      BY Zenon, <1>6, <3>2 DEF MoveAcknowledgeError
    <3> QED
      BY Zenon, <3>1, <3>2
  <2>8. refs' \subseteq refs
    BY Zenon, <1>6 DEF MoveAcknowledgeError
  <2> HIDE DEF x
  <2> QED
    BY Zenon, <1>6, <2>3, <2>4, <2>5, <2>6, <2>7, <2>8, OpUpdateType DEF MoveAcknowledgeError
<1>7. CASE MoveComplete(o)
  <2> DEFINE x == [op[o] EXCEPT !.state = "COMPLETE", !.pc = "recorded"]
  <2>1. x \in Operation
    BY Zenon, <1>0 DEF Operation, OpStates
  <2>2. op' = [op EXCEPT ![o] = x] /\ RecordOperation(o, x)
    BY Zenon, <1>7 DEF MoveComplete
  <2> HIDE DEF x
  <2>3. mml' \in [OpIds -> Operation \cup {None}] /\ refs' \subseteq refs
    BY Zenon, <2>1, <2>2, RecordOperationType
  <2> QED
    BY Zenon, <1>7, <2>1, <2>2, <2>3, OpUpdateType DEF MoveComplete
<1>8. CASE MoveLeave(o)
  <2>1. moveOps' \in [HashCode -> OpIds \cup {0}]
    BY Zenon, <1>0, <1>8 DEF MoveLeave, RemoveMoveOperation
  <2> DEFINE x == [op[o] EXCEPT !.pc = "run", !.removeOk = FALSE]
  <2>2. x \in Operation
    BY Zenon, <1>0 DEF Operation
  <2>3. op' = [op EXCEPT ![o] = IF o \in refs THEN x ELSE None]
    BY Zenon, <1>8 DEF MoveLeave
  <2> HIDE DEF x
  <2>4. op' \in [OpIds -> Operation \cup {None}]
    BY Zenon, <2>2, <2>3
  <2>5. \A p \in refs : op'[p] # None
    BY Zenon, <2>2, <2>3, NoneAssumption DEF RefsHeld
  <2> QED
    BY Zenon, <1>8, <2>1, <2>4, <2>5 DEF MoveLeave, RefsHeld
<1> QED
  BY Zenon, <1>1, <1>2, <1>3, <1>4, <1>5, <1>6, <1>7, <1>8 DEF OperationStep


LEMMA AckReplyType ==
    ASSUME TypeInv, NEW a \in Ack, AckReply(a)
    PROVE  /\ work' \in [Servers -> SUBSET Handover]
           /\ immovable' \in [Servers -> SUBSET Ranges]
           /\ completed' \in [Servers -> SUBSET Handover]
<1>1. a.ho \in Handover /\ a.ho.src \in Servers
  BY Zenon DEF Ack, Handover
<1>2. work' \in [Servers -> SUBSET Handover]
  BY SMTT(60), <1>1 DEF TypeInv, TypeOK, AckReply
<1>3. immovable' \in [Servers -> SUBSET Ranges]
  BY SMTT(60), <1>1 DEF TypeInv, TypeOK, AckReply
<1>4. completed' \in [Servers -> SUBSET Handover]
  BY SMTT(60), <1>1 DEF TypeInv, TypeOK, AckReply
<1> QED
  BY Zenon, <1>2, <1>3, <1>4

\* What HandleAck(a) does when it finds the operation o.
Approved(o) == [op[o] EXCEPT !.approvals = @ \cup {1}]

LEMMA HandleAckCases ==
    ASSUME NEW a, HandleAck(a), NEW o, o = moveOps[hash_code(a.ho)]
    PROVE  \/ /\ o = 0
              /\ AckReply(a)
              /\ acks' = acks \ {a}
              /\ UNCHANGED <<op, mml, refs, abort>>
           \/ /\ o # 0 /\ o \notin refs
              /\ abort' = "operation"
              /\ UNCHANGED <<work, immovable, completed, acks, op, mml, refs>>
           \/ /\ o # 0 /\ o \in refs
              /\ Approved(o).approvals = {1, 2}
              /\ RecordOperation(o, Approved(o))
              /\ op' = [op EXCEPT ![o] =
                          IF Approved(o).pc = "run" /\ Approved(o).state = "COMPLETE"
                          THEN None ELSE Approved(o)]
              /\ acks' = (acks \ {a}) \cup {[a EXCEPT !.pc = "recorded"]}
              /\ UNCHANGED <<work, immovable, completed, abort>>
           \/ /\ o # 0 /\ o \in refs
              /\ op' = [op EXCEPT ![o] = Approved(o)]
              /\ AckReply(a)
              /\ acks' = acks \ {a}
              /\ UNCHANGED <<mml, refs, abort>>
BY Zenon DEF HandleAck, Approved

LEMMA HandleAckType ==
    ASSUME TypeInv, NEW a \in acks, HandleAck(a) \/ FinishAck(a)
    PROVE  TypeInv'
<1> USE DEF TypeInv, TypeOK
<1>1. a \in Ack /\ a.ho \in Handover /\ hash_code(a.ho) \in HashCode
  BY Zenon, HashCodeType DEF Ack
<1>2. CASE FinishAck(a)
  <2>1. moveOps' \in [HashCode -> OpIds \cup {0}]
    BY Zenon, <1>1, <1>2 DEF FinishAck, RemoveMoveOperation
  <2>2. AckReply(a)
    BY Zenon, <1>2 DEF FinishAck
  <2> QED
    BY Zenon, <1>1, <1>2, <2>1, <2>2, AckReplyType DEF FinishAck, RefsHeld
<1>3. CASE HandleAck(a)
  <2> DEFINE o == moveOps[hash_code(a.ho)]
  <2>1. o \in OpIds \cup {0}
    BY Zenon, <1>1
  <2> HIDE DEF o
  <2>2. UNCHANGED <<up, live, rsml, parent, lastId, call, rsmlTask, requests, moveOps,
                    currentSet, balance, lastOp, left>>
    BY Zenon, <1>3 DEF HandleAck
  <2>3. CASE /\ o = 0
             /\ AckReply(a)
             /\ acks' = acks \ {a}
             /\ UNCHANGED <<op, mml, refs, abort>>
    BY Zenon, <1>1, <2>2, <2>3, AckReplyType DEF RefsHeld
  <2>4. CASE /\ o # 0 /\ o \notin refs
             /\ abort' = "operation"
             /\ UNCHANGED <<work, immovable, completed, acks, op, mml, refs>>
    BY Zenon, <2>2, <2>4 DEF Asserts, RefsHeld
  <2>5. ASSUME o # 0, o \in refs PROVE Approved(o) \in Operation
    <3>1. op[o] \in Operation
      BY Zenon, <2>1, <2>5 DEF RefsHeld
    <3>2. op[o].approvals \cup {1} \in SUBSET {1, 2}
      BY Zenon, <3>1 DEF Operation
    <3> QED
      BY Zenon, <3>1, <3>2 DEF Operation, Approved
  <2>6. CASE /\ o # 0 /\ o \in refs
             /\ Approved(o).approvals = {1, 2}
             /\ RecordOperation(o, Approved(o))
             /\ op' = [op EXCEPT ![o] =
                         IF Approved(o).pc = "run" /\ Approved(o).state = "COMPLETE"
                         THEN None ELSE Approved(o)]
             /\ acks' = (acks \ {a}) \cup {[a EXCEPT !.pc = "recorded"]}
             /\ UNCHANGED <<work, immovable, completed, abort>>
    <3>1. o \in OpIds /\ Approved(o) \in Operation
      BY Zenon, <2>1, <2>5, <2>6
    <3>2. mml' \in [OpIds -> Operation \cup {None}]
      BY Zenon, <2>6, <3>1, RecordOperationType
    <3>3. refs' = refs \ {o}
      BY Zenon, <2>6 DEF RecordOperation
    <3>4. op' \in [OpIds -> Operation \cup {None}]
      BY Zenon, <2>6, <3>1
    <3>5. RefsHeld'
      BY Zenon, <2>6, <3>1, <3>3 DEF RefsHeld
    <3>6. acks' \subseteq Ack
      BY ZenonT(60), <1>1, <2>6, MessageUpdate
    <3> QED
      BY Zenon, <2>2, <2>6, <3>2, <3>3, <3>4, <3>5, <3>6
  <2>7. CASE /\ o # 0 /\ o \in refs
             /\ op' = [op EXCEPT ![o] = Approved(o)]
             /\ AckReply(a)
             /\ acks' = acks \ {a}
             /\ UNCHANGED <<mml, refs, abort>>
    <3>1. o \in OpIds /\ Approved(o) \in Operation
      BY Zenon, <2>1, <2>5, <2>7
    <3>2. op' \in [OpIds -> Operation \cup {None}] /\ RefsHeld'
      BY Zenon, <2>7, <3>1, OpUpdateType
    <3> QED
      BY Zenon, <1>1, <2>2, <2>7, <3>2, AckReplyType
  <2> QED
    BY ZenonT(60), <1>3, <2>3, <2>4, <2>6, <2>7, HandleAckCases DEF o
<1> QED
  BY Zenon, <1>2, <1>3

BalanceStep ==
    \/ \E r \in Ranges, s, d \in Servers : BalanceRegister(r, s, d)
    \/ BalanceRelinquish
    \/ BalanceReply
    \/ BalanceError

LEMMA BalanceType ==
    ASSUME TypeInv, BalanceStep
    PROVE  TypeInv'
<1> USE DEF TypeInv, TypeOK, RefsHeld, rsVars, netVars
<1>1. ASSUME NEW r \in Ranges, NEW s \in Servers, NEW d \in Servers, BalanceRegister(r, s, d)
      PROVE  TypeInv'
  <2>1. currentSet' \in [Ranges -> Servers \cup {None}]
    BY Zenon, <1>1 DEF BalanceRegister
  <2>2. left' \in [FailureKind -> Nat]
    BY Zenon, <1>1, SpendType DEF BalanceRegister, FailureKind
  <2>3. balance' \in [rng : Ranges, src : Servers, handled : BOOLEAN]
    BY Zenon, <1>1 DEF BalanceRegister
  <2> QED
    BY Zenon, <1>1, <2>1, <2>2, <2>3 DEF BalanceRegister
<1>2. CASE BalanceRelinquish
  <2>1. balance \in [rng : Ranges, src : Servers, handled : BOOLEAN]
    BY Zenon, <1>2 DEF BalanceRelinquish
  <2>2. balance.src \in Servers /\ balance.rng \in Ranges
    BY Zenon, <2>1
  <2>3. [live[balance.src][balance.rng] EXCEPT !.relinquish = TRUE] \in LiveRange
    <3>1. live[balance.src][balance.rng] \in LiveRange
      BY SMTT(60), <1>2, <2>2 DEF BalanceRelinquish
    <3> QED
      BY Zenon, <3>1, RangeUpdate
  <2>4. live' = [live EXCEPT ![balance.src][balance.rng].relinquish = TRUE]
    BY Zenon, <1>2 DEF BalanceRelinquish
  <2>5. live' \in [Servers -> [Ranges -> LiveRange \cup {None}]]
    BY Zenon, <2>2, <2>3, <2>4
  <2>6. balance' \in [rng : Ranges, src : Servers, handled : BOOLEAN]
    BY Zenon, <1>2, <2>1 DEF BalanceRelinquish
  <2> QED
    BY Zenon, <1>2, <2>5, <2>6 DEF BalanceRelinquish
<1>3. CASE BalanceReply
  BY Zenon, <1>3 DEF BalanceReply
<1>4. CASE BalanceError
  <2>1. balance.rng \in Ranges
    BY Zenon, <1>4 DEF BalanceError
  <2>2. currentSet' \in [Ranges -> Servers \cup {None}]
    BY Zenon, <1>4, <2>1 DEF BalanceError
  <2>3. left' \in [FailureKind -> Nat]
    <3>1. CASE balance.handled
      BY Zenon, <1>4, <3>1, SpendType DEF BalanceError, FailureKind
    <3>2. CASE ~balance.handled
      BY Zenon, <1>4, <3>2 DEF BalanceError
    <3> QED
      BY Zenon, <3>1, <3>2
  <2> QED
    BY Zenon, <1>4, <2>2, <2>3 DEF BalanceError
<1> QED
  BY Zenon, <1>1, <1>2, <1>3, <1>4 DEF BalanceStep

LEMMA MasterRestartType ==
    ASSUME TypeInv, MasterRestart
    PROVE  TypeInv'
<1> USE DEF TypeInv, TypeOK, rsVars
<1>1. left' \in [FailureKind -> Nat]
  BY Zenon, SpendType DEF MasterRestart, FailureKind
<1>2. \A o \in OpIds : mml[o] # None =>
        [mml[o] EXCEPT !.hash = decoded_hash_code(mml[o])] \in Operation
  <2> SUFFICES ASSUME NEW x \in Operation
               PROVE  [x EXCEPT !.hash = decoded_hash_code(x)] \in Operation
    BY Zenon
  <2>1. decoded_hash_code(x) \in HashCode
    BY Zenon, HashCodeType
  <2> QED
    BY Zenon, <2>1 DEF Operation
<1>3. op' \in [OpIds -> Operation \cup {None}]
  BY Zenon, <1>2 DEF MasterRestart
<1>4. refs' \subseteq OpIds
  BY Zenon DEF MasterRestart
<1>5. RefsHeld'
  BY SMTT(60), <1>2, NoneAssumption DEF RefsHeld, MasterRestart
<1>6. moveOps' \in [HashCode -> OpIds \cup {0}]
  <2> DEFINE same(c) == {o \in OpIds : mml[o] # None /\ decoded_hash_code(mml[o]) = c}
             least(c) == IF same(c) = {} THEN 0
                         ELSE CHOOSE o \in same(c) : \A p \in same(c) : o <= p
  <2>1. \A c \in HashCode : least(c) \in OpIds \cup {0}
    <3> SUFFICES ASSUME NEW c \in HashCode, same(c) # {}
                 PROVE  (CHOOSE o \in same(c) : \A p \in same(c) : o <= p) \in same(c)
      BY Zenon
    <3>1. \E o \in same(c) : \A p \in same(c) : o <= p
      BY Zenon, LeastOp
    <3> HIDE DEF same
    <3> QED
      BY Zenon, <3>1
  <2>2. moveOps' = [c \in HashCode |-> least(c)]
    BY Zenon DEF MasterRestart
  <2> HIDE DEF least
  <2> QED
    BY Zenon, <2>1, <2>2
<1>7. currentSet' \in [Ranges -> Servers \cup {None}]
  BY Zenon DEF MasterRestart, DecodeCurrentSet
<1>8. balance' \in [rng : Ranges, src : Servers, handled : BOOLEAN] \cup {None}
  BY Zenon DEF MasterRestart
<1> QED
  BY Zenon, <1>1, <1>3, <1>4, <1>5, <1>6, <1>7, <1>8 DEF MasterRestart

\* A step of the specification is a step of one of these kinds.
LEMMA NextCases ==
    ASSUME Next
    PROVE  /\ Running
           /\ \/ \E s \in Servers, r \in Ranges : MaintenanceStep(s, r)
              \/ \E h \in Handover : HandoverStep(h) \/ MoveRangeTimeout(h)
              \/ \E h \in Handover : AcknowledgeRelinquish(h) \/ AcknowledgeTimeout(h)
              \/ \E s \in Servers : RecordRemoval(s) \/ ServerRecover(s) \/ ServerCrash(s)
              \/ \E q \in requests : HandleMoveRange(q)
              \/ \E o \in OpIds : OperationStep(o) \/ MoveLoadError(o) \/ MoveAcknowledgeError(o)
              \/ \E a \in acks : HandleAck(a) \/ FinishAck(a)
              \/ BalanceStep
              \/ MasterRestart
BY Zenon DEF Next, SourceNext, MasterNext, Failure, BalanceStep

LEMMA NextType == TypeInv /\ [Next]_vars => TypeInv'
<1> SUFFICES ASSUME TypeInv, [Next]_vars PROVE TypeInv'
  BY Zenon
<1>1. CASE Next
  BY Zenon, <1>1, NextCases, MaintenanceType, HandoverType, AcknowledgeType, ServerType,
     HandleMoveRangeType, OperationType, HandleAckType, BalanceType, MasterRestartType
<1>2. CASE UNCHANGED vars
  BY Zenon, <1>2 DEF vars, rsVars, masterVars, netVars, TypeInv, TypeOK, RefsHeld
<1> QED
  BY Zenon, <1>1, <1>2

\* Type correctness of the hand-over protocol, crashes and restarts of both
\* sides included; with it, no operation that the reference manager holds is
\* missing from the Master's memory.
THEOREM TypeCorrect == Spec => []TypeOK
<1>1. Spec => []TypeInv
  BY InitType, NextType, PTL DEF Spec
<1>2. TypeInv => TypeOK
  BY Zenon DEF TypeInv
<1> QED
  BY <1>1, <1>2, PTL

=============================================================================
