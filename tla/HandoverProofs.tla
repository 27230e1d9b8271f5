--------------------------- MODULE HandoverProofs ---------------------------
(***************************************************************************)
(* A copy of a range that was handed over does not come back: the proof of *)
(* HandedOverForGood from the inductive invariant HandoverInv.             *)
(***************************************************************************)
EXTENDS RangeMoveProofs

\* The operations in memory after a step are those before it, with no new
\* caller waiting behind any of them.
OpsOnlyAge ==
    \A o \in OpIds : op'[o] # None =>
        /\ op[o] # None
        /\ op'[o].ho = op[o].ho
        /\ op'[o].event => op[o].event

\* A step that changes no call and no request, and lets the operations age,
\* keeps OneWaiter.
LEMMA AgeingKeepsOneWaiter ==
    ASSUME OneWaiter, OpsOnlyAge, UNCHANGED <<call, requests>>,
           \A o \in OpIds : mml'[o] # None => ~mml'[o].event
    PROVE  OneWaiter'
<1>1. \A q \in requests' : q.waiting =>
        /\ call'[q.ho] = "waiting"
        /\ \A o \in OpIds : op'[o] # None /\ op'[o].ho = q.ho => ~op'[o].event
  BY SMTT(60) DEF OneWaiter, OpsOnlyAge
<1>2. \A o \in OpIds : op'[o] # None /\ op'[o].event =>
        /\ call'[op'[o].ho] = "waiting"
        /\ \A p \in OpIds : op'[p] # None /\ op'[p].ho = op'[o].ho /\ op'[p].event => p = o
  BY SMTT(60) DEF OneWaiter, OpsOnlyAge
<1> QED
  BY Zenon, <1>1, <1>2 DEF OneWaiter

\* A step that takes one hand-over, for which nobody waits, out of its call.
LEMMA LeavingKeepsOneWaiter ==
    ASSUME TypeInv, OneWaiter, NEW h \in Handover, call[h] # "waiting",
           NEW st, call' = [call EXCEPT ![h] = st], UNCHANGED <<requests, op, mml>>
    PROVE  OneWaiter'
<1>1. \A q \in requests : q.ho \in Handover
  BY Zenon DEF TypeInv, TypeOK, Request
<1>2. \A o \in OpIds : op[o] # None => op[o].ho \in Handover
  BY Zenon DEF TypeInv, TypeOK, Operation
<1>3. \A g \in Handover : call[g] = "waiting" => call'[g] = "waiting"
  BY Zenon DEF TypeInv, TypeOK
<1> QED
  BY Zenon, <1>1, <1>2, <1>3 DEF OneWaiter

LEMMA SendMoveRangeOneWaiter ==
    ASSUME TypeInv, OneWaiter, NEW h \in Handover, SendMoveRange(h)
    PROVE  OneWaiter'
<1> USE DEF TypeInv, TypeOK
<1>1. call'[h] = "waiting" /\ \A g \in Handover : g # h => call'[g] = call[g]
  BY Zenon DEF SendMoveRange
<1>2. \A o \in OpIds : op'[o] # None =>
        op[o] # None /\ op'[o].ho = op[o].ho /\ op'[o].ho \in Handover
  BY ZenonT(60) DEF SendMoveRange, Operation
<1>3. \A o \in OpIds : op'[o] # None =>
        /\ op[o].ho = h => op'[o].event = FALSE
        /\ op[o].ho # h => op'[o] = op[o]
  BY Zenon DEF SendMoveRange, Operation
<1>4. \A q \in requests' : q.ho = h \/ q \in requests
  BY SMTT(60) DEF SendMoveRange, Request
<1>5. \A q \in requests : q.ho \in Handover
  BY Zenon DEF Request
<1>6. \A q \in requests' : q.waiting =>
        /\ call'[q.ho] = "waiting"
        /\ \A o \in OpIds : op'[o] # None /\ op'[o].ho = q.ho => ~op'[o].event
  <2> SUFFICES ASSUME NEW q \in requests', q.waiting
               PROVE  /\ call'[q.ho] = "waiting"
                      /\ \A o \in OpIds : op'[o] # None /\ op'[o].ho = q.ho => ~op'[o].event
    BY Zenon
  <2>1. CASE q.ho = h
    BY Zenon, <1>1, <1>2, <1>3, <2>1
  <2>2. CASE q.ho # h
    BY SMTT(60), <1>1, <1>2, <1>3, <1>4, <1>5, <2>2 DEF OneWaiter
  <2> QED
    BY Zenon, <2>1, <2>2
<1>7. \A o \in OpIds : op'[o] # None /\ op'[o].event =>
        /\ call'[op'[o].ho] = "waiting"
        /\ \A p \in OpIds : op'[p] # None /\ op'[p].ho = op'[o].ho /\ op'[p].event => p = o
  <2>1. \A o \in OpIds : op'[o] # None /\ op'[o].event => op[o].ho # h /\ op'[o] = op[o]
    BY Zenon, <1>3
  <2> QED
    BY SMTT(60), <1>1, <1>2, <2>1 DEF OneWaiter
<1>8. mml' = mml
  BY Zenon DEF SendMoveRange
<1> QED
  BY Zenon, <1>6, <1>7, <1>8 DEF OneWaiter


LEMMA HandleMoveRangeOneWaiter ==
    ASSUME TypeInv, OneWaiter, NEW q \in requests, HandleMoveRange(q)
    PROVE  OneWaiter'
<1> USE DEF TypeInv, TypeOK
<1>1. /\ \A x \in requests : x.ho \in Handover
      /\ \A x \in requests : x.ho = q.ho /\ x.waiting /\ q.waiting => x = q
  BY SMTT(60) DEF Request
<1>2. \A o \in OpIds : op[o] # None => op[o].ho \in Handover
  BY Zenon DEF Operation
<1>3. requests' = requests \ {q} /\ mml' = mml
  BY Zenon DEF HandleMoveRange
<1>4. CASE InProgress(q.ho) /\ ~q.waiting
  <2>1. call' = call /\ op' = op
    BY Zenon, <1>4 DEF HandleMoveRange
  <2> QED
    BY Zenon, <1>3, <2>1 DEF OneWaiter
<1>5. CASE InProgress(q.ho) /\ q.waiting
  <2>1. op' = op /\ call' = [call EXCEPT ![q.ho] = "returned"]
    BY Zenon, <1>5 DEF HandleMoveRange
  <2>2. \A g \in Handover : g # q.ho => call'[g] = call[g]
    BY Zenon, <2>1
  <2>3. \A x \in requests' : x.waiting => x.ho # q.ho
    BY Zenon, <1>1, <1>3, <1>5
  <2>4. \A o \in OpIds : op[o] # None /\ op[o].event => op[o].ho # q.ho
    BY Zenon, <1>5 DEF OneWaiter
  <2> QED
    BY SMTT(60), <1>1, <1>2, <1>3, <2>1, <2>2, <2>3, <2>4 DEF OneWaiter
<1>6. CASE ~InProgress(q.ho)
  <2>1. lastOp + 1 \in OpIds
    BY SMTT(60), <1>6, ConstantsAssumption DEF HandleMoveRange, OpIds
  <2>2. call' = call
    BY Zenon, <1>6 DEF HandleMoveRange
  <2>3. /\ op'[lastOp + 1].ho = q.ho
        /\ op'[lastOp + 1].event = q.waiting
    BY SMTT(60), <1>6, <2>1 DEF HandleMoveRange
  <2>4. \A o \in OpIds : o # lastOp + 1 => op'[o] = op[o]
    BY Zenon, <1>6, <2>1 DEF HandleMoveRange
  <2>5. ASSUME q.waiting
        PROVE  /\ \A x \in requests' : x.waiting => x.ho # q.ho
               /\ \A o \in OpIds : op[o] # None /\ op[o].event => op[o].ho # q.ho
               /\ call[q.ho] = "waiting"
    BY Zenon, <1>1, <1>3, <2>5 DEF OneWaiter
  <2>6. \A x \in requests' : x.waiting =>
          /\ call'[x.ho] = "waiting"
          /\ \A o \in OpIds : op'[o] # None /\ op'[o].ho = x.ho => ~op'[o].event
    <3> SUFFICES ASSUME NEW x \in requests', x.waiting,
                        NEW o \in OpIds, op'[o] # None, op'[o].ho = x.ho
                 PROVE  ~op'[o].event
      BY Zenon, <1>3, <2>2 DEF OneWaiter
    <3>1. CASE o = lastOp + 1
      BY Zenon, <2>3, <2>5, <3>1
    <3>2. CASE o # lastOp + 1
      BY SMTT(60), <1>3, <2>4, <3>2 DEF OneWaiter
    <3> QED
      BY Zenon, <3>1, <3>2
  <2>7. \A o \in OpIds : op'[o] # None /\ op'[o].event =>
          /\ call'[op'[o].ho] = "waiting"
          /\ \A p \in OpIds : op'[p] # None /\ op'[p].ho = op'[o].ho /\ op'[p].event => p = o
    <3> SUFFICES ASSUME NEW o \in OpIds, op'[o] # None, op'[o].event
                 PROVE  /\ call[op'[o].ho] = "waiting"
                        /\ \A p \in OpIds : op'[p] # None /\ op'[p].ho = op'[o].ho
                                              /\ op'[p].event => p = o
      BY Zenon, <2>2
    <3>1. CASE o = lastOp + 1
      BY ZenonT(60), <2>3, <2>4, <2>5, <3>1
    <3>2. CASE o # lastOp + 1
      <4>1. op[o] # None /\ op[o].event /\ op'[o].ho = op[o].ho
        BY Zenon, <2>4, <3>2
      <4>2. ~(op'[lastOp + 1].event /\ op'[lastOp + 1].ho = op[o].ho)
        BY Zenon, <2>3, <2>5, <4>1
      <4> QED
        BY SMTT(60), <2>4, <4>1, <4>2 DEF OneWaiter
    <3> QED
      BY Zenon, <3>1, <3>2
  <2> QED
    BY Zenon, <1>3, <2>6, <2>7 DEF OneWaiter
<1> QED
  BY Zenon, <1>4, <1>5, <1>6

LEMMA RecordOperationEvents ==
    ASSUME TypeInv, OneWaiter, NEW o \in OpIds, NEW x \in Operation, RecordOperation(o, x)
    PROVE  \A p \in OpIds : mml'[p] # None => ~mml'[p].event
<1>1. Persistent(x).event = FALSE
  BY Zenon DEF Persistent, Operation
<1> QED
  BY ZenonT(60), <1>1 DEF RecordOperation, TypeInv, TypeOK, OneWaiter

\* An update of one operation that keeps its hand-over and adds no caller.
LEMMA OpUpdateAges ==
    ASSUME TypeInv, NEW o \in OpIds, op[o] # None,
           NEW x, x.ho = op[o].ho, x.event => op[o].event,
           op' = [op EXCEPT ![o] = x] \/ op' = [op EXCEPT ![o] = None]
    PROVE  OpsOnlyAge
BY Zenon DEF OpsOnlyAge, TypeInv, TypeOK

LEMMA OperationOneWaiter ==
    ASSUME TypeInv, OneWaiter, NEW o \in OpIds,
           OperationStep(o) \/ MoveLoadError(o) \/ MoveAcknowledgeError(o)
    PROVE  OneWaiter'
<1> USE DEF TypeInv, TypeOK
<1>0. op[o] # None /\ op[o] \in Operation
  <2>1. op[o] # None
    BY Zenon DEF OperationStep, MoveInitial, MoveStarted, MoveLoad, MoveLoadError,
           MoveAcknowledge, MoveAcknowledgeError, MoveComplete, MoveLeave, Runs
  <2> QED
    BY ZenonT(60), <2>1
<1>e. \A x \in Operation : Persistent(x) \in Operation /\ Persistent(x).event = FALSE
  BY ZenonT(60), OperationUpdate DEF Persistent, Operation
<1>1. CASE MoveInitial(o)
  <2>1. PICK d \in Destinations(op[o].ho.rng) :
          /\ op' = [op EXCEPT ![o].state = "STARTED", ![o].dest = d]
          /\ mml' = [mml EXCEPT ![o] = Persistent([op[o] EXCEPT !.state = "STARTED", !.dest = d])]
    BY Zenon, <1>1 DEF MoveInitial
  <2> DEFINE x == [op[o] EXCEPT !.state = "STARTED", !.dest = d]
  <2>2. op' = [op EXCEPT ![o] = x] /\ x.ho = op[o].ho /\ x.event = op[o].event
    BY Zenon, <1>0, <2>1 DEF Operation
  <2>3. Persistent(x).event = FALSE
    BY Zenon, <1>0 DEF Persistent, Operation
  <2>4. \A p \in OpIds : mml'[p] # None => ~mml'[p].event
    BY Zenon, <2>1, <2>3 DEF OneWaiter
  <2>5. UNCHANGED <<call, requests>>
    BY Zenon, <1>1 DEF MoveInitial, rsVars, netVars
  <2> HIDE DEF x
  <2> QED
    BY Zenon, <1>0, <2>2, <2>4, <2>5, OpUpdateAges, AgeingKeepsOneWaiter
<1>2. CASE MoveStarted(o)
  <2>1. op'[o].ho = op[o].ho /\ op'[o].event = FALSE
    BY Zenon, <1>0, <1>2 DEF MoveStarted, Operation
  <2>2. \A p \in OpIds : p # o => op'[p] = op[p]
    BY Zenon, <1>2 DEF MoveStarted
  <2>3. requests' = requests /\ mml' = mml
    BY Zenon, <1>2 DEF MoveStarted, netVars
  <2>4. OpsOnlyAge
    BY Zenon, <1>0, <2>1, <2>2 DEF OpsOnlyAge
  <2>5. CASE ~op[o].event
    <3>1. call' = call
      BY Zenon, <1>2, <2>5 DEF MoveStarted
    <3> QED
      BY Zenon, <2>3, <2>4, <3>1, AgeingKeepsOneWaiter DEF OneWaiter
  <2>6. CASE op[o].event
    <3>1. \A g \in Handover : g # op[o].ho => call'[g] = call[g]
      BY Zenon, <1>2, <2>6 DEF MoveStarted
    <3>2. \A q \in requests : q.waiting => q.ho \in Handover /\ q.ho # op[o].ho
      BY Zenon, <1>0, <2>6 DEF OneWaiter, Request
    <3>3. \A p \in OpIds : op'[p] # None /\ op'[p].event =>
            p # o /\ op[p].ho \in Handover /\ op[p].ho # op[o].ho
      <4>1. \A p \in OpIds : op'[p] # None /\ op'[p].event => p # o /\ op'[p] = op[p]
        BY Zenon, <2>1, <2>2
      <4>2. \A p \in OpIds : op[p] # None => op[p].ho \in Handover
        BY Zenon DEF Operation
      <4> QED
        BY ZenonT(60), <1>0, <2>6, <4>1, <4>2 DEF OneWaiter
    <3>4. \A q \in requests' : q.waiting =>
            /\ call'[q.ho] = "waiting"
            /\ \A p \in OpIds : op'[p] # None /\ op'[p].ho = q.ho => ~op'[p].event
      <4> SUFFICES ASSUME NEW q \in requests, q.waiting
                   PROVE  /\ call'[q.ho] = "waiting"
                          /\ \A p \in OpIds : op'[p] # None /\ op'[p].ho = q.ho => ~op'[p].event
        BY Zenon, <2>3
      <4>1. call'[q.ho] = "waiting"
        BY Zenon, <3>1, <3>2 DEF OneWaiter
      <4>2. \A p \in OpIds : op[p] # None /\ op[p].ho = q.ho => ~op[p].event
        BY Zenon DEF OneWaiter
      <4> QED
        BY Zenon, <2>4, <4>1, <4>2 DEF OpsOnlyAge
    <3>5. \A p \in OpIds : op'[p] # None /\ op'[p].event =>
            /\ call'[op'[p].ho] = "waiting"
            /\ \A k \in OpIds : op'[k] # None /\ op'[k].ho = op'[p].ho /\ op'[k].event => k = p
      <4> SUFFICES ASSUME NEW p \in OpIds, op'[p] # None, op'[p].event
                   PROVE  /\ call'[op'[p].ho] = "waiting"
                          /\ \A k \in OpIds : op'[k] # None /\ op'[k].ho = op'[p].ho
                                                /\ op'[k].event => k = p
        BY Zenon
      <4>1. op[p] # None /\ op[p].event /\ op'[p].ho = op[p].ho
        BY Zenon, <2>4 DEF OpsOnlyAge
      <4>2. /\ call[op[p].ho] = "waiting"
            /\ \A k \in OpIds : op[k] # None /\ op[k].ho = op[p].ho /\ op[k].event => k = p
        BY Zenon, <4>1 DEF OneWaiter
      <4>3. call'[op[p].ho] = "waiting"
        BY Zenon, <3>1, <3>3, <4>2
      <4> QED
        BY Zenon, <2>4, <4>1, <4>2, <4>3 DEF OpsOnlyAge
    <3> QED
      BY Zenon, <2>3, <3>4, <3>5 DEF OneWaiter
  <2> QED
    BY Zenon, <2>5, <2>6
<1>3. CASE MoveLoad(o)
  <2> DEFINE x == [op[o] EXCEPT !.state = "ACKNOWLEDGE"]
  <2>1. op' = [op EXCEPT ![o] = x] /\ x.ho = op[o].ho /\ x.event = op[o].event
    BY Zenon, <1>0, <1>3 DEF MoveLoad, Operation
  <2>2. Persistent(x).event = FALSE
    BY Zenon, <1>0 DEF Persistent, Operation
  <2>3. \A p \in OpIds : mml'[p] # None => ~mml'[p].event
    BY Zenon, <1>3, <2>2 DEF MoveLoad, OneWaiter
  <2>4. UNCHANGED <<call, requests>>
    BY Zenon, <1>3 DEF MoveLoad, netVars
  <2> HIDE DEF x
  <2> QED
    BY Zenon, <1>0, <2>1, <2>3, <2>4, OpUpdateAges, AgeingKeepsOneWaiter
<1>4. CASE MoveLoadError(o)
  <2> DEFINE x == [op[o] EXCEPT !.state = "INITIAL"]
  <2>1. op' = [op EXCEPT ![o] = x] /\ x.ho = op[o].ho /\ x.event = op[o].event
    BY Zenon, <1>0, <1>4 DEF MoveLoadError, Operation
  <2>2. UNCHANGED <<call, requests, mml>>
    BY Zenon, <1>4 DEF MoveLoadError, netVars
  <2> HIDE DEF x
  <2> QED
    BY Zenon, <1>0, <2>1, <2>2, OpUpdateAges, AgeingKeepsOneWaiter DEF OneWaiter
<1>5. CASE MoveAcknowledge(o)
  <2> DEFINE x == [op[o] EXCEPT !.approvals = @ \cup {2}, !.pc = "approved",
                                !.removeOk = 1 \in op[o].approvals]
  <2>1. op' = [op EXCEPT ![o] = x] /\ x.ho = op[o].ho /\ x.event = op[o].event
    BY ZenonT(60), <1>0, <1>5 DEF MoveAcknowledge, Operation
  <2>2. UNCHANGED <<call, requests, mml>>
    BY Zenon, <1>5 DEF MoveAcknowledge, netVars
  <2> HIDE DEF x
  <2> QED
    BY Zenon, <1>0, <2>1, <2>2, OpUpdateAges, AgeingKeepsOneWaiter DEF OneWaiter
<1>6. CASE MoveAcknowledgeError(o)
  <2>1. PICK d \in Destinations(op[o].ho.rng) : op' = [op EXCEPT ![o].dest = d]
    BY ZenonT(60), <1>6 DEF MoveAcknowledgeError
  <2> DEFINE x == [op[o] EXCEPT !.dest = d]
  <2>2. op' = [op EXCEPT ![o] = x] /\ x.ho = op[o].ho /\ x.event = op[o].event
    BY Zenon, <1>0, <2>1 DEF Operation
  <2>3. UNCHANGED <<call, requests, mml>>
    BY Zenon, <1>6 DEF MoveAcknowledgeError, netVars
  <2> HIDE DEF x
  <2> QED
    BY Zenon, <1>0, <2>2, <2>3, OpUpdateAges, AgeingKeepsOneWaiter DEF OneWaiter
<1>7. CASE MoveComplete(o)
  <2> DEFINE x == [op[o] EXCEPT !.state = "COMPLETE", !.pc = "recorded"]
  <2>1. op' = [op EXCEPT ![o] = x] /\ x.ho = op[o].ho /\ x.event = op[o].event
    BY Zenon, <1>0, <1>7 DEF MoveComplete, Operation
  <2>2. x \in Operation /\ RecordOperation(o, x)
    BY Zenon, <1>0, <1>7 DEF MoveComplete, Operation, OpStates
  <2>3. UNCHANGED <<call, requests>>
    BY Zenon, <1>7 DEF MoveComplete, rsVars, netVars
  <2> HIDE DEF x
  <2> QED
    BY Zenon, <1>0, <2>1, <2>2, <2>3, RecordOperationEvents, OpUpdateAges, AgeingKeepsOneWaiter
<1>8. CASE MoveLeave(o)
  <2> DEFINE x == [op[o] EXCEPT !.pc = "run", !.removeOk = FALSE]
  <2>1. x.ho = op[o].ho /\ x.event = op[o].event
    BY Zenon, <1>0 DEF Operation
  <2>2. op' = [op EXCEPT ![o] = x] \/ op' = [op EXCEPT ![o] = None]
    BY Zenon, <1>8 DEF MoveLeave
  <2>3. UNCHANGED <<call, requests, mml>>
    BY Zenon, <1>8 DEF MoveLeave, rsVars, netVars
  <2> HIDE DEF x
  <2> QED
    BY Zenon, <1>0, <2>1, <2>2, <2>3, OpUpdateAges, AgeingKeepsOneWaiter DEF OneWaiter
<1> QED
  BY Zenon, <1>1, <1>2, <1>3, <1>4, <1>5, <1>6, <1>7, <1>8 DEF OperationStep


LEMMA HandleAckOneWaiter ==
    ASSUME TypeInv, OneWaiter, NEW a \in acks, HandleAck(a) \/ FinishAck(a)
    PROVE  OneWaiter'
<1>1. CASE FinishAck(a)
  BY Zenon, <1>1 DEF FinishAck, OneWaiter
<1>2. CASE HandleAck(a)
  <2> DEFINE o == moveOps[hash_code(a.ho)]
  <2>1. o \in OpIds \cup {0}
    BY Zenon, HashCodeType DEF TypeInv, TypeOK, Ack
  <2>2. UNCHANGED <<call, requests>>
    BY Zenon, <1>2 DEF HandleAck
  <2> HIDE DEF o
  <2>3. CASE UNCHANGED <<op, mml>>
    BY Zenon, <2>2, <2>3 DEF OneWaiter
  <2>4. ASSUME o # 0, o \in refs
        PROVE  /\ o \in OpIds /\ op[o] # None /\ Approved(o) \in Operation
               /\ Approved(o).ho = op[o].ho /\ Approved(o).event = op[o].event
    <3>1. o \in OpIds /\ op[o] # None /\ op[o] \in Operation
      BY Zenon, <2>1, <2>4 DEF TypeInv, TypeOK, RefsHeld
    <3>2. op[o].approvals \cup {1} \in SUBSET {1, 2}
      BY Zenon, <3>1 DEF Operation
    <3> QED
      BY Zenon, <3>1, <3>2 DEF Operation, Approved
  <2>5. CASE /\ o # 0 /\ o \in refs
             /\ RecordOperation(o, Approved(o))
             /\ op' = [op EXCEPT ![o] = Approved(o)] \/ op' = [op EXCEPT ![o] = None]
    <3>1. OpsOnlyAge
      BY Zenon, <2>4, <2>5, OpUpdateAges
    <3>2. \A p \in OpIds : mml'[p] # None => ~mml'[p].event
      BY Zenon, <2>4, <2>5, RecordOperationEvents
    <3> QED
      BY Zenon, <2>2, <3>1, <3>2, AgeingKeepsOneWaiter
  <2>6. CASE /\ o # 0 /\ o \in refs
             /\ op' = [op EXCEPT ![o] = Approved(o)]
             /\ UNCHANGED mml
    <3>1. OpsOnlyAge
      BY Zenon, <2>4, <2>6, OpUpdateAges
    <3>2. \A p \in OpIds : mml'[p] # None => ~mml'[p].event
      BY Zenon, <2>6 DEF OneWaiter
    <3> QED
      BY Zenon, <2>2, <3>1, <3>2, AgeingKeepsOneWaiter
  <2> QED
    BY Zenon, <1>2, <2>3, <2>5, <2>6, HandleAckCases DEF o
<1> QED
  BY Zenon, <1>1, <1>2

LEMMA ServerCrashOneWaiter ==
    ASSUME TypeInv, OneWaiter, NEW s \in Servers, ServerCrash(s)
    PROVE  OneWaiter'
<1> USE DEF TypeInv, TypeOK
<1>1. \A g \in Handover : g.src # s => call'[g] = call[g]
  BY Zenon DEF ServerCrash
<1>2. \A q \in requests' : q.waiting => q \in requests /\ q.ho \in Handover /\ q.ho.src # s
  <2>1. \A q \in requests : [q EXCEPT !.waiting = FALSE].waiting = FALSE
    BY Zenon DEF Request
  <2>2. requests' = {IF q.ho.src = s THEN [q EXCEPT !.waiting = FALSE] ELSE q : q \in requests}
    BY Zenon DEF ServerCrash
  <2>3. \A q \in requests : q.ho \in Handover
    BY Zenon DEF Request
  <2> QED
    BY ONLY Zenon, <2>1, <2>2, <2>3
<1>3. \A o \in OpIds : op'[o] # None =>
        /\ op[o] # None /\ op'[o].ho = op[o].ho /\ op[o].ho \in Handover
        /\ op[o].ho.src = s => op'[o].event = FALSE
        /\ op[o].ho.src # s => op'[o] = op[o]
  BY Zenon DEF ServerCrash, Operation
<1>4. mml' = mml
  BY Zenon DEF ServerCrash
<1>5. \A q \in requests' : q.waiting =>
        /\ call'[q.ho] = "waiting"
        /\ \A o \in OpIds : op'[o] # None /\ op'[o].ho = q.ho => ~op'[o].event
  <2> SUFFICES ASSUME NEW q \in requests', q.waiting
               PROVE  /\ call'[q.ho] = "waiting"
                      /\ \A o \in OpIds : op'[o] # None /\ op'[o].ho = q.ho => ~op'[o].event
    BY Zenon
  <2>1. /\ call[q.ho] = "waiting"
        /\ \A o \in OpIds : op[o] # None /\ op[o].ho = q.ho => ~op[o].event
    BY Zenon, <1>2 DEF OneWaiter
  <2> QED
    BY Zenon, <1>1, <1>2, <1>3, <2>1
<1>6. \A o \in OpIds : op'[o] # None /\ op'[o].event => op'[o] = op[o] /\ op[o].ho.src # s
  BY Zenon, <1>3
<1>7. \A o \in OpIds : op'[o] # None /\ op'[o].event =>
        /\ call'[op'[o].ho] = "waiting"
        /\ \A p \in OpIds : op'[p] # None /\ op'[p].ho = op'[o].ho /\ op'[p].event => p = o
  BY SMTT(60), <1>1, <1>3, <1>6 DEF OneWaiter
<1> QED
  BY Zenon, <1>4, <1>5, <1>7 DEF OneWaiter

LEMMA MasterRestartOneWaiter ==
    ASSUME TypeInv, OneWaiter, MasterRestart
    PROVE  OneWaiter'
<1>1. requests' = {} /\ mml' = mml
  BY Zenon DEF MasterRestart
<1>2. \A o \in OpIds : op'[o] # None => ~op'[o].event
  <2> SUFFICES ASSUME NEW o \in OpIds, op'[o] # None PROVE op'[o].event = FALSE
    BY Zenon
  <2>1. mml[o] \in Operation /\ op'[o] = [mml[o] EXCEPT !.hash = decoded_hash_code(mml[o])]
    BY Zenon DEF MasterRestart, TypeInv, TypeOK
  <2>2. op'[o].event = mml[o].event
    BY Zenon, <2>1 DEF Operation
  <2>3. mml[o].event \in BOOLEAN /\ ~mml[o].event
    BY ZenonT(60), <2>1, NoneAssumption DEF Operation, OneWaiter
  <2> QED
    BY Zenon, <2>2, <2>3
<1> QED
  BY Zenon, <1>1, <1>2 DEF OneWaiter

LEMMA NextOneWaiter == TypeInv /\ OneWaiter /\ [Next]_vars => OneWaiter'
<1> SUFFICES ASSUME TypeInv, OneWaiter, [Next]_vars PROVE OneWaiter'
  BY Zenon
<1>1. ASSUME UNCHANGED <<call, requests, op, mml>> PROVE OneWaiter'
  BY Zenon, <1>1 DEF OneWaiter
<1>2. ASSUME NEW s \in Servers, NEW r \in Ranges, MaintenanceStep(s, r) PROVE OneWaiter'
  BY Zenon, <1>1, <1>2 DEF MaintenanceStep, RelinquishInstallLog, RelinquishCompact, masterVars, netVars
<1>3. ASSUME NEW h \in Handover, HandoverStep(h) \/ MoveRangeTimeout(h) PROVE OneWaiter'
  <2>1. CASE MoveRange(h) \/ MoveRangeTimeout(h)
    BY Zenon, <2>1, SendMoveRangeOneWaiter DEF MoveRange, MoveRangeTimeout
  <2>2. CASE RelinquishRemove(h)
    BY Zenon, <2>2, LeavingKeepsOneWaiter DEF RelinquishRemove, Reported, masterVars, netVars
  <2>3. CASE RelinquishRecord(h)
    BY Zenon, <2>3, LeavingKeepsOneWaiter DEF RelinquishRecord, masterVars, netVars
  <2>4. CASE SplitRecord(h)
    BY Zenon, <2>4, LeavingKeepsOneWaiter DEF SplitRecord, Reported, masterVars, netVars
  <2> QED
    BY Zenon, <1>3, <2>1, <2>2, <2>3, <2>4 DEF HandoverStep
<1>4. ASSUME NEW h \in Handover, AcknowledgeRelinquish(h) \/ AcknowledgeTimeout(h)
      PROVE  OneWaiter'
  BY Zenon, <1>1, <1>4 DEF AcknowledgeRelinquish, AcknowledgeTimeout, rsVars, masterVars
<1>5. ASSUME NEW s \in Servers, RecordRemoval(s) \/ ServerRecover(s) \/ ServerCrash(s)
      PROVE  OneWaiter'
  <2>1. CASE RecordRemoval(s) \/ ServerRecover(s)
    BY Zenon, <1>1, <2>1 DEF RecordRemoval, ServerRecover, masterVars, netVars
  <2> QED
    BY Zenon, <1>5, <2>1, ServerCrashOneWaiter
<1>6. CASE BalanceStep
  BY Zenon, <1>1, <1>6 DEF BalanceStep, BalanceRegister, BalanceRelinquish, BalanceReply,
                    BalanceError, rsVars, netVars
<1>7. CASE Next
  BY Zenon, <1>2, <1>3, <1>4, <1>5, <1>6, <1>7, NextCases, HandleMoveRangeOneWaiter,
     OperationOneWaiter, HandleAckOneWaiter, MasterRestartOneWaiter
<1>8. CASE UNCHANGED vars
  BY ZenonT(60), <1>1, <1>8 DEF vars, rsVars, masterVars, netVars
<1> QED
  BY Zenon, <1>7, <1>8


-----------------------------------------------------------------------------
(* The copies of the ranges *)

\* A step after which every RSML holds the same copies as before, perhaps in
\* another state, and no live map has gained one.
SameCopies ==
    /\ \A s \in Servers : \A e \in rsml'[s] : \E f \in rsml[s] : f.rng = e.rng /\ f.id = e.id
    /\ \A s \in Servers : \A e \in rsml[s] : \E f \in rsml'[s] : f.rng = e.rng /\ f.id = e.id
    /\ \A s \in Servers, r \in Ranges : live'[s][r] # None =>
         live[s][r] # None /\ live'[s][r].id = live[s][r].id

LEMMA SameCopiesRecorded ==
    ASSUME CopiesRecorded, SameCopies, UNCHANGED <<up, parent, lastId>>
    PROVE  CopiesRecorded'
<1>1. \A s \in Servers : \A e \in rsml'[s] : e.id <= lastId'[e.rng]
  BY SMTT(60) DEF CopiesRecorded, SameCopies
<1>2. \A s \in Servers, r \in Ranges : live'[s][r] # None =>
        /\ s \in up'
        /\ \E e \in rsml'[s] : e.rng = r /\ e.id = live'[s][r].id
  <2> SUFFICES ASSUME NEW s \in Servers, NEW r \in Ranges, live'[s][r] # None
               PROVE  s \in up /\ \E e \in rsml'[s] : e.rng = r /\ e.id = live'[s][r].id
    BY Zenon
  <2>1. PICK f \in rsml[s] : f.rng = r /\ f.id = live[s][r].id
    BY ZenonT(60) DEF CopiesRecorded, SameCopies
  <2> QED
    BY SMTT(60), <2>1 DEF CopiesRecorded, SameCopies
<1>3. \A r \in Ranges : parent'[r] = "SPLIT_SHRUNK" =>
        \A e \in rsml'[Home[r]] : e.rng = r => e.id # 1
  BY SMTT(60), ConstantsAssumption DEF CopiesRecorded, SameCopies
<1> QED
  BY Zenon, <1>1, <1>2, <1>3 DEF CopiesRecorded

LEMMA SameCopiesCalls ==
    ASSUME CallsRecorded, SameCopies, UNCHANGED <<up, lastId, call>>
    PROVE  CallsRecorded'
<1> SUFFICES ASSUME NEW h \in Handover
             PROVE  /\ call[h] \in {"removed", "done"} =>
                         /\ h.id <= lastId[h.rng]
                         /\ live'[h.src][h.rng] # None => live'[h.src][h.rng].id # h.id
                    /\ call[h] = "done" => \A e \in rsml'[h.src] : e.rng = h.rng => e.id # h.id
                    /\ h.src \notin up => call[h] \in {"idle", "done"}
  BY Zenon DEF CallsRecorded
<1>1. h.src \in Servers /\ h.rng \in Ranges
  BY Zenon DEF Handover
<1> QED
  BY SMTT(60), <1>1 DEF CallsRecorded, SameCopies

\* Recording the live copy of r in the RSML of s, in whatever state.
LEMMA RecordKeepsCopies ==
    ASSUME TypeInv, CopiesRecorded, NEW s \in Servers, NEW r \in Ranges, live[s][r] # None,
           NEW e, e.rng = r, e.id = live[s][r].id,
           rsml' = [rsml EXCEPT ![s] = RecordRange(@, e)],
           \A t \in Servers, q \in Ranges : live'[t][q] # None =>
             live[t][q] # None /\ live'[t][q].id = live[t][q].id
    PROVE  SameCopies
<1>1. rsml'[s] = {x \in rsml[s] : x.rng # r \/ x.id # e.id} \cup {e}
  BY Zenon DEF TypeInv, TypeOK, RecordRange, RemoveRange
<1>2. \A t \in Servers : t # s => rsml'[t] = rsml[t]
  BY Zenon DEF TypeInv, TypeOK
<1>3. \E f \in rsml[s] : f.rng = e.rng /\ f.id = e.id
  BY SMTT(60) DEF CopiesRecorded
<1>4. \A x \in rsml'[s] : \E f \in rsml[s] : f.rng = x.rng /\ f.id = x.id
  BY Zenon, <1>1, <1>3
<1>5. \A x \in rsml[s] : \E f \in rsml'[s] : f.rng = x.rng /\ f.id = x.id
  BY Zenon, <1>1
<1> QED
  BY ZenonT(60), <1>2, <1>4, <1>5 DEF SameCopies

LEMMA MaintenanceCopies ==
    ASSUME TypeInv, CopiesRecorded, NEW s \in Servers, NEW r \in Ranges, MaintenanceStep(s, r)
    PROVE  SameCopies
<1> USE DEF TypeInv, TypeOK
<1>0. live[s][r] # None /\ live[s][r] \in LiveRange
  BY SMTT(60) DEF MaintenanceStep, RelinquishInstallLog, RelinquishCompact
<1>1. \A t \in Servers, q \in Ranges : live'[t][q] # None =>
        live[t][q] # None /\ live'[t][q].id = live[t][q].id
  <2>1. PICK st : live' = [live EXCEPT ![s][r].state = st]
    BY Zenon DEF MaintenanceStep, RelinquishInstallLog, RelinquishCompact
  <2> QED
    BY Zenon, <1>0, <2>1 DEF LiveRange
<1>2. CASE RelinquishInstallLog(s, r)
  <2> DEFINE e == [EntityOf(s, r) EXCEPT !.state = "RELINQUISH_LOG_INSTALLED"]
  <2>1. e.rng = r /\ e.id = live[s][r].id
    BY ZenonT(60) DEF EntityOf
  <2>2. rsml' = [rsml EXCEPT ![s] = RecordRange(@, e)]
    BY Zenon, <1>2 DEF RelinquishInstallLog
  <2> HIDE DEF e
  <2> QED
    BY Zenon, <1>0, <1>1, <2>1, <2>2, RecordKeepsCopies
<1>3. CASE RelinquishCompact(s, r)
  BY Zenon, <1>1, <1>3 DEF RelinquishCompact, SameCopies
<1> QED
  BY Zenon, <1>2, <1>3 DEF MaintenanceStep

LEMMA AcknowledgeLoadCopies ==
    ASSUME TypeInv, CopiesRecorded, NEW s \in Servers, NEW r \in Ranges, AcknowledgeLoad(s, r)
    PROVE  SameCopies
<1> USE DEF TypeInv, TypeOK
<1>1. CASE live[s][r] # None /\ ~live[s][r].acked
  <2>0. live[s][r] \in LiveRange
    BY SMTT(60), <1>1
  <2>1. live' = [live EXCEPT ![s][r].acked = TRUE]
    BY Zenon, <1>1 DEF AcknowledgeLoad
  <2>2. \A t \in Servers, q \in Ranges : live'[t][q] # None =>
          live[t][q] # None /\ live'[t][q].id = live[t][q].id
    BY Zenon, <1>1, <2>0, <2>1 DEF LiveRange
  <2> DEFINE e == [EntityOf(s, r) EXCEPT !.acked = TRUE]
  <2>3. e.rng = r /\ e.id = live[s][r].id
    BY Zenon DEF EntityOf
  <2>4. rsml' = [rsml EXCEPT ![s] = RecordRange(@, e)]
    BY Zenon, <1>1 DEF AcknowledgeLoad
  <2> HIDE DEF e
  <2> QED
    BY Zenon, <1>1, <2>2, <2>3, <2>4, RecordKeepsCopies
<1>2. CASE ~(live[s][r] # None /\ ~live[s][r].acked)
  BY Zenon, <1>2 DEF AcknowledgeLoad, SameCopies
<1> QED
  BY Zenon, <1>1, <1>2


LEMMA LoadCopies ==
    ASSUME TypeInv, CopiesRecorded, CallsRecorded, NEW s \in Servers, NEW r \in Ranges,
           s \in up, Load(s, r), UNCHANGED <<up, parent, call>>
    PROVE  CopiesRecorded' /\ CallsRecorded'
<1> USE DEF TypeInv, TypeOK
<1> DEFINE i == lastId[r] + 1
<1>1. lastId \in [Ranges -> Nat] /\ \A q \in Ranges : lastId[q] >= 1
  BY SMTT(60), ConstantsAssumption DEF Ids
<1>2. /\ lastId'[r] = i
      /\ \A q \in Ranges : q # r => lastId'[q] = lastId[q]
  BY Zenon DEF Load
<1>3. \A q \in Ranges : lastId[q] <= lastId'[q] /\ lastId'[q] \in Nat
  BY SMTT(60), <1>1, <1>2
<1>4. /\ \A e \in rsml'[s] : e \in rsml[s] \/ (e.rng = r /\ e.id = i)
      /\ \E e \in rsml'[s] : e.rng = r /\ e.id = i
      /\ \A e \in rsml[s] : e \in rsml'[s] \/ (e.rng = r /\ e.id = i)
      /\ \A t \in Servers : t # s => rsml'[t] = rsml[t]
  <2> DEFINE f == [rng |-> r, state |-> "STEADY", id |-> i, acked |-> FALSE]
  <2>1. f.rng = r /\ f.id = i
    BY Zenon
  <2>2. rsml' = [rsml EXCEPT ![s] = RecordRange(@, f)]
    BY Zenon DEF Load
  <2> HIDE DEF f, i
  <2>3. rsml'[s] = {x \in rsml[s] : x.rng # r \/ x.id # i} \cup {f}
    BY Zenon, <2>1, <2>2 DEF RecordRange, RemoveRange
  <2> QED
    BY Zenon, <2>1, <2>2, <2>3
<1>5. \A t \in Servers : \A e \in rsml[t] : e.rng \in Ranges /\ e.id \in Nat
  BY SMTT(60), ConstantsAssumption DEF RangeEntity, Ids
<1>6. /\ live'[s][r].id = i
      /\ \A t \in Servers, q \in Ranges : t # s \/ q # r => live'[t][q] = live[t][q]
  BY Zenon DEF Load
<1> HIDE DEF i
<1>7. i \in Nat /\ i > 1 /\ i > lastId[r]
  BY SMTT(60), <1>1 DEF i
<1>8. CopiesRecorded'
  <2>1. \A t \in Servers : \A e \in rsml'[t] : e.id <= lastId'[e.rng]
    <3> SUFFICES ASSUME NEW t \in Servers, NEW e \in rsml'[t] PROVE e.id <= lastId'[e.rng]
      BY Zenon
    <3>1. CASE e \in rsml[t]
      BY SMTT(60), <1>1, <1>3, <1>5, <3>1 DEF CopiesRecorded
    <3>2. CASE e.rng = r /\ e.id = i
      BY SMTT(60), <1>2, <1>7, <3>2
    <3> QED
      BY Zenon, <1>4, <3>1, <3>2
  <2>2. \A t \in Servers, q \in Ranges : live'[t][q] # None =>
          /\ t \in up'
          /\ \E e \in rsml'[t] : e.rng = q /\ e.id = live'[t][q].id
    <3> SUFFICES ASSUME NEW t \in Servers, NEW q \in Ranges, live'[t][q] # None
                 PROVE  t \in up /\ \E e \in rsml'[t] : e.rng = q /\ e.id = live'[t][q].id
      BY Zenon
    <3>1. CASE t = s /\ q = r
      BY Zenon, <1>4, <1>6, <3>1
    <3>2. CASE t # s \/ q # r
      <4>1. PICK e \in rsml[t] : e.rng = q /\ e.id = live[t][q].id
        BY SMTT(60), <1>6, <3>2 DEF CopiesRecorded
      <4>2. e \in rsml'[t]
        BY Zenon, <1>4, <3>2, <4>1
      <4> QED
        BY SMTT(60), <1>6, <3>2, <4>1, <4>2 DEF CopiesRecorded
    <3> QED
      BY Zenon, <3>1, <3>2
  <2>3. \A q \in Ranges : parent'[q] = "SPLIT_SHRUNK" =>
          \A e \in rsml'[Home[q]] : e.rng = q => e.id # 1
    <3> SUFFICES ASSUME NEW q \in Ranges, parent[q] = "SPLIT_SHRUNK",
                        NEW e \in rsml'[Home[q]], e.rng = q
                 PROVE  e.id # 1
      BY Zenon
    <3>1. Home[q] \in Servers
      BY Zenon, ConstantsAssumption
    <3>2. e \in rsml[Home[q]] \/ e.id = i
      BY Zenon, <1>4, <3>1
    <3> QED
      BY SMTT(60), <1>7, <3>2 DEF CopiesRecorded
  <2> QED
    BY Zenon, <2>1, <2>2, <2>3 DEF CopiesRecorded
<1>9. CallsRecorded'
  <2> SUFFICES ASSUME NEW h \in Handover
               PROVE  /\ call[h] \in {"removed", "done"} =>
                           /\ h.id <= lastId'[h.rng]
                           /\ live'[h.src][h.rng] # None => live'[h.src][h.rng].id # h.id
                      /\ call[h] = "done" => \A e \in rsml'[h.src] : e.rng = h.rng => e.id # h.id
                      /\ h.src \notin up => call[h] \in {"idle", "done"}
    BY Zenon DEF CallsRecorded
  <2>1. h.src \in Servers /\ h.rng \in Ranges /\ h.id \in Nat
    BY SMTT(60), ConstantsAssumption DEF Handover, Ids
  <2>2. ASSUME call[h] \in {"removed", "done"}
        PROVE  /\ h.id <= lastId'[h.rng]
               /\ h.rng = r => h.id # i
    BY SMTT(60), <1>1, <1>3, <1>7, <2>1, <2>2 DEF CallsRecorded
  <2>3. ASSUME call[h] \in {"removed", "done"}, live'[h.src][h.rng] # None
        PROVE  live'[h.src][h.rng].id # h.id
    BY SMTT(60), <1>6, <2>1, <2>2, <2>3 DEF CallsRecorded
  <2>4. ASSUME call[h] = "done", NEW e \in rsml'[h.src], e.rng = h.rng
        PROVE  e.id # h.id
    BY ZenonT(60), <1>4, <2>1, <2>2, <2>4 DEF CallsRecorded
  <2> QED
    BY Zenon, <2>2, <2>3, <2>4 DEF CallsRecorded
<1> QED
  BY Zenon, <1>8, <1>9

LEMMA LiveRecorded ==
    ASSUME TypeInv, CopiesRecorded, NEW s \in Servers, NEW r \in Ranges, live[s][r] # None
    PROVE  /\ live[s][r].id <= lastId[r]
           /\ \E e \in rsml[s] : e.rng = r /\ e.id = live[s][r].id
BY ZenonT(60) DEF CopiesRecorded

\* A step of one hand-over that adds no copy.
LEMMA OneCallMoves ==
    ASSUME TypeInv, CallsRecorded, NEW h \in Handover, UNCHANGED <<up, lastId>>,
           \A g \in Handover : g # h => call'[g] = call[g],
           \A s \in Servers, r \in Ranges : live'[s][r] # None => live'[s][r] = live[s][r],
           \A s \in Servers : rsml'[s] \subseteq rsml[s],
           call'[h] \in {"removed", "done"} =>
              /\ h.id <= lastId[h.rng]
              /\ live'[h.src][h.rng] # None => live'[h.src][h.rng].id # h.id,
           call'[h] = "done" => \A e \in rsml'[h.src] : e.rng = h.rng => e.id # h.id,
           h.src \in up
    PROVE  CallsRecorded'
<1> SUFFICES ASSUME NEW g \in Handover
             PROVE  /\ call'[g] \in {"removed", "done"} =>
                         /\ g.id <= lastId'[g.rng]
                         /\ live'[g.src][g.rng] # None => live'[g.src][g.rng].id # g.id
                    /\ call'[g] = "done" => \A e \in rsml'[g.src] : e.rng = g.rng => e.id # g.id
                    /\ g.src \notin up' => call'[g] \in {"idle", "done"}
  BY Zenon DEF CallsRecorded
<1>1. g.src \in Servers /\ g.rng \in Ranges
  BY Zenon DEF Handover
<1>2. CASE g = h
  BY Zenon, <1>2
<1>3. CASE g # h
  <2>1. call'[g] = call[g]
    BY Zenon, <1>3
  <2> QED
    BY SMTT(60), <1>1, <2>1 DEF CallsRecorded
<1> QED
  BY Zenon, <1>2, <1>3

\* The steps of the thread that hands h over.
LEMMA HandoverCopies ==
    ASSUME TypeInv, CopiesRecorded, CallsRecorded, NEW h \in Handover,
           HandoverStep(h) \/ MoveRangeTimeout(h)
    PROVE  CopiesRecorded' /\ CallsRecorded'
<1> USE DEF TypeInv, TypeOK
<1>0. h.src \in Servers /\ h.rng \in Ranges /\ h.id \in Ids
  BY ZenonT(60) DEF Handover
<1>1. CASE MoveRange(h) \/ MoveRangeTimeout(h)
  <2>1. h.src \in up /\ UNCHANGED <<up, live, rsml, parent, lastId>>
    BY Zenon, <1>1 DEF MoveRange, MoveRangeTimeout, ReadyToMove, SendMoveRange
  <2>2. call'[h] = "waiting" /\ \A g \in Handover : g # h => call'[g] = call[g]
    BY ZenonT(60), <1>1 DEF MoveRange, MoveRangeTimeout, SendMoveRange
  <2>3. CopiesRecorded'
    BY SMTT(60), <2>1 DEF CopiesRecorded
  <2>4. CallsRecorded'
    BY Zenon, <2>1, <2>2, OneCallMoves
  <2> QED
    BY Zenon, <2>3, <2>4
<1>2. CASE RelinquishRemove(h)
  <2>1. /\ h.src \in up /\ UNCHANGED <<up, rsml, parent, lastId>>
        /\ live[h.src][h.rng] # None /\ live[h.src][h.rng].id = h.id
    BY Zenon, <1>2 DEF RelinquishRemove, Reported
  <2>2. /\ live'[h.src][h.rng] = None
        /\ \A t \in Servers, q \in Ranges : t # h.src \/ q # h.rng => live'[t][q] = live[t][q]
    BY Zenon, <1>0, <1>2 DEF RelinquishRemove
  <2>3. call'[h] = "removed" /\ \A g \in Handover : g # h => call'[g] = call[g]
    BY Zenon, <1>2 DEF RelinquishRemove
  <2>4. CopiesRecorded'
    BY SMTT(60), <1>0, <2>1, <2>2 DEF CopiesRecorded
  <2>5. h.id <= lastId[h.rng]
    BY ZenonT(60), <1>0, <2>1, LiveRecorded
  <2>6. CallsRecorded'
    BY ZenonT(60), <2>1, <2>2, <2>3, <2>5, OneCallMoves
  <2> QED
    BY ZenonT(60), <2>4, <2>6
<1>3. CASE RelinquishRecord(h)
  <2>1. /\ h.src \in up /\ UNCHANGED <<up, live, parent, lastId>>
        /\ call[h] = "removed"
    BY Zenon, <1>3 DEF RelinquishRecord
  <2>2. /\ rsml'[h.src] = {x \in rsml[h.src] : x.rng # h.rng \/ x.id # h.id}
        /\ \A t \in Servers : t # h.src => rsml'[t] = rsml[t]
    BY Zenon, <1>0, <1>3 DEF RelinquishRecord, RemoveRange
  <2>3. call'[h] = "done" /\ \A g \in Handover : g # h => call'[g] = call[g]
    BY ZenonT(60), <1>3 DEF RelinquishRecord
  <2>4. \A t \in Servers : rsml'[t] \subseteq rsml[t]
    BY Zenon, <2>2
  <2>5. \A t \in Servers, q \in Ranges : live[t][q] # None =>
          \E e \in rsml'[t] : e.rng = q /\ e.id = live[t][q].id
    <3> SUFFICES ASSUME NEW t \in Servers, NEW q \in Ranges, live[t][q] # None
                 PROVE  \E e \in rsml'[t] : e.rng = q /\ e.id = live[t][q].id
      BY ZenonT(60)
    <3>1. PICK e \in rsml[t] : e.rng = q /\ e.id = live[t][q].id
      BY ZenonT(60) DEF CopiesRecorded
    <3>2. t = h.src /\ q = h.rng => live[t][q].id # h.id
      BY Zenon, <2>1 DEF CallsRecorded
    <3>3. e \in rsml'[t]
      BY Zenon, <2>2, <3>1, <3>2
    <3> QED
      BY Zenon, <3>1, <3>3
  <2>6. CopiesRecorded'
    BY SMTT(60), <2>1, <2>4, <2>5, ConstantsAssumption DEF CopiesRecorded
  <2>7. \A e \in rsml'[h.src] : e.rng = h.rng => e.id # h.id
    BY ZenonT(60), <2>2
  <2>8. /\ h.id <= lastId[h.rng]
        /\ live[h.src][h.rng] # None => live[h.src][h.rng].id # h.id
    BY Zenon, <2>1 DEF CallsRecorded
  <2>9. CallsRecorded'
    BY Zenon, <2>1, <2>3, <2>4, <2>7, <2>8, OneCallMoves
  <2> QED
    BY ZenonT(60), <2>6, <2>9
<1>4. CASE SplitRecord(h)
  <2>1. /\ h.src \in up /\ UNCHANGED <<up, live, rsml, lastId>>
        /\ parent[h.rng] = "SPLIT_SHRUNK" /\ h.src = Home[h.rng] /\ h.id = 1
    BY Zenon, <1>4 DEF SplitRecord, Reported
  <2>2. \A q \in Ranges : parent'[q] = "SPLIT_SHRUNK" => parent[q] = "SPLIT_SHRUNK"
    BY Zenon, <1>0, <1>4 DEF SplitRecord
  <2>3. call'[h] = "done" /\ \A g \in Handover : g # h => call'[g] = call[g]
    BY Zenon, <1>4 DEF SplitRecord
  <2>4. CopiesRecorded'
    <3>1. \A q \in Ranges : parent'[q] = "SPLIT_SHRUNK" =>
            \A e \in rsml[Home[q]] : e.rng = q => e.id # 1
      BY Zenon, <2>2 DEF CopiesRecorded
    <3> QED
      BY SMTT(60), <2>1, <3>1 DEF CopiesRecorded
  <2>5. \A e \in rsml[h.src] : e.rng = h.rng => e.id # h.id
    BY SMTT(60), <1>0, <2>1 DEF CopiesRecorded
  <2>6. live[h.src][h.rng] # None => live[h.src][h.rng].id # h.id
    <3> SUFFICES ASSUME live[h.src][h.rng] # None PROVE live[h.src][h.rng].id # h.id
      BY Zenon
    <3>1. \E e \in rsml[h.src] : e.rng = h.rng /\ e.id = live[h.src][h.rng].id
      BY Zenon, <1>0, LiveRecorded
    <3> QED
      BY Zenon, <2>5, <3>1
  <2>7. h.id <= lastId[h.rng]
    <3>1. lastId[h.rng] \in Ids
      BY ZenonT(60), <1>0
    <3> QED
      BY SMTT(60), <2>1, <3>1, ConstantsAssumption DEF Ids
  <2>8. CallsRecorded'
    BY Zenon, <2>1, <2>3, <2>5, <2>6, <2>7, OneCallMoves
  <2> QED
    BY ZenonT(60), <2>4, <2>8
<1> QED
  BY Zenon, <1>1, <1>2, <1>3, <1>4 DEF HandoverStep


\* A step that leaves servers, logs, live maps and calls alone.
LEMMA SameCopiesOnly ==
    ASSUME CopiesRecorded, CallsRecorded, UNCHANGED <<up, live, rsml, parent, lastId, call>>
    PROVE  CopiesRecorded' /\ CallsRecorded'
<1>1. CopiesRecorded'
  BY SMTT(60) DEF CopiesRecorded
<1>2. CallsRecorded'
  BY SMTT(60) DEF CallsRecorded
<1> QED
  BY ZenonT(60), <1>1, <1>2

\* A step that leaves logs alone and forgets copies in live maps.
LEMMA FewerCopies ==
    ASSUME CopiesRecorded, UNCHANGED <<rsml, parent, lastId>>,
           \A t \in Servers, r \in Ranges : live'[t][r] # None => t \in up' /\ live'[t] = live[t]
    PROVE  CopiesRecorded'
<1>1. \A t \in Servers, r \in Ranges : live'[t][r] # None =>
        t \in up' /\ \E e \in rsml[t] : e.rng = r /\ e.id = live'[t][r].id
  BY SMTT(60) DEF CopiesRecorded
<1> QED
  BY SMTT(60), <1>1 DEF CopiesRecorded

LEMMA ServerCopies ==
    ASSUME TypeInv, CopiesRecorded, CallsRecorded, NEW s \in Servers,
           RecordRemoval(s) \/ ServerRecover(s) \/ ServerCrash(s)
    PROVE  CopiesRecorded' /\ CallsRecorded'
<1> USE DEF TypeInv, TypeOK
<1>0. \A h \in Handover : h.src \in Servers /\ h.rng \in Ranges
  BY ZenonT(60) DEF Handover
<1>1. CASE RecordRemoval(s)
  <2>1. UNCHANGED <<up, live, rsml, parent, lastId, call>>
    BY Zenon, <1>1 DEF RecordRemoval
  <2> QED
    BY Zenon, <2>1, SameCopiesOnly
<1>2. CASE ServerRecover(s) /\ RecoveryAssert(s) # None
  <2>1. UNCHANGED <<up, live, rsml, parent, lastId, call>>
    BY Zenon, <1>2 DEF ServerRecover
  <2> QED
    BY Zenon, <2>1, SameCopiesOnly
<1>3. CASE ServerRecover(s) /\ RecoveryAssert(s) = None
  <2>1. up' = up \cup {s} /\ UNCHANGED <<rsml, parent, lastId, call>>
    BY ZenonT(60), <1>3 DEF ServerRecover
  <2>2. /\ \A r \in Ranges : live'[s][r] = ReplayedRange(s, r)
        /\ \A t \in Servers : t # s => live'[t] = live[t]
    BY SMTT(60), <1>3 DEF ServerRecover
  <2>3. \A r \in Ranges : live'[s][r] # None =>
          \E e \in rsml[s] : e.rng = r /\ e.id = live'[s][r].id
    <3> SUFFICES ASSUME NEW r \in Ranges, ReplayedRange(s, r) # None
                 PROVE  \E e \in rsml[s] : e.rng = r /\ e.id = ReplayedRange(s, r).id
      BY SMTT(60), <2>2
    <3> DEFINE e == CHOOSE x \in rsml[s] : x.rng = r
    <3>1. \E x \in rsml[s] : x.rng = r
      BY Zenon DEF ReplayedRange
    <3>2. e \in rsml[s] /\ e.rng = r
      BY Zenon, <3>1
    <3>3. ReplayedRange(s, r).id = e.id
      BY Zenon, <3>1 DEF ReplayedRange
    <3> HIDE DEF e
    <3> QED
      BY Zenon, <3>2, <3>3
  <2>4. CopiesRecorded'
    <3>1. \A t \in Servers, r \in Ranges : live'[t][r] # None =>
            t \in up' /\ \E e \in rsml[t] : e.rng = r /\ e.id = live'[t][r].id
      <4> SUFFICES ASSUME NEW t \in Servers, NEW r \in Ranges, live'[t][r] # None
                   PROVE  t \in up' /\ \E e \in rsml[t] : e.rng = r /\ e.id = live'[t][r].id
        BY Zenon
      <4>1. CASE t = s
        BY Zenon, <2>1, <2>3, <4>1
      <4>2. CASE t # s
        BY SMTT(60), <2>1, <2>2, <4>2 DEF CopiesRecorded
      <4> QED
        BY Zenon, <4>1, <4>2
    <3> QED
      BY ZenonT(60), <2>1, <3>1 DEF CopiesRecorded
  <2>5. CallsRecorded'
    <3> SUFFICES ASSUME NEW h \in Handover, call[h] \in {"removed", "done"},
                        live'[h.src][h.rng] # None
                 PROVE  live'[h.src][h.rng].id # h.id
      BY Zenon, <2>1 DEF CallsRecorded
    <3>1. CASE h.src = s
      <4>1. call[h] = "done"
        BY ZenonT(60), <1>3, <3>1 DEF ServerRecover, CallsRecorded
      <4> QED
        BY SMTT(60), <1>0, <2>3, <3>1, <4>1 DEF CallsRecorded
    <3>2. CASE h.src # s
      BY SMTT(60), <1>0, <2>2, <3>2 DEF CallsRecorded
    <3> QED
      BY Zenon, <3>1, <3>2
  <2> QED
    BY Zenon, <2>4, <2>5
<1>4. CASE ServerCrash(s)
  <2>1. up' = up \ {s} /\ UNCHANGED <<rsml, parent, lastId>>
    BY Zenon, <1>4 DEF ServerCrash
  <2>2. /\ \A r \in Ranges : live'[s][r] = None
        /\ \A t \in Servers : t # s => live'[t] = live[t]
    BY Zenon, <1>4 DEF ServerCrash
  <2>3. \A h \in Handover :
          /\ h.src = s => call'[h] = (IF call[h] # "done" THEN "idle" ELSE "done")
          /\ h.src # s => call'[h] = call[h]
    BY Zenon, <1>4 DEF ServerCrash
  <2>4. CopiesRecorded'
    <3>1. \A t \in Servers, r \in Ranges : live'[t][r] # None => t \in up' /\ live'[t] = live[t]
      BY ZenonT(60), <2>1, <2>2 DEF CopiesRecorded
    <3> QED
      BY Zenon, <2>1, <3>1, FewerCopies
  <2>5. CallsRecorded'
    <3> SUFFICES ASSUME NEW h \in Handover
                 PROVE  /\ call'[h] \in {"removed", "done"} =>
                             /\ h.id <= lastId[h.rng]
                             /\ live'[h.src][h.rng] # None => live'[h.src][h.rng].id # h.id
                        /\ call'[h] = "done" =>
                             \A e \in rsml[h.src] : e.rng = h.rng => e.id # h.id
                        /\ h.src \notin up' => call'[h] \in {"idle", "done"}
      BY Zenon, <2>1 DEF CallsRecorded
    <3>1. CASE h.src = s
      BY ZenonT(60), <1>0, <2>2, <2>3, <3>1 DEF CallsRecorded
    <3>2. CASE h.src # s
      BY SMTT(60), <1>0, <2>1, <2>2, <2>3, <3>2 DEF CallsRecorded
    <3> QED
      BY Zenon, <3>1, <3>2
  <2> QED
    BY Zenon, <2>4, <2>5
<1> QED
  BY Zenon, <1>1, <1>2, <1>3, <1>4

\* A reply to move_range() that somebody waits for reaches a running server.
LEMMA ReplyCopies ==
    ASSUME TypeInv, CopiesRecorded, CallsRecorded, NEW h \in Handover, call[h] = "waiting",
           call' = [call EXCEPT ![h] = "returned"],
           UNCHANGED <<up, live, rsml, parent, lastId>>
    PROVE  CopiesRecorded' /\ CallsRecorded'
<1>1. call'[h] = "returned" /\ \A g \in Handover : g # h => call'[g] = call[g]
  BY Zenon DEF TypeInv, TypeOK
<1>2. h.src \in up
  BY Zenon DEF CallsRecorded
<1>3. CallsRecorded'
  BY Zenon, <1>1, <1>2, OneCallMoves
<1>4. CopiesRecorded'
  BY SMTT(60) DEF CopiesRecorded
<1> QED
  BY ZenonT(60), <1>3, <1>4

LEMMA NextCopies ==
    TypeInv /\ OneWaiter /\ CopiesRecorded /\ CallsRecorded /\ [Next]_vars
      => CopiesRecorded' /\ CallsRecorded'
<1> SUFFICES ASSUME TypeInv, OneWaiter, CopiesRecorded, CallsRecorded, [Next]_vars
             PROVE  CopiesRecorded' /\ CallsRecorded'
  BY Zenon
<1>1. ASSUME UNCHANGED <<up, live, rsml, parent, lastId, call>>
      PROVE  CopiesRecorded' /\ CallsRecorded'
  BY SMTT(60), <1>1 DEF CopiesRecorded, CallsRecorded
<1>2. ASSUME SameCopies, UNCHANGED <<up, parent, lastId, call>>
      PROVE  CopiesRecorded' /\ CallsRecorded'
  BY Zenon, <1>2, SameCopiesRecorded, SameCopiesCalls
<1>3. ASSUME NEW s \in Servers, NEW r \in Ranges, MaintenanceStep(s, r)
      PROVE  CopiesRecorded' /\ CallsRecorded'
  <2>1. UNCHANGED <<up, parent, lastId, call>>
    BY Zenon, <1>3 DEF MaintenanceStep, RelinquishInstallLog, RelinquishCompact
  <2> QED
    BY Zenon, <1>2, <1>3, <2>1, MaintenanceCopies
<1>4. ASSUME NEW h \in Handover, AcknowledgeRelinquish(h) \/ AcknowledgeTimeout(h)
      PROVE  CopiesRecorded' /\ CallsRecorded'
  BY Zenon, <1>1, <1>4 DEF AcknowledgeRelinquish, AcknowledgeTimeout, rsVars
<1>5. ASSUME NEW q \in requests, HandleMoveRange(q)
      PROVE  CopiesRecorded' /\ CallsRecorded'
  <2>1. UNCHANGED <<up, live, rsml, parent, lastId>>
    BY Zenon, <1>5 DEF HandleMoveRange
  <2>2. CASE InProgress(q.ho) /\ q.waiting
    <3>1. call' = [call EXCEPT ![q.ho] = "returned"]
      BY Zenon, <1>5, <2>2 DEF HandleMoveRange
    <3>2. q.ho \in Handover /\ call[q.ho] = "waiting"
      BY Zenon, <2>2 DEF OneWaiter, TypeInv, TypeOK, Request
    <3> QED
      BY Zenon, <2>1, <3>1, <3>2, ReplyCopies
  <2>3. CASE ~(InProgress(q.ho) /\ q.waiting)
    <3>1. call' = call
      BY Zenon, <1>5, <2>3 DEF HandleMoveRange
    <3> QED
      BY Zenon, <1>1, <2>1, <3>1
  <2> QED
    BY Zenon, <2>2, <2>3
<1>6. ASSUME NEW o \in OpIds, OperationStep(o) \/ MoveLoadError(o) \/ MoveAcknowledgeError(o)
      PROVE  CopiesRecorded' /\ CallsRecorded'
  <2>0. op[o] # None /\ op[o].ho \in Handover /\ op[o].ho.rng \in Ranges
    <3>1. op[o] # None
      BY Zenon, <1>6 DEF OperationStep, MoveInitial, MoveStarted, MoveLoad, MoveLoadError,
             MoveAcknowledge, MoveAcknowledgeError, MoveComplete, MoveLeave, Runs
    <3> QED
      BY ZenonT(60), <3>1 DEF TypeInv, TypeOK, Operation, Handover
  <2>u. up \subseteq Servers
    BY Zenon DEF TypeInv, TypeOK
  <2>1. CASE MoveInitial(o) \/ MoveComplete(o) \/ MoveLeave(o)
    BY Zenon, <1>1, <2>1 DEF MoveInitial, MoveComplete, MoveLeave, rsVars
  <2>2. CASE MoveStarted(o)
    <3>1. UNCHANGED <<up, live, rsml, parent, lastId>>
      BY Zenon, <2>2 DEF MoveStarted
    <3>2. CASE op[o].event
      <4>1. call' = [call EXCEPT ![op[o].ho] = "returned"]
        BY Zenon, <2>2, <3>2 DEF MoveStarted
      <4>2. call[op[o].ho] = "waiting"
        BY Zenon, <2>0, <3>2 DEF OneWaiter
      <4> QED
        BY Zenon, <2>0, <3>1, <4>1, <4>2, ReplyCopies
    <3>3. CASE ~op[o].event
      <4>1. call' = call
        BY Zenon, <2>2, <3>3 DEF MoveStarted
      <4> QED
        BY Zenon, <1>1, <3>1, <4>1
    <3> QED
      BY Zenon, <3>2, <3>3
  <2>3. CASE MoveLoad(o)
    <3>1. UNCHANGED <<up, parent, call>> /\ op[o].dest \in up
      BY Zenon, <2>3 DEF MoveLoad
    <3>2. CASE Load(op[o].dest, op[o].ho.rng)
      BY Zenon, <2>0, <2>u, <3>1, <3>2, LoadCopies
    <3>3. CASE UNCHANGED <<lastId, rsml, live>>
      BY Zenon, <1>1, <3>1, <3>3
    <3> QED
      BY Zenon, <2>3, <3>2, <3>3 DEF MoveLoad
  <2>4. CASE MoveLoadError(o)
    <3>1. UNCHANGED <<up, parent, call>>
      BY Zenon, <2>4 DEF MoveLoadError
    <3>2. CASE op[o].dest \in up /\ Load(op[o].dest, op[o].ho.rng)
      BY Zenon, <2>0, <2>u, <3>1, <3>2, LoadCopies
    <3>3. CASE UNCHANGED <<lastId, rsml, live>>
      BY Zenon, <1>1, <3>1, <3>3
    <3> QED
      BY Zenon, <2>4, <3>2, <3>3 DEF MoveLoadError
  <2>5. CASE MoveAcknowledge(o)
    <3>1. UNCHANGED <<up, parent, lastId, call>> /\ op[o].dest \in up
      BY Zenon, <2>5 DEF MoveAcknowledge
    <3>2. SameCopies
      BY Zenon, <2>0, <2>5, <2>u, <3>1, AcknowledgeLoadCopies DEF MoveAcknowledge
    <3> QED
      BY Zenon, <1>2, <3>1, <3>2
  <2>6. CASE MoveAcknowledgeError(o)
    <3>1. UNCHANGED <<up, parent, lastId, call>>
      BY Zenon, <2>6 DEF MoveAcknowledgeError
    <3>2. CASE op[o].dest \in up /\ AcknowledgeLoad(op[o].dest, op[o].ho.rng)
      BY Zenon, <1>2, <2>0, <2>u, <3>1, <3>2, AcknowledgeLoadCopies
    <3>3. CASE UNCHANGED <<live, rsml>>
      BY Zenon, <1>1, <3>1, <3>3
    <3> QED
      BY Zenon, <2>6, <3>2, <3>3 DEF MoveAcknowledgeError
  <2> QED
    BY Zenon, <1>6, <2>1, <2>2, <2>3, <2>4, <2>5, <2>6 DEF OperationStep
<1>7. ASSUME NEW a \in acks, HandleAck(a) \/ FinishAck(a)
      PROVE  CopiesRecorded' /\ CallsRecorded'
  BY Zenon, <1>1, <1>7 DEF HandleAck, FinishAck
<1>8. CASE BalanceStep
  <2>1. CASE BalanceRelinquish
    <3>1. UNCHANGED <<up, rsml, parent, lastId, call>>
      BY Zenon, <2>1 DEF BalanceRelinquish
    <3>2. balance.src \in Servers /\ balance.rng \in Ranges
      BY Zenon, <2>1 DEF BalanceRelinquish, TypeInv, TypeOK
    <3>3. live[balance.src][balance.rng] # None /\ live[balance.src][balance.rng] \in LiveRange
      BY SMTT(60), <2>1, <3>2 DEF BalanceRelinquish, TypeInv, TypeOK
    <3>4. live' = [live EXCEPT ![balance.src][balance.rng].relinquish = TRUE]
      BY Zenon, <2>1 DEF BalanceRelinquish
    <3>5. \A t \in Servers, q \in Ranges : live'[t][q] # None =>
            live[t][q] # None /\ live'[t][q].id = live[t][q].id
      BY Zenon, <3>2, <3>3, <3>4 DEF LiveRange, TypeInv, TypeOK
    <3> QED
      BY Zenon, <1>2, <3>1, <3>5 DEF SameCopies
  <2> QED
    BY Zenon, <1>1, <1>8, <2>1 DEF BalanceStep, BalanceRegister, BalanceReply, BalanceError, rsVars
<1>9. CASE MasterRestart
  BY Zenon, <1>1, <1>9 DEF MasterRestart, rsVars
<1>10. CASE Next
  BY Zenon, <1>3, <1>4, <1>5, <1>6, <1>7, <1>8, <1>9, <1>10, NextCases, HandoverCopies, ServerCopies
<1>11. CASE UNCHANGED vars
  BY ZenonT(60), <1>1, <1>11 DEF vars, rsVars
<1> QED
  BY Zenon, <1>10, <1>11

LEMMA InitHandover == Init => HandoverInv
<1> SUFFICES ASSUME Init PROVE HandoverInv
  BY Zenon
<1>1. OneWaiter
  BY Zenon DEF Init, OneWaiter
<1>2. CopiesRecorded
  <2>1. \A s \in Servers : \A e \in rsml[s] :
          e.rng \in Ranges /\ e.id = 1 /\ e.rng \notin SplitOff
    BY SMTT(60) DEF Init
  <2>2. \A s \in Servers : \A e \in rsml[s] : e.id <= lastId[e.rng]
    <3>1. \A r \in Ranges : lastId[r] = 1
      BY Zenon DEF Init
    <3> QED
      BY SMTT(60), <2>1, <3>1
  <2>3. \A s \in Servers, r \in Ranges : live[s][r] # None =>
          s \in up /\ \E e \in rsml[s] : e.rng = r /\ e.id = live[s][r].id
    <3> SUFFICES ASSUME NEW s \in Servers, NEW r \in Ranges, live[s][r] # None
                 PROVE  \E e \in rsml[s] : e.rng = r /\ e.id = live[s][r].id
      <4>1. up = Servers
        BY Zenon DEF Init
      <4> QED
        BY Zenon, <4>1
    <3>1. r \notin SplitOff /\ s = Home[r] /\ live[s][r].id = 1
      BY Zenon DEF Init
    <3>2. [rng |-> r, state |-> "STEADY", id |-> 1, acked |-> TRUE] \in rsml[s]
      BY Zenon, <3>1 DEF Init
    <3> QED
      BY Zenon, <3>1, <3>2
  <2>4. \A r \in Ranges : parent[r] = "SPLIT_SHRUNK" => r \in SplitOff
    BY Zenon DEF Init
  <2>5. \A r \in Ranges : parent[r] = "SPLIT_SHRUNK" =>
          \A e \in rsml[Home[r]] : e.rng = r => e.id # 1
    BY Zenon, <2>1, <2>4, ConstantsAssumption
  <2> QED
    BY Zenon, <2>2, <2>3, <2>5 DEF CopiesRecorded
<1>3. CallsRecorded
  BY Zenon DEF Init, CallsRecorded
<1> QED
  BY Zenon, <1>1, <1>2, <1>3 DEF HandoverInv

\* The inductive invariant of the hand-over.
THEOREM HandoverInvariant == Spec => []HandoverInv
<1>1. TypeInv /\ HandoverInv /\ [Next]_vars => TypeInv' /\ HandoverInv'
  BY Zenon, NextType, NextOneWaiter, NextCopies DEF HandoverInv
<1> QED
  BY <1>1, InitType, InitHandover, PTL DEF Spec

\* A copy of a range that was handed over does not come back, whatever crashes,
\* is retried or is loaded again: relinquish_finalize() and
\* split_notify_master() forget the range for good.
THEOREM HandedOver == Spec => []HandedOverForGood
<1>1. HandoverInv => HandedOverForGood
  BY Zenon DEF HandoverInv, CallsRecorded, HandedOverForGood
<1> QED
  BY <1>1, HandoverInvariant, PTL

=============================================================================
