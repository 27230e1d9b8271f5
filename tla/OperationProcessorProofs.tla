----------------------- MODULE OperationProcessorProofs -----------------------
(***************************************************************************)
(* For any set of operations and any number of worker threads: the         *)
(* processor never has two workers run one operation, and never runs or    *)
(* lists an operation that was retired; and it never loses or duplicates a *)
(* perpetual operation.                                                    *)
(***************************************************************************)
EXTENDS OperationProcessor, TLAPS

WorkerType == [Workers -> [pc : Pc, op : Ops \cup {None}]]

\* A worker at one of these places has no operation.
Idle == {"loop", "wait", "exit"}

\* worker' or worker as ws: it has its type, and a worker has an operation
\* exactly while it runs one.
WorkersOK(ws) ==
    /\ ws \in WorkerType
    /\ \A w \in Workers : ws[w].pc \in Idle <=> ws[w].op = None

\* What the order promises: an operation has one entry, and one that is not
\* marked as taken is neither being run nor in the current list.
OrderOK(ord, busy, cur) ==
    /\ \A e, f \in ord : e.op = f.op => e = f
    /\ \A e \in ord : e.taken \/ e.op \notin busy \cup cur

\* What is or was in the graph is an operation.
MembersOK == live \subseteq Ops /\ perpetual \subseteq Ops

\* The inductive invariant.
DispatchInv ==
    /\ MembersOK
    /\ WorkersOK(worker)
    /\ RunsOnce
    /\ OrderOK(order, Busy, current)

\* The workers of ws are where those of worker are, as far as having an
\* operation goes.
SameOps(ws) == \A w \in Workers : ws[w].op = worker[w].op

\* Workers that keep their operations leave the set of busy operations alone.
LEMMA SameBusy ==
    ASSUME SameOps(worker')
    PROVE  Busy' = Busy
BY Zenon DEF SameOps, Busy

\* A step that keeps every worker's operation, takes nothing out of the graph
\* and leaves the order as it is or puts in a sound one, keeps the invariant
\* if the current list is as before or is emptied.
LEMMA KeepOps ==
    ASSUME DispatchInv, WorkersOK(worker'), SameOps(worker'),
           MembersOK', live \subseteq live',
           current' = current \/ current' = {},
           order' = order
    PROVE  DispatchInv'
<1>1. Busy' = Busy
  BY SMTT(60), SameBusy
<1>2. RunsOnce'
  BY <1>1, Zenon DEF DispatchInv, RunsOnce, SameOps
<1>3. OrderOK(order', Busy', current')
  BY <1>1, Zenon DEF DispatchInv, OrderOK
<1> QED
  BY <1>2, <1>3, Zenon DEF DispatchInv, WorkersOK, OrderOK

\* notify_all() changes no worker's operation.
LEMMA NotifyKeepsOps ==
    ASSUME NEW ws, WorkersOK(ws)
    PROVE  /\ WorkersOK(NotifyAll(ws))
           /\ \A w \in Workers : NotifyAll(ws)[w].op = ws[w].op
           /\ \A w \in Workers : ws[w].pc # "wait" => NotifyAll(ws)[w] = ws[w]
BY SMTT(60) DEF WorkersOK, WorkerType, NotifyAll, Pc, Idle

\* A move of one worker within the idle places or within execute().
LEMMA GoToKeepsOps ==
    ASSUME WorkersOK(worker), NEW w \in Workers, NEW pc \in Pc, GoTo(w, pc),
           worker[w].pc \in Idle <=> pc \in Idle
    PROVE  WorkersOK(worker') /\ SameOps(worker')
BY SMTT(60) DEF WorkersOK, WorkerType, GoTo, SameOps

\* A newly computed order is sound.
LEMMA RecomputedOK == OrderOK(RecomputeOrder, Busy, {})
<1> DEFINE time(v) == Min({k \in DOMAIN Level : v \in Level[k]})
           entry(v) == [op |-> v, time |-> time(v), taken |-> Taken(v)]
<1>1. \A e \in RecomputeOrder : \E v : e = entry(v)
  BY Zenon DEF RecomputeOrder
<1> HIDE DEF time
<1>2. \A e \in RecomputeOrder : e = entry(e.op) /\ e.taken = Taken(e.op)
  <2> TAKE e \in RecomputeOrder
  <2>1. PICK v : e = entry(v)
    BY SMTT(60), <1>1
  <2> QED
    BY SMTT(60), <2>1
<1> HIDE DEF entry
<1> QED
  BY <1>2, Zenon DEF OrderOK, Taken

\* The initial state satisfies the invariant.
LEMMA DispatchInit == Init => DispatchInv
BY SMTT(60), OpsAssumption DEF Init, DispatchInv, MembersOK, WorkersOK, WorkerType, Idle, Pc, RunsOnce, Busy, OrderOK

-----------------------------------------------------------------------------
(* Steps of the clients. *)

\* Operations join the graph; none leaves it.
LEMMA JoinGrows ==
    ASSUME DispatchInv, NEW g, NEW new \in SUBSET Ops, NEW names, Join(g, new, names)
    PROVE  live \subseteq live' /\ MembersOK'
BY Zenon DEF Join, Remaining, Returning, DispatchInv, MembersOK

\* Waking the waiting workers is harmless.
LEMMA NotifiedOK ==
    ASSUME DispatchInv, worker' = NotifyAll(worker)
    PROVE  WorkersOK(worker') /\ SameOps(worker')
BY NotifyKeepsOps, Zenon DEF DispatchInv, SameOps

\* So is leaving them alone, ...
LEMMA UnchangedOK ==
    ASSUME DispatchInv, worker' = worker
    PROVE  WorkersOK(worker') /\ SameOps(worker')
BY Zenon DEF DispatchInv, SameOps

\* ... and leaving alone which operations there are.
LEMMA MembersSame ==
    ASSUME DispatchInv, UNCHANGED members
    PROVE  MembersOK' /\ live' = live
BY Zenon DEF DispatchInv, MembersOK, members

\* The calls other threads make keep the invariant.
LEMMA ClientStep ==
    ASSUME DispatchInv,
           \/ AddOperations
           \/ \E o \in Later : AddOperation(o)
           \/ \E n \in Names : Activate(n)
           \/ \E n \in UNION {Sets[o].obs : o \in Blockers} : Unblock(n)
           \/ \E o \in Blockers : Satisfy(o)
           \/ WaitForEmpty
           \/ Shutdown
    PROVE  DispatchInv'
<1>1. CASE AddOperations
  BY <1>1, OpsAssumption, JoinGrows, NotifiedOK, KeepOps, Zenon DEF AddOperations
<1>2. ASSUME NEW o \in Later, AddOperation(o) PROVE DispatchInv'
  <2>1. CASE ExclusiveName[o] \cap exclusive # {}
    BY <1>2, <2>1, UnchangedOK, MembersSame, KeepOps, Zenon DEF AddOperation
  <2>2. CASE ~(ExclusiveName[o] \cap exclusive # {})
    <3>1. {o} \in SUBSET Ops
      BY OpsAssumption, Zenon
    <3> QED
      BY <1>2, <2>2, <3>1, JoinGrows, NotifiedOK, KeepOps, Zenon DEF AddOperation
  <2> QED
    BY <2>1, <2>2, Zenon
<1>3. ASSUME NEW n \in Names, Activate(n) PROVE DispatchInv'
  <2>1. {} \in SUBSET Ops
    BY Zenon
  <2> QED
    BY <1>3, <2>1, JoinGrows, NotifiedOK, KeepOps, Zenon DEF Activate
<1>4. ASSUME NEW n, Unblock(n) PROVE DispatchInv'
  <2>1. MembersOK' /\ live' = live /\ current' = current /\ order' = order
    BY <1>4, MembersSame, Zenon DEF Unblock
  <2>2. worker' = NotifyAll(worker) \/ worker' = worker
    BY <1>4, Zenon DEF Unblock
  <2> QED
    BY <2>1, <2>2, NotifiedOK, UnchangedOK, KeepOps, Zenon
<1>5. ASSUME NEW o \in Blockers, Satisfy(o) PROVE DispatchInv'
  BY <1>5, UnchangedOK, MembersSame, KeepOps, Zenon DEF Satisfy, sched
<1>6. CASE WaitForEmpty
  BY <1>6, UnchangedOK, MembersSame, KeepOps, Zenon DEF WaitForEmpty, sched
<1>7. CASE Shutdown
  BY <1>7, NotifiedOK, MembersSame, KeepOps, Zenon DEF Shutdown, sched
<1> QED
  BY <1>1, <1>2, <1>3, <1>4, <1>5, <1>6, <1>7, Zenon

-----------------------------------------------------------------------------
(* Steps of a worker. *)

\* A worker that moves on within execute(), or leaves its loop.
LEMMA MoveOn ==
    ASSUME DispatchInv, NEW w \in Workers,
           \/ Exit(w) \/ PreRun(w) \/ IsBlocked(w) \/ FindBlocked(w) \/ Block(w)
           \/ Return(w) \/ Complete(w) \/ Throw(w) \/ PostRun(w)
    PROVE  DispatchInv'
<1>1. UNCHANGED members /\ current' = current /\ order' = order
  BY Zenon DEF Exit, PreRun, IsBlocked, FindBlocked, Block, Return, Complete, Throw, PostRun,
     sched
<1>2. \E pc \in Pc : GoTo(w, pc) /\ (worker[w].pc \in Idle <=> pc \in Idle)
  <2>1. CASE Exit(w)
    BY SMTT(60), <2>1 DEF Exit, Pc, Idle
  <2>2. CASE PreRun(w) \/ IsBlocked(w)
    BY SMTT(60), <2>2 DEF PreRun, IsBlocked, Pc, Idle
  <2>3. CASE FindBlocked(w) \/ Block(w) \/ Return(w)
    BY SMTT(60), <2>3 DEF FindBlocked, Block, Return, Pc, Idle
  <2>4. CASE Complete(w) \/ Throw(w) \/ PostRun(w)
    BY SMTT(60), <2>4 DEF Complete, Throw, PostRun, Pc, Idle
  <2> QED
    BY <2>1, <2>2, <2>3, <2>4, Zenon
<1>3. WorkersOK(worker') /\ SameOps(worker')
  BY <1>2, GoToKeepsOps, Zenon DEF DispatchInv
<1> QED
  BY <1>1, <1>3, MembersSame, KeepOps, Zenon

\* The order a worker finds or computes is sound when nothing is listed.
LEMMA NewOrderOK ==
    ASSUME DispatchInv, current = {}
    PROVE  OrderOK(NewOrder, Busy, {})
BY RecomputedOK, Zenon DEF NewOrder, DispatchInv

\* A worker about to wait: it may leave a new order behind.
LEMMA WaitStep ==
    ASSUME DispatchInv, NEW w \in Workers, Wait(w)
    PROVE  DispatchInv'
<1>1. MembersOK' /\ live' = live /\ current = {} /\ current' = {} /\ order' = NewOrder
  BY MembersSame, Zenon DEF Wait
<1>2. WorkersOK(worker') /\ SameOps(worker')
  <2>1. GoTo(w, "wait") /\ worker[w].pc = "loop"
    BY Zenon DEF Wait
  <2> QED
    BY SMTT(60), <2>1, GoToKeepsOps DEF DispatchInv, Pc, Idle
<1>3. Busy' = Busy
  BY SMTT(60), <1>2, SameBusy
<1>4. OrderOK(order', Busy', current')
  BY <1>1, <1>3, NewOrderOK, Zenon
<1>5. RunsOnce'
  BY <1>1, <1>2, <1>3, Zenon DEF DispatchInv, RunsOnce, SameOps
<1> QED
  BY <1>1, <1>2, <1>4, <1>5, Zenon DEF DispatchInv, WorkersOK, OrderOK

\* A worker in its loop takes an operation of the graph that no other has:
\* the operation becomes busy, and the workers' operations stay distinct.
LEMMA TakeOps ==
    ASSUME DispatchInv, NEW w \in Workers, worker[w].pc = "loop",
           NEW ws, WorkersOK(ws), SameOps(ws),
           NEW o \in Ops, o \notin Busy, worker' = Take(w, o, ws)
    PROVE  /\ WorkersOK(worker')
           /\ Busy' = Busy \cup {o}
           /\ \A u, v \in Workers : u # v /\ worker'[u].op # None
                    => worker'[u].op # worker'[v].op
<1>1. worker[w].op = None
  BY Zenon DEF DispatchInv, WorkersOK, Idle
<1>2. o # None
  BY OpsAssumption, Zenon
<1>3. worker'[w] = [pc |-> "pre_run", op |-> o] /\ \A v \in Workers \ {w} : worker'[v] = ws[v]
  BY SMTT(60) DEF Take, WorkersOK, WorkerType
<1>4. WorkersOK(worker')
  BY SMTT(60), <1>2, <1>3 DEF Take, WorkersOK, WorkerType, Pc, Idle
<1>5. \A v \in Workers \ {w} : worker'[v].op = worker[v].op
  BY <1>3, Zenon DEF SameOps
<1>6. worker'[w].op = o
  BY SMTT(60), <1>3
<1>7. Busy' = Busy \cup {o}
  <2>1. \A x : x \in Busy' => x \in Busy \cup {o}
    BY <1>5, <1>6, Zenon DEF Busy
  <2>2. \A v \in Workers : worker[v].op # None => worker'[v].op = worker[v].op
    BY <1>1, <1>5, Zenon
  <2>3. Busy \subseteq Busy' /\ o \in Busy'
    BY <1>2, <1>6, <2>2, ZenonT(60) DEF Busy
  <2> QED
    BY <2>1, <2>3, Zenon
<1>8. \A v \in Workers : worker[v].op # o
  BY <1>2, Zenon DEF Busy
<1> QED
  <2>1. \A u, v \in Workers : u # v /\ worker[u].op # None => worker[u].op # worker[v].op
    BY Zenon DEF DispatchInv, RunsOnce
  <2>2. ASSUME NEW u \in Workers, NEW v \in Workers, u # v, worker'[u].op # None
        PROVE  worker'[u].op # worker'[v].op
    BY <1>5, <1>6, <1>8, <2>1, <2>2, ZenonT(60)
  <2> QED
    BY <1>4, <1>7, <2>2, Zenon

\* The step of a worker that takes what another one has listed.
LEMMA TakeCurrentStep ==
    ASSUME DispatchInv, NEW w \in Workers, TakeCurrent(w)
    PROVE  DispatchInv'
<1>1. PICK o \in current : worker' = Take(w, o, worker) /\ current' = current \ {o}
  BY Zenon DEF TakeCurrent
<1>2. MembersOK' /\ live' = live /\ order' = order /\ worker[w].pc = "loop"
  BY MembersSame, Zenon DEF TakeCurrent
<1>3. o \in live /\ o \notin Busy /\ o \in Ops
  BY Zenon DEF DispatchInv, RunsOnce, MembersOK
<1>4. WorkersOK(worker) /\ SameOps(worker)
  BY Zenon DEF DispatchInv, SameOps
<1>5. /\ WorkersOK(worker') /\ Busy' = Busy \cup {o}
      /\ \A u, v \in Workers : u # v /\ worker'[u].op # None
                  => worker'[u].op # worker'[v].op
  BY <1>1, <1>2, <1>3, <1>4, TakeOps, Zenon
<1>6. RunsOnce'
  BY <1>1, <1>2, <1>3, <1>5, Zenon DEF DispatchInv, RunsOnce
<1>7. OrderOK(order', Busy', current')
  BY <1>1, <1>2, <1>5, Zenon DEF DispatchInv, OrderOK
<1> QED
  BY <1>2, <1>5, <1>6, <1>7, Zenon DEF DispatchInv, WorkersOK, OrderOK

\* The entries load_current() consumes are entries of the order.
LEMMA SlotsOfOrder ==
    ASSUME NEW ord, NEW slot \in TimeSlots(ord)
    PROVE  slot \subseteq ord
BY Zenon DEF TimeSlots

\* The step of a worker that loads the next time slot.
LEMMA LoadCurrentStep ==
    ASSUME DispatchInv, NEW w \in Workers, LoadCurrent(w)
    PROVE  DispatchInv'
<1> DEFINE found(slot) == {e \in slot : e.op \in live}
           free(slot) == {e.op : e \in {f \in found(slot) : ~f.taken}}
<1>1. MembersOK' /\ live' = live /\ current = {} /\ worker[w].pc = "loop"
  BY MembersSame, Zenon DEF LoadCurrent
<1>2. PICK slot \in TimeSlots(NewOrder) :
        /\ order' = NewOrder \ slot
        /\ IF free(slot) # {}
           THEN \E o \in free(slot) : /\ worker' = Take(w, o, NotifyAll(worker))
                                      /\ current' = free(slot) \ {o}
           ELSE /\ worker' = [(IF found(slot) # {} THEN NotifyAll(worker) ELSE worker)
                                EXCEPT ![w].pc = "wait"]
                /\ current' = {}
  BY Zenon DEF LoadCurrent
<1>3. slot \subseteq NewOrder
  BY SMTT(60), SlotsOfOrder
<1>4. OrderOK(NewOrder, Busy, {})
  BY SMTT(60), <1>1, NewOrderOK
<1>5. \A x \in free(slot) : x \in live /\ x \notin Busy
  BY <1>3, <1>4, Zenon DEF OrderOK
<1>6. \A x \in free(slot), e \in NewOrder \ slot : e.op # x
  BY <1>3, <1>4, Zenon DEF OrderOK
<1>7. WorkersOK(worker) /\ WorkersOK(NotifyAll(worker)) /\ SameOps(NotifyAll(worker))
  BY NotifyKeepsOps, Zenon DEF DispatchInv, SameOps
<1>8. CASE free(slot) # {}
  <2>1. PICK o \in free(slot) : /\ worker' = Take(w, o, NotifyAll(worker))
                                /\ current' = free(slot) \ {o}
    BY <1>2, <1>8, Zenon
  <2> HIDE DEF free
  <2>2. o \in live /\ o \notin Busy /\ o \in Ops
    BY <1>5, Zenon DEF DispatchInv, MembersOK
  <2>3. /\ WorkersOK(worker') /\ Busy' = Busy \cup {o}
        /\ \A u, v \in Workers : u # v /\ worker'[u].op # None
                    => worker'[u].op # worker'[v].op
    BY <1>1, <1>7, <2>1, <2>2, TakeOps, Zenon
  <2>4. RunsOnce'
    BY <1>1, <1>5, <2>1, <2>2, <2>3, Zenon DEF DispatchInv, RunsOnce
  <2>5. OrderOK(order', Busy', current')
    <3>1. order' = NewOrder \ slot
      BY <1>2, Zenon
    <3> QED
      BY <1>4, <1>6, <2>1, <2>3, <3>1, Zenon DEF OrderOK
  <2> QED
    BY <1>1, <2>3, <2>4, <2>5, Zenon DEF DispatchInv, WorkersOK, OrderOK
<1>9. CASE free(slot) = {}
  <2> HIDE DEF free
  <2>1. current' = {} /\ order' = NewOrder \ slot
    BY <1>2, <1>9, Zenon
  <2>2. PICK ws : WorkersOK(ws) /\ SameOps(ws) /\ ws[w].pc = "loop"
                  /\ worker' = [ws EXCEPT ![w].pc = "wait"]
    <3>1. worker' = [NotifyAll(worker) EXCEPT ![w].pc = "wait"]
          \/ worker' = [worker EXCEPT ![w].pc = "wait"]
      BY <1>2, <1>9, Zenon
    <3>2. NotifyAll(worker)[w] = worker[w]
      BY SMTT(60), <1>1, <1>7, NotifyKeepsOps
    <3>3. SameOps(worker)
      BY Zenon DEF SameOps
    <3> QED
      BY <1>1, <1>7, <3>1, <3>2, <3>3, Zenon
  <2>3. WorkersOK(worker') /\ SameOps(worker')
    BY SMTT(60), <2>2 DEF WorkersOK, WorkerType, SameOps, Pc, Idle
  <2>4. Busy' = Busy
    BY SMTT(60), <2>3, SameBusy
  <2>5. RunsOnce'
    BY <1>1, <2>1, <2>3, <2>4, Zenon DEF DispatchInv, RunsOnce, SameOps
  <2>6. OrderOK(order', Busy', current')
    BY <1>4, <2>1, <2>4, Zenon DEF OrderOK
  <2> QED
    BY <1>1, <2>3, <2>5, <2>6, Zenon DEF DispatchInv, WorkersOK, OrderOK
<1> QED
  BY <1>8, <1>9, Zenon

\* A worker gives its operation back: it alone stops being busy.
LEMMA ReleaseOps ==
    ASSUME DispatchInv, NEW w \in Workers, worker[w].op # None,
           NEW ws, WorkersOK(ws), SameOps(ws), worker' = Release(w, ws)
    PROVE  /\ WorkersOK(worker')
           /\ Busy' = Busy \ {worker[w].op}
           /\ \A u, v \in Workers : u # v /\ worker'[u].op # None
                    => worker'[u].op # worker'[v].op
<1>1. worker'[w] = [pc |-> "loop", op |-> None] /\ \A v \in Workers \ {w} : worker'[v] = ws[v]
  BY SMTT(60) DEF Release, WorkersOK, WorkerType
<1>2. WorkersOK(worker')
  BY SMTT(60), <1>1 DEF Release, WorkersOK, WorkerType, Pc, Idle
<1>3. \A v \in Workers \ {w} : worker'[v].op = worker[v].op
  BY <1>1, Zenon DEF SameOps
<1>4. worker'[w].op = None
  BY SMTT(60), <1>1
<1>5. \A u, v \in Workers : u # v /\ worker[u].op # None => worker[u].op # worker[v].op
  BY Zenon DEF DispatchInv, RunsOnce
<1>6. \A x : x \in Busy' => x \in Busy \ {worker[w].op}
  <2> TAKE x
  <2> HAVE x \in Busy'
  <2>1. PICK v \in Workers : worker'[v].op = x /\ x # None
    BY Zenon DEF Busy
  <2>2. v # w /\ worker[v].op = x
    BY <1>3, <1>4, <2>1, Zenon
  <2> QED
    BY <1>5, <2>1, <2>2, Zenon DEF Busy
<1>7. \A x : x \in Busy \ {worker[w].op} => x \in Busy'
  BY <1>3, Zenon DEF Busy
<1>8. Busy' = Busy \ {worker[w].op}
  BY <1>6, <1>7, Zenon
<1>9. ASSUME NEW u \in Workers, NEW v \in Workers, u # v, worker'[u].op # None
      PROVE  worker'[u].op # worker'[v].op
  BY <1>3, <1>4, <1>5, <1>9, Zenon
<1> QED
  BY <1>2, <1>8, <1>9, Zenon

\* A worker done with its operation keeps the invariant: it retires it, leaves
\* it blocked, updates it, or has caught its exception.
LEMMA FinishStep ==
    ASSUME DispatchInv, NEW w \in Workers,
           Retire(w) \/ LeaveBlocked(w) \/ Update(w) \/ CatchException(w)
    PROVE  DispatchInv'
<1>1. worker[w].pc \in {"done", "threw"} /\ order' = order
  BY Zenon DEF Retire, LeaveBlocked, Update, CatchException
<1>2. worker[w].op # None
  BY SMTT(60), <1>1 DEF DispatchInv, WorkersOK, Idle
<1>3. worker[w].op \in Busy
  BY <1>2, Zenon DEF Busy
<1>4. worker' = Release(w, worker) \/ worker' = Release(w, NotifyAll(worker))
  BY Zenon DEF Retire, LeaveBlocked, Update, CatchException
<1>5. WorkersOK(worker) /\ SameOps(worker)
  BY Zenon DEF DispatchInv, SameOps
<1>6. WorkersOK(NotifyAll(worker)) /\ SameOps(NotifyAll(worker))
  BY <1>5, NotifyKeepsOps, Zenon DEF SameOps
<1>7. /\ WorkersOK(worker')
      /\ Busy' = Busy \ {worker[w].op}
      /\ \A u, v \in Workers : u # v /\ worker'[u].op # None
               => worker'[u].op # worker'[v].op
  BY <1>2, <1>4, <1>5, <1>6, ReleaseOps, Zenon
<1>8. current' = current \/ current' = {}
  BY Zenon DEF Retire, LeaveBlocked, Update, CatchException
<1>9. MembersOK' /\ live \ {worker[w].op} \subseteq live'
  <2>1. CASE Retire(w)
    BY <2>1, OpsAssumption, Zenon DEF Retire, Kept, MembersOK, DispatchInv
  <2>2. CASE LeaveBlocked(w) \/ CatchException(w)
    BY <2>2, MembersSame, Zenon DEF LeaveBlocked, CatchException
  <2>3. CASE Update(w)
    BY <2>3, JoinGrows, Zenon DEF Update
  <2> QED
    BY <2>1, <2>2, <2>3, Zenon
<1>10. RunsOnce'
  BY <1>3, <1>7, <1>8, <1>9, Zenon DEF DispatchInv, RunsOnce
<1>11. OrderOK(order', Busy', current')
  BY <1>1, <1>7, <1>8, Zenon DEF DispatchInv, OrderOK
<1> QED
  BY <1>7, <1>9, <1>10, <1>11, Zenon DEF DispatchInv, WorkersOK, OrderOK

-----------------------------------------------------------------------------

\* Every step keeps the invariant.
LEMMA DispatchNext == DispatchInv /\ [Next]_vars => DispatchInv'
<1> SUFFICES ASSUME DispatchInv, [Next]_vars
             PROVE  DispatchInv'
  OBVIOUS
<1>1. ASSUME NEW w \in Workers, WorkerStep(w)
      PROVE  DispatchInv'
  BY <1>1, MoveOn, WaitStep, TakeCurrentStep, LoadCurrentStep, FinishStep, Zenon
     DEF WorkerStep
<1>2. CASE UNCHANGED vars
  BY <1>2, UnchangedOK, MembersSame, KeepOps, Zenon DEF vars, sched
<1> QED
  BY <1>1, <1>2, ClientStep, Zenon DEF Next

\* In every behaviour of the processor no operation is given to two workers at
\* once and only operations of the graph are run or listed, whatever the
\* operations, their names and the number of worker threads.
THEOREM DispatchedOnce == Spec => []RunsOnce
<1>1. DispatchInv => RunsOnce
  BY Zenon DEF DispatchInv
<1> QED
  BY <1>1, DispatchInit, DispatchNext, PTL DEF Spec

-----------------------------------------------------------------------------
(* Perpetual operations. *)

\* The operation objects have their type, and no perpetual operation is staged
\* as a sub-operation.
ObjectsOK ==
    /\ op \in [Ops -> Operation]
    /\ \A o \in Ops : op[o].subs \cap Perpetual = {}

\* PerpetualKept in inductive form.
KeptInv ==
    /\ perpetual \subseteq Perpetual
    /\ Perpetual \cap (live \cup perpetual) \subseteq submitted
    /\ PerpetualKept

\* The initial state satisfies both.
LEMMA KeptInit == Init => ObjectsOK /\ KeptInv
<1> SUFFICES ASSUME Init
             PROVE  ObjectsOK /\ KeptInv
  OBVIOUS
<1>1. ObjectsOK
  BY SMTT(60), OpsAssumption DEF Init, ObjectsOK, Operation, DepNames
<1>2. KeptInv
  BY Zenon DEF Init, KeptInv, PerpetualKept
<1> QED
  BY <1>1, <1>2, Zenon

\* What a worker runs is an operation.
LEMMA RunsAnOperation ==
    ASSUME DispatchInv, NEW w \in Workers, worker[w].pc \notin Idle
    PROVE  worker[w].op \in Ops
BY SMTT(60) DEF DispatchInv, WorkersOK, WorkerType

\* Assignments to an operation's flags, and complete_ok(), keep its type and
\* its sub-operations, ...
LEMMA FlagUpdates ==
    ASSUME NEW r \in Operation, NEW b \in BOOLEAN
    PROVE  \A q \in { [r EXCEPT !.complete = b], [r EXCEPT !.blocked = b],
                       [r EXCEPT !.unblockOnExit = b],
                       [r EXCEPT !.unblockOnExit = TRUE, !.blocked = FALSE],
                       [r EXCEPT !.complete = TRUE, !.exc = {}, !.dep = {}, !.obs = {}] } :
             q \in Operation /\ q.subs = r.subs
<1>1. [r EXCEPT !.complete = b] \in Operation /\ [r EXCEPT !.complete = b].subs = r.subs
  BY ZenonT(60) DEF Operation
<1>2. [r EXCEPT !.blocked = b] \in Operation /\ [r EXCEPT !.blocked = b].subs = r.subs
  BY ZenonT(60) DEF Operation
<1>3. /\ [r EXCEPT !.unblockOnExit = b] \in Operation
      /\ [r EXCEPT !.unblockOnExit = b].subs = r.subs
  BY ZenonT(60) DEF Operation
<1>4. /\ [r EXCEPT !.unblockOnExit = TRUE, !.blocked = FALSE] \in Operation
      /\ [r EXCEPT !.unblockOnExit = TRUE, !.blocked = FALSE].subs = r.subs
  BY ZenonT(60) DEF Operation
<1>5. /\ [r EXCEPT !.complete = TRUE, !.exc = {}, !.dep = {}, !.obs = {}] \in Operation
      /\ [r EXCEPT !.complete = TRUE, !.exc = {}, !.dep = {}, !.obs = {}].subs = r.subs
  BY ZenonT(60) DEF Operation
<1> QED
  BY <1>1, <1>2, <1>3, <1>4, <1>5, Zenon

\* ... and a return of execute() with new sets keeps its type.
LEMMA ReturnUpdate ==
    ASSUME NEW r \in Operation, NEW c \in Change, NEW q,
           q = [r EXCEPT !.exc = c.exc, !.dep = c.dep \cup c.subs, !.obs = c.obs,
                         !.subs = c.subs, !.runs = r.runs + 1]
    PROVE  q \in Operation /\ q.subs = c.subs
<1>1. /\ c.exc \subseteq DepNames /\ c.dep \cup c.subs \subseteq DepNames
      /\ c.obs \subseteq DepNames /\ c.subs \subseteq Ops
  BY SMTT(60) DEF Change, DepNames
<1>2. r.runs + 1 \in Nat
  BY SMTT(60) DEF Operation
<1> QED
  BY <1>1, <1>2, ZenonT(60) DEF Operation

\* One operation changes.
LEMMA OneObject ==
    ASSUME ObjectsOK, NEW o \in Ops, NEW q \in Operation, q.subs \cap Perpetual = {},
           op' = [op EXCEPT ![o] = q]
    PROVE  ObjectsOK'
BY SMTT(60) DEF ObjectsOK

\* execute() returns with new sets, and its sub-operations get their permit.
LEMMA ReturnObjects ==
    ASSUME ObjectsOK, NEW o \in Ops, NEW c \in Change, c.subs \cap Perpetual = {},
           op' = Changed(o, c)
    PROVE  ObjectsOK'
<1>1. ASSUME NEW s \in Ops
      PROVE  op'[s] \in Operation /\ op'[s].subs \cap Perpetual = {}
  <2>1. CASE s = o
    <3>1. op'[o] = [op[o] EXCEPT !.exc = c.exc, !.dep = c.dep \cup c.subs,
                                 !.obs = c.obs, !.subs = c.subs, !.runs = op[o].runs + 1]
      BY SMTT(60) DEF Changed
    <3>2. PICK r \in Operation : r = op[o]
      BY Zenon DEF ObjectsOK
    <3>3. PICK q : q = op'[o]
      BY Zenon
    <3>4. q = [r EXCEPT !.exc = c.exc, !.dep = c.dep \cup c.subs,
                        !.obs = c.obs, !.subs = c.subs, !.runs = r.runs + 1]
      BY <3>1, <3>2, <3>3, Zenon
    <3>5. q \in Operation /\ q.subs = c.subs
      BY ONLY r \in Operation, c \in Change, <3>4, ReturnUpdate, Zenon
    <3> QED
      BY <2>1, <3>3, <3>5, Zenon
  <2>2. CASE s # o
    <3>1. op'[s] = [op[s] EXCEPT !.perm = {s}] \/ op'[s] = op[s]
      BY <2>2, SMTT(60) DEF Changed
    <3> QED
      BY <3>1, SMTT(60) DEF ObjectsOK, Operation
  <2> QED
    BY <2>1, <2>2, Zenon
<1>2. op' = [s \in Ops |-> op'[s]]
  BY Zenon DEF Changed
<1> QED
  BY <1>1, <1>2, SMTT(60) DEF ObjectsOK

\* Additions keep the objects: they reset perpetual operations at most.
LEMMA JoinObjects ==
    ASSUME ObjectsOK, NEW g, NEW new, NEW names, Join(g, new, names)
    PROVE  ObjectsOK'
<1>1. op' = [o \in Ops |-> IF o \in Returning(names) THEN [op[o] EXCEPT !.complete = FALSE]
                                                   ELSE op[o]]
  BY Zenon DEF Join
<1>2. \A o \in Ops : op'[o] \in Operation /\ op'[o].subs = op[o].subs
  BY <1>1, FlagUpdates, Zenon DEF ObjectsOK
<1> QED
  BY <1>1, <1>2, SMTT(60) DEF ObjectsOK

\* Every step keeps the objects.
LEMMA ObjectsNext ==
    ASSUME DispatchInv, ObjectsOK, [Next]_vars
    PROVE  ObjectsOK'
<1>0. ASSUME op' = op PROVE ObjectsOK'
  BY <1>0, Zenon DEF ObjectsOK
<1>1. CASE AddOperations
  BY <1>1, JoinObjects, Zenon DEF AddOperations
<1>2. ASSUME NEW o \in Later, AddOperation(o) PROVE ObjectsOK'
  BY <1>0, <1>2, JoinObjects, Zenon DEF AddOperation
<1>3. ASSUME NEW n \in Names, Activate(n) PROVE ObjectsOK'
  BY <1>3, JoinObjects, Zenon DEF Activate
<1>4. ASSUME NEW n, Unblock(n) PROVE ObjectsOK'
  <2>1. PICK named : op' = [o \in Ops |-> IF o \in named THEN Unblocked(o) ELSE op[o]]
    BY <1>4, Zenon DEF Unblock
  <2>2. \A o \in Ops : op'[o] \in Operation /\ op'[o].subs = op[o].subs
    BY <2>1, FlagUpdates, Zenon DEF ObjectsOK, Unblocked
  <2> QED
    BY <2>1, <2>2, SMTT(60) DEF ObjectsOK
<1>5. ASSUME NEW o \in Blockers, Satisfy(o) PROVE ObjectsOK'
  BY <1>0, <1>5, Zenon DEF Satisfy
<1>6. CASE WaitForEmpty \/ Shutdown
  BY <1>0, <1>6, Zenon DEF WaitForEmpty, Shutdown
<1>7. ASSUME NEW w \in Workers, WorkerStep(w) PROVE ObjectsOK'
  <2>1. CASE Exit(w) \/ TakeCurrent(w) \/ LoadCurrent(w) \/ Wait(w) \/ IsBlocked(w)
             \/ FindBlocked(w) \/ Throw(w) \/ Retire(w) \/ LeaveBlocked(w)
             \/ CatchException(w)
    BY <1>0, <2>1, Zenon DEF Exit, TakeCurrent, LoadCurrent, Wait, IsBlocked, FindBlocked,
       Throw, Retire, LeaveBlocked, CatchException
  <2>2. CASE PreRun(w) \/ Block(w)
    <3>1. worker[w].op \in Ops
      BY <2>2, RunsAnOperation, SMTT(60) DEF PreRun, Block, Idle
    <3>2. \E b \in BOOLEAN :
            \/ op' = [op EXCEPT ![worker[w].op] = [op[worker[w].op] EXCEPT !.unblockOnExit = b]]
            \/ op' = [op EXCEPT ![worker[w].op] = [op[worker[w].op] EXCEPT !.blocked = b]]
      BY <2>2, Zenon DEF PreRun, Block
    <3>3. PICK q \in Operation : /\ q.subs = op[worker[w].op].subs
                                 /\ op' = [op EXCEPT ![worker[w].op] = q]
      BY <3>1, <3>2, FlagUpdates, Zenon DEF ObjectsOK
    <3> QED
      BY <3>1, <3>3, OneObject, Zenon DEF ObjectsOK
  <2>3. CASE PostRun(w)
    <3>1. worker[w].op \in Ops
      BY <2>3, RunsAnOperation, SMTT(60) DEF PostRun, Idle
    <3>2. PICK b \in BOOLEAN : op' = [op EXCEPT ![worker[w].op].blocked = b]
      BY <2>3, Zenon DEF PostRun, StaysBlocked
    <3> QED
      BY <3>1, <3>2, SMTT(60) DEF ObjectsOK, Operation
  <2>4. CASE Complete(w)
    <3>1. worker[w].op \in Ops
      BY <2>4, RunsAnOperation, SMTT(60) DEF Complete, Idle
    <3>2. op' = [op EXCEPT ![worker[w].op] = Completed(worker[w].op)]
      BY <2>4, Zenon DEF Complete
    <3>3. /\ Completed(worker[w].op) \in Operation
          /\ Completed(worker[w].op).subs = op[worker[w].op].subs
      BY <3>1, FlagUpdates, Zenon DEF ObjectsOK, Completed
    <3> QED
      BY <3>1, <3>2, <3>3, OneObject, Zenon DEF ObjectsOK
  <2>5. CASE Return(w)
    <3>1. worker[w].op \in Ops
      BY <2>5, RunsAnOperation, SMTT(60) DEF Return, Idle
    <3> DEFINE o == worker[w].op
               c == Changes[o][op[o].runs + 1]
    <3>2. op' = Changed(o, c) /\ op[o].runs < Len(Changes[o])
      BY <2>5, Zenon DEF Return
    <3>3. op[o].runs + 1 \in DOMAIN Changes[o] /\ Changes[o] \in Seq(Change)
      BY <3>1, <3>2, OpsAssumption, SMTT(60) DEF ObjectsOK, Operation
    <3>4. c \in Change /\ c.subs \cap Perpetual = {}
      BY <3>1, <3>3, PerpetualAssumption, SMTT(60)
    <3> HIDE DEF c
    <3> QED
      BY <3>1, <3>2, <3>4, ReturnObjects, Zenon
  <2>6. CASE Update(w)
    BY <2>6, JoinObjects, Zenon DEF Update
  <2> QED
    BY <1>7, <2>1, <2>2, <2>3, <2>4, <2>5, <2>6, Zenon DEF WorkerStep
<1>8. CASE UNCHANGED vars
  BY <1>0, <1>8, Zenon DEF vars
<1> QED
  BY <1>1, <1>2, <1>3, <1>4, <1>5, <1>6, <1>7, <1>8, Zenon DEF Next

\* Additions, with what they bring back, keep every perpetual operation in one
\* place, provided that a perpetual operation is added only once.
LEMMA JoinKept ==
    ASSUME KeptInv, NEW g, NEW new, NEW names, Join(g, new, names),
           new \cap Perpetual \cap submitted = {},
           submitted \subseteq submitted',
           new \cap Perpetual \subseteq submitted',
           (submitted' \ submitted) \cap Perpetual \subseteq new
    PROVE  KeptInv'
<1> DEFINE back == Returning(names)
<1>1. live' = live \cup new \cup back /\ perpetual' = perpetual \ back
  BY Zenon DEF Join, Remaining
<1>2. back \subseteq perpetual
  BY Zenon DEF Returning
<1> HIDE DEF back
<1>3. perpetual' \subseteq Perpetual
  BY <1>1, Zenon DEF KeptInv
<1>4. Perpetual \cap (live' \cup perpetual') \subseteq submitted'
  BY <1>1, <1>2, SMTT(60) DEF KeptInv
<1>5. ASSUME NEW p \in Perpetual, p \in submitted'
      PROVE  (p \in live') # (p \in perpetual')
  <2>1. CASE p \in submitted
    <3>1. (p \in live) # (p \in perpetual) /\ p \notin new
      BY <1>5, <2>1, Zenon DEF KeptInv, PerpetualKept
    <3> QED
      BY <1>1, <1>2, <3>1, SMTT(60)
  <2>2. CASE p \notin submitted
    <3>1. p \in new /\ p \notin perpetual
      BY <1>5, <2>2, Zenon DEF KeptInv
    <3> QED
      BY <1>1, <3>1, SMTT(60)
  <2> QED
    BY <2>1, <2>2, Zenon
<1>6. PerpetualKept'
  BY <1>5, Zenon DEF PerpetualKept
<1> QED
  BY <1>3, <1>4, <1>6, Zenon DEF KeptInv

\* Every step keeps the perpetual operations in one place.
LEMMA KeptNext ==
    ASSUME DispatchInv, ObjectsOK, KeptInv, [Next]_vars
    PROVE  KeptInv'
<1>0. ASSUME UNCHANGED <<members, submitted>> PROVE KeptInv'
  BY <1>0, Zenon DEF KeptInv, PerpetualKept, members
<1>1. CASE AddOperations
  <2>1. submitted = {} /\ submitted' = Startup
        /\ Join(graph, Startup, DependenciesOf(Startup))
    BY <1>1, Zenon DEF AddOperations
  <2> QED
    BY <2>1, JoinKept, Zenon
<1>2. ASSUME NEW o \in Later, AddOperation(o) PROVE KeptInv'
  <2>1. o \notin submitted /\ submitted' = submitted \cup {o}
    BY <1>2, Zenon DEF AddOperation
  <2>2. CASE ExclusiveName[o] \cap exclusive # {}
    <3>1. UNCHANGED members /\ o \notin Perpetual
      BY <1>2, <2>2, PerpetualAssumption, Zenon DEF AddOperation
    <3> QED
      BY <2>1, <3>1, Zenon DEF KeptInv, PerpetualKept, members
  <2>3. CASE ~(ExclusiveName[o] \cap exclusive # {})
    <3>1. Join(graph, {o}, op[o].dep)
      BY <1>2, <2>3, Zenon DEF AddOperation
    <3> QED
      BY <2>1, <3>1, JoinKept, Zenon
  <2> QED
    BY <2>2, <2>3, Zenon
<1>3. ASSUME NEW n \in Names, Activate(n) PROVE KeptInv'
  <2>1. Join(graph, {}, {n}) /\ submitted' = submitted
    BY <1>3, Zenon DEF Activate
  <2>2. {} \cap Perpetual = {} /\ {} \cap Perpetual \cap submitted = {}
        /\ (submitted' \ submitted) \cap Perpetual = {}
    BY <2>1, Zenon
  <2> QED
    BY <2>1, <2>2, JoinKept, Zenon
<1>4. ASSUME NEW n, Unblock(n) PROVE KeptInv'
  BY <1>0, <1>4, Zenon DEF Unblock
<1>5. ASSUME NEW o \in Blockers, Satisfy(o) PROVE KeptInv'
  BY <1>0, <1>5, Zenon DEF Satisfy
<1>6. CASE WaitForEmpty \/ Shutdown
  BY <1>0, <1>6, Zenon DEF WaitForEmpty, Shutdown
<1>7. ASSUME NEW w \in Workers, WorkerStep(w) PROVE KeptInv'
  <2>1. CASE Exit(w) \/ TakeCurrent(w) \/ LoadCurrent(w) \/ Wait(w) \/ PreRun(w)
             \/ IsBlocked(w) \/ FindBlocked(w) \/ Block(w)
    BY <1>0, <2>1, Zenon DEF Exit, TakeCurrent, LoadCurrent, Wait, PreRun, IsBlocked,
       FindBlocked, Block, clients
  <2>2. CASE Return(w) \/ Complete(w) \/ Throw(w) \/ PostRun(w) \/ LeaveBlocked(w)
             \/ CatchException(w)
    BY <1>0, <2>2, Zenon DEF Return, Complete, Throw, PostRun, LeaveBlocked,
       CatchException, clients
  <2>3. CASE Retire(w)
    <3> DEFINE o == worker[w].op
    <3>1. /\ live' = live \ {o} /\ perpetual' = perpetual \cup ({o} \cap Perpetual)
          /\ submitted' = submitted
      BY <2>3, Zenon DEF Retire, Kept, clients
    <3>2. o \in live
      <4>1. o # None
        BY <2>3, SMTT(60) DEF Retire, DispatchInv, WorkersOK, Idle
      <4> QED
        BY <4>1, Zenon DEF DispatchInv, RunsOnce, Busy
    <3> HIDE DEF o
    <3>3. PerpetualKept'
      <4> SUFFICES ASSUME NEW p \in Perpetual, p \in submitted
                   PROVE  (p \in live') # (p \in perpetual')
        BY <3>1, Zenon DEF PerpetualKept
      <4>1. (p \in live) # (p \in perpetual)
        BY Zenon DEF KeptInv, PerpetualKept
      <4> QED
        BY <3>1, <3>2, <4>1, SMTT(60)
    <3>4. /\ perpetual' \subseteq Perpetual
          /\ Perpetual \cap (live' \cup perpetual') \subseteq submitted'
      BY <3>1, <3>2, SMTT(60) DEF KeptInv
    <3> QED
      BY <3>3, <3>4, Zenon DEF KeptInv
  <2>4. CASE Update(w)
    <3>1. worker[w].op \in Ops
      BY <2>4, RunsAnOperation, SMTT(60) DEF Update, Idle
    <3> DEFINE o == worker[w].op
               new == {s \in Ops : s \in op[o].subs \ live /\ ~op[s].complete}
    <3>2. /\ Join(Rebuilt(graph, o), new, DependenciesOf({o} \cup new))
          /\ new \subseteq op[worker[w].op].subs
      BY <2>4, Zenon DEF Update
    <3> HIDE DEF new, o
    <3>3. new \cap Perpetual = {}
      BY <3>1, <3>2, Zenon DEF ObjectsOK
    <3>4. submitted' = submitted
      BY <2>4, Zenon DEF Update, clients
    <3> QED
      BY <3>2, <3>3, <3>4, JoinKept, Zenon
  <2> QED
    BY <1>7, <2>1, <2>2, <2>3, <2>4, Zenon DEF WorkerStep
<1>8. CASE UNCHANGED vars
  BY <1>0, <1>8, Zenon DEF vars, clients
<1> QED
  BY <1>1, <1>2, <1>3, <1>4, <1>5, <1>6, <1>7, <1>8, Zenon DEF Next

\* A perpetual operation that was added is, in every state of every behaviour,
\* either in the graph or in perpetual_ops.
THEOREM PerpetualNeverLost == Spec => []PerpetualKept
<1>1. Init => DispatchInv /\ ObjectsOK /\ KeptInv
  BY DispatchInit, KeptInit, Zenon
<1>2. DispatchInv /\ ObjectsOK /\ KeptInv /\ [Next]_vars => (DispatchInv /\ ObjectsOK /\ KeptInv)'
  BY DispatchNext, ObjectsNext, KeptNext, Zenon
<1>3. KeptInv => PerpetualKept
  BY Zenon DEF KeptInv
<1> QED
  BY <1>1, <1>2, <1>3, PTL DEF Spec
=============================================================================
