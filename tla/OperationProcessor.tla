-------------------------- MODULE OperationProcessor --------------------------
(***************************************************************************)
(* The scheduler of the Master: OperationProcessor keeps the outstanding   *)
(* operations as the vertices of a dependency graph and a pool of worker   *)
(* threads executes them, those first that depend on nothing.              *)
(*                                                                         *)
(* An operation names its exclusivities, dependencies and obstructions.    *)
(* Operations with a common exclusivity run one at a time in the order     *)
(* they were added; an operation with a dependency (or exclusivity) waits  *)
(* for those that have the name as an obstruction, and with a dependency   *)
(* also for those that have it as an exclusivity.                          *)
(*                                                                         *)
(* Everything between a lock and an unlock of ThreadContext::mutex is one  *)
(* step here.  An operation's execute() runs outside that mutex.  What it  *)
(* does is abstract: it completes, throws, blocks until a condition holds, *)
(* or returns to be run again with new sets and new sub-operations.        *)
(* remove_operation(), whose one caller is OperationRegisterServer, is not *)
(* part of this specification, nor is the failure inducer.                 *)
(***************************************************************************)
EXTENDS Naturals, Sequences, FiniteSets, FiniteSetsExt

CONSTANTS
    Ops,            \* the operations
    Names,          \* dependency strings
    Workers,        \* the threads of the pool
    None,           \* absence of an operation
    Sets,           \* [Ops -> [exc, dep, obs : SUBSET Names]], as constructed
    Changes,        \* what successive runs of execute() change, see Change
    Perpetual,      \* those for which is_perpetual() holds
    StateOnly,      \* those that end with set_state(COMPLETE), which keeps
                    \* their sets, and not with complete_ok()
    Blockers,       \* those that block() until their condition holds
    ExclusiveName,  \* [Ops -> SUBSET Names]: {name()} if exclusive(), or {}
    Startup,        \* those passed to add_operations() when the Master starts
    Later,          \* those passed to add_operation() later
    Bound           \* [CallKind -> Nat]: how often each of these happens

\* A sub-operation obstructs its own name: the "<op> subop <subop> <hash>"
\* string of Operation::stage_subop().
DepNames == Names \cup Ops

\* The sets an operation leaves behind when execute() returns before the
\* operation is complete, and the sub-operations it has staged.
Change == [exc : SUBSET Names, dep : SUBSET Names, obs : SUBSET Names,
           subs : SUBSET Ops]

\* activate(), an exception thrown by execute(), shutdown(), wait_for_empty().
CallKind == {"activate", "throw", "shutdown", "wait"}

ASSUME OpsAssumption ==
    /\ None \notin Ops
    /\ IsFiniteSet(Ops) /\ IsFiniteSet(Names)
    /\ Sets \in [Ops -> [exc : SUBSET Names, dep : SUBSET Names, obs : SUBSET Names]]
    /\ \A o \in Ops : Changes[o] \in Seq(Change)
    /\ ExclusiveName \in [Ops -> SUBSET Names]
    /\ Startup \subseteq Ops /\ Later \subseteq Ops
    /\ Perpetual \subseteq Ops /\ StateOnly \subseteq Perpetual
    /\ Blockers \subseteq Ops
    /\ Bound \in [CallKind -> Nat]

\* The perpetual operations have obstructions only, are not exclusive() and are
\* never staged as sub-operations.
ASSUME PerpetualAssumption ==
    /\ \A p \in Perpetual : /\ Sets[p].exc = {} /\ Sets[p].dep = {}
                            /\ ExclusiveName[p] = {}
                            /\ Changes[p] = <<>>
    /\ \A o \in Ops : \A i \in DOMAIN Changes[o] : Changes[o][i].subs \cap Perpetual = {}

VARIABLES
    live,       \* live: the operations that have a vertex
    graph,      \* the edges between them and the three indexes
    perpetual,  \* perpetual_ops
    exclusive,  \* exclusive_ops
    op,         \* the Operation objects
    order,      \* execution_order from execution_order_iter on
    current,    \* the entries of current from current_iter on
    active,     \* current_active
    nblocked,   \* current_blocked
    need,       \* need_order_recompute
    worker,     \* [Workers -> [pc, op]]
    shutdown,   \* shutdown
    waiter,     \* the thread in wait_for_empty()
    submitted,  \* operations handed to add_operation() so far
    dropped,    \* those refused with MASTER_OPERATION_IN_PROGRESS
    ready,      \* the blockers whose condition holds
    owed,       \* those of them unblock() is still to be called for
    count       \* [CallKind -> Nat]: how often each has happened

sched == <<order, current, active, nblocked, need>>
clients == <<waiter, submitted, dropped, ready, owed, count>>
members == <<live, graph, perpetual, exclusive>>
vars == <<members, op, sched, worker, shutdown, clients>>

Graph == [edges : SUBSET (Ops \X Ops \X BOOLEAN),   \* from, to, permanent
          excl : Seq(DepNames \X Ops),              \* exclusivity_index
          dep : SUBSET (DepNames \X Ops),           \* dependency_index
          obs : SUBSET (DepNames \X Ops)]           \* obstruction_index

Operation == [exc : SUBSET DepNames, dep : SUBSET DepNames, obs : SUBSET DepNames,
              perm : SUBSET Ops,            \* m_obstructions_permanent
              subs : SUBSET Ops,            \* m_sub_ops
              runs : Nat,                   \* how far the state machine got
              complete : BOOLEAN,
              blocked : BOOLEAN, unblockOnExit : BOOLEAN]

Entry == [op : Ops, time : Nat, taken : BOOLEAN]

\* Where a worker is: about to lock the mutex, in cond.wait(), in pre_run(),
\* before is_blocked(), in execute(), in block(), in post_run(), about to lock
\* the mutex after a return of execute() or after an exception, or gone.
Pc == {"loop", "wait", "pre_run", "is_blocked", "execute", "block", "post_run",
       "done", "threw", "exit"}

\* Type invariant of the processor, its operations and its worker threads.
TypeOK ==
    /\ live \subseteq Ops
    /\ graph \in Graph
    /\ perpetual \subseteq Perpetual
    /\ exclusive \subseteq Names
    /\ op \in [Ops -> Operation]
    /\ order \subseteq Entry
    /\ current \subseteq Ops
    /\ active \subseteq Ops
    /\ nblocked \in Nat
    /\ need \in BOOLEAN
    /\ worker \in [Workers -> [pc : Pc, op : Ops \cup {None}]]
    /\ shutdown \in BOOLEAN
    /\ waiter \in {"none", "waiting", "notified", "returned"}
    /\ submitted \subseteq Ops
    /\ dropped \subseteq submitted
    /\ ready \subseteq Blockers /\ owed \subseteq ready
    /\ count \in [CallKind -> Nat]

Busy == {worker[w].op : w \in Workers} \ {None}     \* the busy property

-----------------------------------------------------------------------------
(* The dependency graph. *)

\* Operation::obstructions()
ObstructionsOf(o) == op[o].obs \cup op[o].perm

Owners(g, n) == SelectSeq(g.excl, LAMBDA e : e[1] = n)
Depending(g, n) == {o \in Ops : <<n, o>> \in g.dep}
Obstructing(g, n) == {o \in Ops : <<n, o>> \in g.obs}
Excluding(g, n) == {e[2] : e \in {f \in Range(g.excl) : f[1] = n}}

Edges(S, T) == S \X T \X {FALSE}

\* No operation with exclusivity n has an edge to v.
IsTail(edges, n, v) == \A e \in edges : e[2] = v => n \notin op[e[1]].exc

\* Mutant: the operation is not linked to the last of those before it.
AddExclusivity_NoChain(g, v, n) ==
    [g EXCEPT !.excl = IF v \in Excluding(g, n) THEN @ ELSE Append(@, <<n, v>>)]

AddExclusivity(g, v, n) ==
    LET edges == g.edges \cup Edges({v}, Obstructing(g, n)) \cup Edges(Depending(g, n), {v})
        owners == Owners(g, n)
        tails == {i \in DOMAIN owners : IsTail(edges, n, owners[i][2])}
    IN  IF v \in Excluding(g, n)
        THEN [g EXCEPT !.edges = edges]
        ELSE [g EXCEPT !.edges = edges \cup (IF tails = {} THEN {}
                                            ELSE {<<v, owners[Min(tails)][2], TRUE>>}),
                       !.excl = Append(@, <<n, v>>)]

\* Mutant: operations that depend on the name already are not made to wait.
AddObstructions_LaterOnly(g, v) ==
    [g EXCEPT !.obs = @ \cup (ObstructionsOf(v) \X {v})]

\* add_dependency(), add_obstruction() for all the names of an operation.  They
\* return early for a name the vertex is indexed under already, which does not
\* happen: it is new or has just been purged from the index.
AddObstructions(g, v) ==
    LET names == ObstructionsOf(v)
        waiting == UNION {Excluding(g, n) \cup Depending(g, n) : n \in names}
    IN  [g EXCEPT !.edges = @ \cup Edges(waiting, {v}),
                  !.obs = @ \cup (names \X {v})]

AddDependencies(g, v) ==
    LET g1 == FoldSet(LAMBDA n, h : AddExclusivity(h, v, n), g, op[v].exc)
        hindering == UNION {Excluding(g1, n) \cup Obstructing(g1, n) : n \in op[v].dep}
        g2 == [g1 EXCEPT !.edges = @ \cup Edges({v}, hindering),
                         !.dep = @ \cup (op[v].dep \X {v})]
    IN  AddObstructions(g2, v)

\* Mutant: the vertex stays in the index.
Purged_Keeps(index, v) == index

Purged(index, v) == {e \in index : e[2] # v}

Without(g, v) ==
    [g EXCEPT !.edges = {e \in @ : e[1] # v /\ e[2] # v},
              !.excl = SelectSeq(@, LAMBDA e : e[2] # v),
              !.dep = Purged(@, v),
              !.obs = Purged(@, v)]

\* update_operation() builds all but the permanent edges of v anew.
Rebuilt(g, v) ==
    AddDependencies([g EXCEPT !.edges = {e \in @ : e[3] \/ (e[1] # v /\ e[2] # v)},
                              !.dep = Purged(@, v),
                              !.obs = Purged(@, v)], v)

\* Mutant: only those chained by an exclusivity count.
HasInEdge_Permanent(v) == \E e \in graph.edges : e[2] = v /\ e[3]

HasInEdge(v) == \E e \in graph.edges : e[2] = v

\* The perpetual operations that return to the graph when add_dependency() or
\* activate() is called for these names.
Returning(names) == {p \in perpetual : ObstructionsOf(p) \cap names # {}}

\* Mutant: an operation returned to the graph is not taken out of perpetual_ops.
Remaining_All(back) == perpetual

Remaining(back) == perpetual \ back

\* add_operation_internal() for each of the operations in new, after g has
\* been prepared, together with the perpetual operations that the new
\* dependencies bring back.  Those have obstructions only, so that it makes no
\* difference when during the additions they enter.
Join(g, new, names) ==
    LET back == Returning(names)
        g1 == FoldSet(LAMBDA p, h : AddObstructions(h, p), g, back)
    IN  /\ live' = live \cup new \cup back
        /\ perpetual' = Remaining(back)
        /\ exclusive' = exclusive \cup UNION {ExclusiveName[o] : o \in new}
        /\ op' = [o \in Ops |-> IF o \in back THEN [op[o] EXCEPT !.complete = FALSE]
                                             ELSE op[o]]
        /\ graph' = FoldSet(LAMBDA o, h : AddDependencies(h, o), g1, new)

DependenciesOf(S) == UNION {op[o].dep : o \in S}

-----------------------------------------------------------------------------
(* The execution order. *)

Successors(v) == {e[2] : e \in {f \in graph.edges : f[1] = v}}

\* The vertices from which no path has more than k edges.
Level ==
    LET l[k \in 0 .. Cardinality(live)] ==
            {v \in live : \A u \in Successors(v) : k > 0 /\ u \in l[k - 1]}
    IN  l

\* Mutant: the order does not record which operations are being run.
Taken_Never(v) == FALSE

Taken(v) == v \in Busy

\* recompute_order(): the entries of the new execution_order.  The sort is by
\* exec_time, the length of the longest path, then busy vertices first; the
\* order of equals is left open.  Vertices that reach a cycle are left out.
RecomputeOrder ==
    LET level == Level
    IN  {[op |-> v, time |-> Min({k \in DOMAIN level : v \in level[k]}), taken |-> Taken(v)] :
            v \in {u \in live : \E k \in DOMAIN level : u \in level[k]}}

\* The entries load_current() may consume.  It takes those with the exec_time
\* of the first one.  exec_time of a retired vertex is read from memory that
\* was freed, so with one in the list any prefix may be taken.
TimeSlots(ord) ==
    IF \A e \in ord : e.op \in live
    THEN {{e \in ord : \A f \in ord : e.time <= f.time}}
    ELSE {S \in SUBSET ord : S # {} /\ \A e \in S, f \in ord \ S : e.time <= f.time}

\* One more of a bounded kind of event.
Happens(k) ==
    /\ count[k] < Bound[k]
    /\ count' = [count EXCEPT ![k] = @ + 1]

NotifyAll(ws) ==
    [w \in Workers |-> IF ws[w].pc = "wait" THEN [ws[w] EXCEPT !.pc = "loop"] ELSE ws[w]]

NotifyIdle == waiter' = IF waiter = "waiting" THEN "notified" ELSE waiter

GoTo(w, pc) == worker' = [worker EXCEPT ![w].pc = pc]

Init ==
    /\ live = {} /\ perpetual = {} /\ exclusive = {}
    /\ graph = [edges |-> {}, excl |-> <<>>, dep |-> {}, obs |-> {}]
    /\ op = [o \in Ops |->
                [exc |-> Sets[o].exc, dep |-> Sets[o].dep, obs |-> Sets[o].obs,
                 perm |-> {}, subs |-> {}, runs |-> 0, complete |-> FALSE,
                 blocked |-> FALSE, unblockOnExit |-> FALSE]]
    /\ order = {} /\ current = {} /\ active = {}
    /\ nblocked = 0 /\ need = FALSE
    /\ worker = [w \in Workers |-> [pc |-> "loop", op |-> None]]
    /\ shutdown = FALSE /\ waiter = "none"
    /\ submitted = {} /\ dropped = {} /\ ready = {} /\ owed = {}
    /\ count = [k \in CallKind |-> 0]

-----------------------------------------------------------------------------
(* The operations of the class. *)

\* add_operations() with the operations collected when the Master starts.
AddOperations ==
    /\ Startup # {} /\ submitted = {}
    /\ submitted' = Startup
    /\ Join(graph, Startup, DependenciesOf(Startup))
    /\ need' = TRUE /\ current' = {}
    /\ worker' = NotifyAll(worker)
    /\ UNCHANGED <<order, active, nblocked, shutdown, waiter, dropped, ready, owed, count>>

\* add_operation().  An exclusive operation is refused while another of its
\* name is outstanding.
AddOperation(o) ==
    /\ Startup \subseteq submitted
    /\ o \notin submitted
    /\ submitted' = submitted \cup {o}
    /\ IF ExclusiveName[o] \cap exclusive # {}
       THEN /\ dropped' = dropped \cup {o}
            /\ UNCHANGED <<members, op, need, current, worker>>
       ELSE /\ Join(graph, {o}, op[o].dep)
            /\ need' = TRUE /\ current' = {}
            /\ worker' = NotifyAll(worker)
            /\ UNCHANGED dropped
    /\ UNCHANGED <<order, active, nblocked, shutdown, waiter, ready, owed, count>>

Activate(n) ==
    /\ Happens("activate")
    /\ Returning({n}) # {}
    /\ Join(graph, {}, {n})
    /\ need' = TRUE /\ current' = {}
    /\ worker' = NotifyAll(worker)
    /\ UNCHANGED <<order, active, nblocked, shutdown, waiter, submitted, dropped, ready,
                   owed>>

\* The condition a blocker waits for becomes true; the thread that made it so
\* goes on to call unblock().
Satisfy(o) ==
    /\ o \notin ready
    /\ ready' = ready \cup {o}
    /\ owed' = owed \cup {o}
    /\ UNCHANGED <<members, op, sched, worker, shutdown, waiter, submitted, dropped, count>>

Unblocked(o) == [op[o] EXCEPT !.unblockOnExit = TRUE, !.blocked = FALSE]

Unblock(n) ==
    LET named == Obstructing(graph, n) \cup Excluding(graph, n)
        woken == {o \in named : op[o].blocked}
    IN  /\ op' = [o \in Ops |-> IF o \in named THEN Unblocked(o) ELSE op[o]]
        /\ owed' = {o \in owed : n \notin Sets[o].obs}
        /\ IF woken # {}
           THEN nblocked' = 0 /\ need' = TRUE /\ worker' = NotifyAll(worker)
           ELSE UNCHANGED <<nblocked, need, worker>>
        /\ UNCHANGED <<members, order, current, active, shutdown, waiter, submitted,
                       dropped, ready, count>>

\* Mutant: the waiting threads are not woken.
Shutdown_NoNotify ==
    /\ Happens("shutdown")
    /\ shutdown' = TRUE
    /\ UNCHANGED <<members, op, sched, worker, waiter, submitted, dropped, ready, owed>>

Shutdown ==
    /\ Happens("shutdown")
    /\ shutdown' = TRUE
    /\ worker' = NotifyAll(worker)
    /\ UNCHANGED <<members, op, sched, waiter, submitted, dropped, ready, owed>>

WaitForEmpty ==
    /\ \/ waiter = "none" /\ Happens("wait")
       \/ waiter = "notified" /\ UNCHANGED count
    /\ waiter' = IF live = {} THEN "returned" ELSE "waiting"
    /\ UNCHANGED <<members, op, sched, worker, shutdown, submitted, dropped, ready, owed>>

-----------------------------------------------------------------------------
(* Worker::operator(). *)

\* The worker takes o off the current list.
Take(w, o, ws) == [ws EXCEPT ![w] = [pc |-> "pre_run", op |-> o]]

\* One pass under the mutex, from the lock to the unlock or cond.wait(): take
\* what is left of the current list, or else recompute the order if need be
\* and load the next time slot, or else wait.
Exit(w) ==
    /\ worker[w].pc = "loop" /\ shutdown
    /\ GoTo(w, "exit")
    /\ UNCHANGED <<members, op, sched, shutdown, clients>>

TakeCurrent(w) ==
    /\ worker[w].pc = "loop" /\ ~shutdown
    /\ \E o \in current :
        /\ worker' = Take(w, o, worker)
        /\ current' = current \ {o}
    /\ UNCHANGED <<members, op, order, active, nblocked, need, shutdown, clients>>

\* Mutant: a worker about to wait does not look whether all are idle.
AllIdle_Ignored == FALSE

AllIdle == Busy = {}

\* recompute_order() is called if the flag says so.
NewOrder == IF need THEN RecomputeOrder ELSE order

MustLoad == need \/ (active = {} /\ nblocked = 0)

LoadCurrent(w) ==
    /\ worker[w].pc = "loop" /\ ~shutdown /\ current = {}
    /\ MustLoad /\ NewOrder # {}
    /\ \E slot \in TimeSlots(NewOrder) :
        LET found == {e \in slot : e.op \in live}
            free == {e.op : e \in {f \in found : ~f.taken}}
        IN  /\ order' = NewOrder \ slot
            /\ active' = {e.op : e \in found}
            /\ nblocked' = 0 /\ need' = FALSE
            /\ IF free # {}
               THEN /\ \E o \in free : /\ worker' = Take(w, o, NotifyAll(worker))
                                       /\ current' = free \ {o}
                    /\ UNCHANGED waiter
               ELSE /\ worker' = [(IF found # {} THEN NotifyAll(worker) ELSE worker)
                                    EXCEPT ![w].pc = "wait"]
                    /\ current' = {}
                    /\ IF AllIdle THEN NotifyIdle ELSE UNCHANGED waiter
    /\ UNCHANGED <<members, op, shutdown, submitted, dropped, ready, owed, count>>

Wait(w) ==
    /\ worker[w].pc = "loop" /\ ~shutdown /\ current = {}
    /\ ~(MustLoad /\ NewOrder # {})
    /\ order' = NewOrder /\ need' = FALSE
    /\ GoTo(w, "wait")
    /\ IF AllIdle \/ (need /\ NewOrder = {}) THEN NotifyIdle ELSE UNCHANGED waiter
    /\ UNCHANGED <<members, op, current, active, nblocked, shutdown, submitted, dropped,
                   ready, owed, count>>

PreRun(w) ==
    /\ worker[w].pc = "pre_run"
    /\ op' = [op EXCEPT ![worker[w].op].unblockOnExit = FALSE]
    /\ GoTo(w, "is_blocked")
    /\ UNCHANGED <<members, sched, shutdown, clients>>

IsBlocked(w) ==
    /\ worker[w].pc = "is_blocked"
    /\ GoTo(w, IF op[worker[w].op].blocked THEN "post_run" ELSE "execute")
    /\ UNCHANGED <<members, op, sched, shutdown, clients>>

\* What execute() may do: find its condition false and block, ...
FindBlocked(w) ==
    /\ worker[w].pc = "execute"
    /\ worker[w].op \in Blockers \ ready
    /\ GoTo(w, "block")
    /\ UNCHANGED <<members, op, sched, shutdown, clients>>

Block(w) ==
    /\ worker[w].pc = "block"
    /\ op' = [op EXCEPT ![worker[w].op].blocked = TRUE]
    /\ GoTo(w, "post_run")
    /\ UNCHANGED <<members, sched, shutdown, clients>>

\* ... return to be run again, with other sets and with staged sub-operations, ...
Changed(o, c) ==
    [s \in Ops |->
        CASE s = o -> [op[o] EXCEPT !.exc = c.exc, !.dep = c.dep \cup c.subs,
                                    !.obs = c.obs, !.subs = c.subs, !.runs = @ + 1]
          [] s \in c.subs \ {o} -> [op[s] EXCEPT !.perm = {s}]
          [] OTHER -> op[s]]

Return(w) ==
    LET o == worker[w].op
    IN  /\ worker[w].pc = "execute"
        /\ o \notin Blockers
        /\ op[o].runs < Len(Changes[o])
        /\ op' = Changed(o, Changes[o][op[o].runs + 1])
        /\ GoTo(w, "post_run")
        /\ UNCHANGED <<members, sched, shutdown, clients>>

\* ... complete, with complete_ok() or complete_error() or by its state alone, ...
Completed(o) ==
    IF o \in StateOnly
    THEN [op[o] EXCEPT !.complete = TRUE]
    ELSE [op[o] EXCEPT !.complete = TRUE, !.exc = {}, !.dep = {}, !.obs = {}]

Complete(w) ==
    LET o == worker[w].op
    IN  /\ worker[w].pc = "execute"
        /\ o \in Blockers => o \in ready
        /\ op' = [op EXCEPT ![o] = Completed(o)]
        /\ GoTo(w, "post_run")
        /\ UNCHANGED <<members, sched, shutdown, clients>>

\* ... or throw.
Throw(w) ==
    /\ worker[w].pc = "execute"
    /\ Happens("throw")
    /\ GoTo(w, "threw")
    /\ UNCHANGED <<members, op, sched, shutdown, waiter, submitted, dropped, ready, owed>>

\* Mutant: an unblock() that came while the operation ran is forgotten.
StaysBlocked_Always(o) == op[o].blocked

StaysBlocked(o) == op[o].blocked /\ ~op[o].unblockOnExit

PostRun(w) ==
    /\ worker[w].pc = "post_run"
    /\ op' = [op EXCEPT ![worker[w].op].blocked = StaysBlocked(worker[w].op)]
    /\ GoTo(w, "done")
    /\ UNCHANGED <<members, sched, shutdown, clients>>

\* Under the mutex again after execute() has returned: retire the operation,
\* count it as blocked, or put it back into the graph.
Release(w, ws) == [ws EXCEPT ![w] = [pc |-> "loop", op |-> None]]

\* Mutant: any retired operation is kept for activation.
Kept_Any(o) == {o}

Kept(o) == {o} \cap Perpetual

Retire(w) ==
    LET o == worker[w].op
    IN  /\ worker[w].pc = "done" /\ op[o].complete
        /\ live' = live \ {o}
        /\ graph' = Without(graph, o)
        /\ exclusive' = exclusive \ ExclusiveName[o]
        /\ perpetual' = perpetual \cup Kept(o)
        /\ need' = (need \/ HasInEdge(o))
        /\ active' = active \ {o}
        /\ worker' = Release(w, worker)
        /\ UNCHANGED <<op, order, current, nblocked, shutdown, clients>>

LeaveBlocked(w) ==
    LET o == worker[w].op
    IN  /\ worker[w].pc = "done" /\ ~op[o].complete /\ op[o].blocked
        /\ nblocked' = nblocked + 1
        /\ active' = active \ {o}
        /\ worker' = Release(w, worker)
        /\ UNCHANGED <<members, op, order, current, need, shutdown, clients>>

Update(w) ==
    LET o == worker[w].op
        new == {s \in Ops : s \in op[o].subs \ live /\ ~op[s].complete}
    IN  /\ worker[w].pc = "done" /\ ~op[o].complete /\ ~op[o].blocked
        /\ Join(Rebuilt(graph, o), new, DependenciesOf({o} \cup new))
        /\ need' = TRUE /\ current' = {}
        /\ active' = active \ {o}
        /\ worker' = Release(w, NotifyAll(worker))
        /\ UNCHANGED <<order, nblocked, shutdown, clients>>

CatchException(w) ==
    /\ worker[w].pc = "threw"
    /\ need' = TRUE
    /\ active' = active \ {worker[w].op}
    /\ worker' = Release(w, worker)
    /\ UNCHANGED <<members, op, order, current, nblocked, shutdown, clients>>

WorkerStep(w) ==
    \/ Exit(w) \/ TakeCurrent(w) \/ LoadCurrent(w) \/ Wait(w)
    \/ PreRun(w) \/ IsBlocked(w)
    \/ FindBlocked(w) \/ Block(w) \/ Return(w) \/ Complete(w) \/ Throw(w)
    \/ PostRun(w) \/ Retire(w) \/ LeaveBlocked(w) \/ Update(w) \/ CatchException(w)

Next ==
    \/ AddOperations
    \/ \E o \in Later : AddOperation(o)
    \/ \E n \in Names : Activate(n)
    \/ \E n \in UNION {Sets[o].obs : o \in Blockers} : Unblock(n)
    \/ \E o \in Blockers : Satisfy(o)
    \/ WaitForEmpty
    \/ Shutdown
    \/ \E w \in Workers : WorkerStep(w)

Spec == Init /\ [][Next]_vars

\* A thread that is not in cond.wait() and has not left its loop can always
\* take a step of WorkerStep, and only its own steps change its entry then.
CanRun(w) == worker[w].pc \notin {"wait", "exit"}

\* The threads keep running, a thread that was notified gets the mutex, the
\* conditions blockers wait for come true and their unblock() is called.  The
\* first conjunct is weak fairness of WorkerStep(w), written out.
Fairness ==
    /\ \A w \in Workers : \/ []<>~CanRun(w)
                          \/ []<><<CanRun(w) /\ worker'[w] # worker[w]>>_vars
    /\ \A o \in Blockers : WF_vars(Satisfy(o))
    /\ WF_vars(\E n \in Names : Unblock(n) /\ owed' # owed)
    /\ WF_vars(WaitForEmpty)

FairSpec == Spec /\ Fairness

-----------------------------------------------------------------------------
(* Properties. *)

\* No operation is given to two workers at once, and only operations that are
\* in the graph are run: the busy flag, the taken entries and the invalidation
\* of the current list keep a vertex from being dispatched twice or after it
\* was retired (Worker::operator(), load_current()).
RunsOnce ==
    /\ \A v, w \in Workers : v # w /\ worker[v].op # None => worker[v].op # worker[w].op
    /\ Busy \cup current \subseteq live
    /\ Busy \cap current = {}

\* Operations with a common exclusivity never run at the same time: the chain
\* of permanent edges built by add_exclusivity() survives completion, update
\* and retirement of its members.
ExclusiveOneAtATime ==
    \A n \in Names : Cardinality(Busy \cap Excluding(graph, n)) <= 1

\* An operation that is started, or run again, finds no outstanding operation
\* that obstructs one of its dependencies or exclusivities, holds one of its
\* dependencies as an exclusivity, or was added before it with a common
\* exclusivity: it never overtakes what it depends on.
Unhindered(o) ==
    LET position(n, p) == Min({i \in DOMAIN graph.excl : graph.excl[i] = <<n, p>>})
    IN  \A p \in live \ {o} :
            /\ \A n \in DepNames : <<n, o>> \in graph.dep =>
                    <<n, p>> \notin graph.obs /\ p \notin Excluding(graph, n)
            /\ \A n \in DepNames : o \in Excluding(graph, n) =>
                    /\ <<n, p>> \notin graph.obs
                    /\ p \in Excluding(graph, n) => position(n, o) < position(n, p)

StartsUnhindered == [][\A o \in Busy' \ Busy : Unhindered(o)]_vars

\* load_current() is called without a new order only when everything the old
\* order still holds has been retired: the retirement of a vertex that others
\* wait for always asks for a new order, so that no operation is ever run from
\* a time slot computed before the operations of earlier slots had ended.
OnlyRetiredLeft ==
    MustLoad /\ ~need /\ current = {} => \A e \in order : e.op \notin live

\* The dependency graph has no cycle, so that topological_sort() orders all of
\* it and no operation is left out of execution_order.
Acyclic == live = Level[Cardinality(live)]

\* A perpetual operation that was added is in the graph or waits in
\* perpetual_ops for its next activation, never both and never neither.
PerpetualKept ==
    \A p \in Perpetual \cap submitted : (p \in live) # (p \in perpetual)

\* Every operation that was accepted completes, unless the Master shuts down:
\* no wake-up of a worker and no unblock() is lost, whatever the order of
\* add_operation(), block(), unblock() and the workers' waits.
EveryOperationCompletes ==
    \A o \in Ops : (o \in live) ~> (op[o].complete \/ shutdown)

\* wait_for_empty() does not sleep through an empty graph.
WaiterIsTold == []<>(live # {} \/ waiter # "waiting" \/ shutdown)

\* After shutdown() every worker thread leaves its loop, so join() returns.
WorkersExit == shutdown ~> \A w \in Workers : worker[w].pc = "exit"
=============================================================================
