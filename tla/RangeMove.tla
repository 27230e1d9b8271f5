------------------------------ MODULE RangeMove ------------------------------
(***************************************************************************)
(* The hand-over of a range from one RangeServer to another, as carried    *)
(* out by Range::relinquish() / Range::split_notify_master() on the source *)
(* server, OperationMoveRange, OperationRelinquishAcknowledge and          *)
(* OperationBalance on the Master, and load_range() / acknowledge_load()   *)
(* on the destination.                                                     *)
(*                                                                         *)
(* Both kinds of process keep a meta log: the RSML of a RangeServer holds  *)
(* its ranges and its outstanding "acknowledge relinquish" tasks, the MML  *)
(* of the Master holds its operations.  Either process may crash between   *)
(* any two steps and rebuilds its memory from its log.  A RangeServer that *)
(* crashed comes back before the Master gives it up (no OperationRecover), *)
(* and the table is not dropped meanwhile.                                 *)
(***************************************************************************)
EXTENDS Naturals, FiniteSets

CONSTANTS
    Servers,    \* proxy names of the RangeServers
    Ranges,     \* the ranges that move (one table)
    SplitOff,   \* those that start out as the split off half of a parent
    Home,       \* [Ranges -> Servers]: where the range, or its parent, starts
    None,       \* absence of a value
    MaxLoads,   \* bound on the number of times a range is loaded
    MaxOps,     \* bound on the number of MoveRange operations created
    Budget,     \* bound on each kind of failure, and on balance requests
    Timeouts    \* the calls whose timer may expire before the reply arrives:
                \* "move" for move_range(), "ack" for relinquish_acknowledge()

ASSUME ConstantsAssumption ==
    /\ SplitOff \subseteq Ranges
    /\ Home \in [Ranges -> Servers]
    /\ None \notin Servers \cup Ranges
    /\ MaxLoads \in Nat \ {0}
    /\ MaxOps \in Nat \ {0}

FailureKind ==
    { "master",     \* Master crashes
      "server",     \* RangeServer crashes
      "load",       \* load_range()/acknowledge_load() errors with the server up
      "balance",    \* balance requests
      "balfail" }   \* relinquish_range() errors after the request was handled

ASSUME BudgetAssumption ==
    /\ Budget \in [FailureKind -> Nat]
    /\ Timeouts \subseteq {"move", "ack"}

Ids == 1 .. MaxLoads        \* MetaLog entity ids of the copies of one range
OpIds == 1 .. MaxOps

\* The source, the range and the id of the source's Range entity: what
\* move_range() and relinquish_acknowledge() identify a hand-over by.
Handover == [rng : Ranges, src : Servers, id : Ids]

\* The values of OperationMoveRange's hash code.
HashCode == Ranges \X Servers \X (0 .. MaxLoads)

RangeStates == {"STEADY", "RELINQUISH_LOG_INSTALLED", "RELINQUISH_COMPACTED"}

\* A Range object in a server's live map, and its entity in the RSML.
LiveRange == [state : RangeStates, id : Ids, acked : BOOLEAN, relinquish : BOOLEAN]
RangeEntity == [rng : Ranges, state : RangeStates, id : Ids, acked : BOOLEAN]

OpStates == {"INITIAL", "STARTED", "LOAD_RANGE", "ACKNOWLEDGE", "COMPLETE"}

\* A MoveRange operation.  "pc" follows the tail of execute() once the load is
\* acknowledged; "removeOk" is its local variable remove_ok; "event" tells
\* whether a caller still waits for the reply to the request behind it.
Operation == [ho : Handover, hash : HashCode, state : OpStates,
              dest : Servers \cup {None}, approvals : SUBSET {1, 2},
              event : BOOLEAN, pc : {"run", "approved", "recorded"},
              removeOk : BOOLEAN]

\* A move_range() request in the network, and a RelinquishAcknowledge operation;
\* "waiting" tells whether the caller still waits for the reply.
Request == [ho : Handover, waiting : BOOLEAN]
Ack == [ho : Handover, waiting : BOOLEAN, pc : {"start", "recorded"}]

CallStates == {"idle", "waiting", "returned", "removed", "done"}
Asserts == {"operation", "immovable", "duplicate", "state"}

ASSUME NoneAssumption == None \notin LiveRange \cup Operation \cup Asserts

VARIABLES
    up,         \* the RangeServers that run
    live,       \* [Servers -> [Ranges -> LiveRange or None]]
    rsml,       \* [Servers -> SUBSET RangeEntity]
    parent,     \* [Ranges -> "NONE", "SPLIT_SHRUNK" or "STEADY"]
    lastId,     \* [Ranges -> Ids], the youngest copy of the range
    call,       \* [Handover -> progress of the thread that hands it over]
    work,       \* [Servers -> SUBSET Handover], Global::work_queue
    rsmlTask,   \* [Servers -> SUBSET Handover], the tasks in the RSML
    completed,  \* [Servers -> SUBSET Handover], executed, still in the RSML
    immovable,  \* [Servers -> SUBSET Ranges], Global::immovable_range_set
    requests,   \* move_range() requests not yet handled by the Master
    acks,       \* RelinquishAcknowledge operations of the Master
    op,         \* [OpIds -> Operation or None], in the Master's memory
    mml,        \* [OpIds -> Operation or None], in the Master's meta log
    moveOps,    \* [HashCode -> OpIds or 0], Context::m_outstanding_move_ops
    refs,       \* the operations held by the ReferenceManager
    currentSet, \* [Ranges -> Servers or None], BalancePlanAuthority
    balance,    \* the OperationBalance in progress, or None
    lastOp,     \* the id of the youngest operation
    left,       \* what is left of the Budget
    abort       \* the assertion that stopped a process, or None

rsVars == <<up, live, rsml, parent, lastId, call, work, rsmlTask, completed, immovable>>
masterVars == <<op, mml, moveOps, refs, currentSet, balance, lastOp>>
netVars == <<requests, acks>>
vars == <<rsVars, masterVars, netVars, left, abort>>

TypeOK ==
    /\ up \subseteq Servers
    /\ live \in [Servers -> [Ranges -> LiveRange \cup {None}]]
    /\ rsml \in [Servers -> SUBSET RangeEntity]
    /\ parent \in [Ranges -> {"NONE", "SPLIT_SHRUNK", "STEADY"}]
    /\ lastId \in [Ranges -> Ids]
    /\ call \in [Handover -> CallStates]
    /\ work \in [Servers -> SUBSET Handover]
    /\ rsmlTask \in [Servers -> SUBSET Handover]
    /\ completed \in [Servers -> SUBSET Handover]
    /\ immovable \in [Servers -> SUBSET Ranges]
    /\ requests \subseteq Request
    /\ acks \subseteq Ack
    /\ op \in [OpIds -> Operation \cup {None}]
    /\ mml \in [OpIds -> Operation \cup {None}]
    /\ moveOps \in [HashCode -> OpIds \cup {0}]
    /\ refs \subseteq OpIds
    /\ currentSet \in [Ranges -> Servers \cup {None}]
    /\ balance \in [rng : Ranges, src : Servers, handled : BOOLEAN] \cup {None}
    /\ lastOp \in OpIds \cup {0}
    /\ left \in [FailureKind -> Nat]
    /\ abort \in Asserts \cup {None}

Spend(kind) == /\ left[kind] > 0
               /\ left' = [left EXCEPT ![kind] = @ - 1]

-----------------------------------------------------------------------------
(* The source RangeServer *)

\* The RSML record of a live range.
EntityOf(s, r) == [rng |-> r, state |-> live[s][r].state, id |-> live[s][r].id,
                   acked |-> live[s][r].acked]

\* Faulty variant: the entity is not marked for removal.
RemoveRange_Keeps(log, e) == log

\* MetaLog::Writer::record_removal() and record_state() of one Range entity.
RemoveRange(log, e) == {x \in log : x.rng # e.rng \/ x.id # e.id}
RecordRange(log, e) == RemoveRange(log, e) \cup {e}

\* Range::relinquish() of a steady range, up to relinquish_install_log().
RelinquishInstallLog(s, r) ==
    /\ s \in up
    /\ live[s][r] # None
    /\ live[s][r].relinquish
    /\ live[s][r].state = "STEADY"
    /\ r \notin immovable[s]
    /\ live' = [live EXCEPT ![s][r].state = "RELINQUISH_LOG_INSTALLED"]
    /\ rsml' = [rsml EXCEPT ![s] =
                  RecordRange(@, [EntityOf(s, r) EXCEPT !.state = "RELINQUISH_LOG_INSTALLED"])]
    /\ UNCHANGED <<up, parent, lastId, call, work, rsmlTask, completed, immovable,
                   masterVars, netVars, left, abort>>

\* Range::relinquish_compact(): the new state is not written to the RSML.
RelinquishCompact(s, r) ==
    /\ s \in up
    /\ live[s][r] # None
    /\ live[s][r].state = "RELINQUISH_LOG_INSTALLED"
    /\ live' = [live EXCEPT ![s][r].state = "RELINQUISH_COMPACTED"]
    /\ UNCHANGED <<up, rsml, parent, lastId, call, work, rsmlTask, completed, immovable,
                   masterVars, netVars, left, abort>>

\* Faulty variant: the Master is told before the range is compacted.
ReadyToMove_BeforeCompaction(h) ==
    /\ h.src \in up
    /\ \/ /\ live[h.src][h.rng] # None
          /\ live[h.src][h.rng].state # "STEADY"
          /\ live[h.src][h.rng].id = h.id
       \/ /\ parent[h.rng] = "SPLIT_SHRUNK"
          /\ h.src = Home[h.rng]
          /\ h.id = 1

\* The hand-overs whose thread is in Master::Client::move_range() or about to
\* call it: relinquish_finalize() and split_notify_master().
ReadyToMove(h) ==
    /\ h.src \in up
    /\ \/ /\ live[h.src][h.rng] # None
          /\ live[h.src][h.rng].state = "RELINQUISH_COMPACTED"
          /\ live[h.src][h.rng].id = h.id
       \/ /\ parent[h.rng] = "SPLIT_SHRUNK"
          /\ h.src = Home[h.rng]
          /\ h.id = 1

\* Someone waits for the reply to a move_range() request for h.
Awaited(h) ==
    \/ [ho |-> h, waiting |-> TRUE] \in requests
    \/ \E o \in OpIds : op[o] # None /\ op[o].ho = h /\ op[o].event

\* A request for h is sent; nobody waits for an earlier one any more.
SendMoveRange(h) ==
    /\ call' = [call EXCEPT ![h] = "waiting"]
    /\ requests' = {IF q.ho = h THEN [q EXCEPT !.waiting = FALSE] ELSE q : q \in requests}
                      \cup {[ho |-> h, waiting |-> TRUE]}
    /\ op' = [o \in OpIds |-> IF op[o] # None /\ op[o].ho = h
                              THEN [op[o] EXCEPT !.event = FALSE] ELSE op[o]]
    /\ UNCHANGED <<up, live, rsml, parent, lastId, work, rsmlTask, completed, immovable,
                   acks, mml, moveOps, refs, currentSet, balance, lastOp, left, abort>>

\* Master::Client::move_range(): the request is sent, and sent again when the
\* Master that held it is gone.
MoveRange(h) ==
    /\ ReadyToMove(h)
    /\ call[h] \in {"idle", "waiting"}
    /\ ~Awaited(h)
    /\ SendMoveRange(h)

\* It is also sent again when the connection breaks or, by way of a retry of
\* the maintenance task, when the timer expires.
MoveRangeTimeout(h) ==
    /\ ReadyToMove(h)
    /\ call[h] = "waiting"
    /\ Awaited(h)
    /\ "move" \in Timeouts
    /\ SendMoveRange(h)

\* Faulty variant: the source does not wait for the reply.
Reported_Early(h) == h.src \in up /\ call[h] \in {"waiting", "returned"}

\* move_range() returned: the Master knows of the hand-over.
Reported(h) == h.src \in up /\ call[h] = "returned"

\* relinquish_finalize(), after move_range() returned: the range leaves the
\* live map before its removal is recorded.
RelinquishRemove(h) ==
    /\ Reported(h)
    /\ live[h.src][h.rng] # None
    /\ live[h.src][h.rng].id = h.id
    /\ live' = [live EXCEPT ![h.src][h.rng] = None]
    /\ call' = [call EXCEPT ![h] = "removed"]
    /\ UNCHANGED <<up, rsml, parent, lastId, work, rsmlTask, completed, immovable,
                   masterVars, netVars, left, abort>>

\* Faulty variant: the task itself enters the immovable set.
AddToWorkQueue_AddsTask(h) ==
    IF h.rng \in immovable[h.src]
    THEN /\ abort' = "immovable"
         /\ UNCHANGED <<work, immovable>>
    ELSE /\ immovable' = [immovable EXCEPT ![h.src] = @ \cup {h}]
         /\ work' = [work EXCEPT ![h.src] = @ \cup {h}]
         /\ UNCHANGED abort

\* Global::add_to_work_queue() of an acknowledge relinquish task, with its
\* hook; the hook asserts that the range is not in the immovable set.
AddToWorkQueue(h) ==
    IF h.rng \in immovable[h.src]
    THEN /\ abort' = "immovable"
         /\ UNCHANGED <<work, immovable>>
    ELSE /\ immovable' = [immovable EXCEPT ![h.src] = @ \cup {h.rng}]
         /\ work' = [work EXCEPT ![h.src] = @ \cup {h}]
         /\ UNCHANGED abort

\* The rest of relinquish_finalize(): one RSML record removes the entity and
\* adds the task, which then enters the work queue.
RelinquishRecord(h) ==
    /\ h.src \in up
    /\ call[h] = "removed"
    /\ rsml' = [rsml EXCEPT ![h.src] = RemoveRange(@, h)]
    /\ rsmlTask' = [rsmlTask EXCEPT ![h.src] = @ \cup {h}]
    /\ AddToWorkQueue(h)
    /\ call' = [call EXCEPT ![h] = "done"]
    /\ UNCHANGED <<up, live, parent, lastId, completed, masterVars, netVars, left>>

\* split_notify_master(), after move_range() returned: the parent becomes
\* steady and the task is added, in one RSML record.
SplitRecord(h) ==
    /\ Reported(h)
    /\ parent[h.rng] = "SPLIT_SHRUNK"
    /\ h.src = Home[h.rng]
    /\ h.id = 1
    /\ parent' = [parent EXCEPT ![h.rng] = "STEADY"]
    /\ rsmlTask' = [rsmlTask EXCEPT ![h.src] = @ \cup {h}]
    /\ AddToWorkQueue(h)
    /\ call' = [call EXCEPT ![h] = "done"]
    /\ UNCHANGED <<up, live, rsml, lastId, completed, masterVars, netVars, left>>

\* EntityTaskAcknowledgeRelinquish::execute(): the request is sent, and sent
\* again when no reply arrives (the client's loop, or the task put back into
\* the work queue).
AcknowledgeRelinquish(h) ==
    /\ h.src \in up
    /\ h \in work[h.src]
    /\ ~\E a \in acks : a.ho = h /\ a.waiting
    /\ acks' = acks \cup {[ho |-> h, waiting |-> TRUE, pc |-> "start"]}
    /\ UNCHANGED <<rsVars, masterVars, requests, left, abort>>

AcknowledgeTimeout(h) ==
    /\ \E a \in acks : a.ho = h /\ a.waiting
    /\ "ack" \in Timeouts
    /\ acks' = {IF a.ho = h THEN [a EXCEPT !.waiting = FALSE] ELSE a : a \in acks}
    /\ UNCHANGED <<rsVars, masterVars, requests, left, abort>>

\* ~MaintenanceTaskWorkQueue(): the executed tasks leave the RSML.
RecordRemoval(s) ==
    /\ s \in up
    /\ completed[s] # {}
    /\ rsmlTask' = [rsmlTask EXCEPT ![s] = @ \ completed[s]]
    /\ completed' = [completed EXCEPT ![s] = {}]
    /\ UNCHANGED <<up, live, rsml, parent, lastId, call, work, immovable,
                   masterVars, netVars, left, abort>>

ServerCrash(s) ==
    /\ s \in up
    /\ Spend("server")
    /\ up' = up \ {s}
    /\ live' = [live EXCEPT ![s] = [r \in Ranges |-> None]]
    /\ call' = [h \in Handover |-> IF h.src = s /\ call[h] # "done" THEN "idle" ELSE call[h]]
    /\ work' = [work EXCEPT ![s] = {}]
    /\ completed' = [completed EXCEPT ![s] = {}]
    /\ immovable' = [immovable EXCEPT ![s] = {}]
    /\ requests' = {IF q.ho.src = s THEN [q EXCEPT !.waiting = FALSE] ELSE q : q \in requests}
    /\ acks' = {IF a.ho.src = s THEN [a EXCEPT !.waiting = FALSE] ELSE a : a \in acks}
    /\ op' = [o \in OpIds |-> IF op[o] # None /\ op[o].ho.src = s
                              THEN [op[o] EXCEPT !.event = FALSE] ELSE op[o]]
    /\ UNCHANGED <<rsml, parent, lastId, rsmlTask, mml, moveOps, refs, currentSet,
                   balance, lastOp, abort>>

\* The assertion of local_recover() that fails, or None: the tasks of the RSML
\* enter the work queue and the immovable set, then its ranges the live map,
\* each in one of the states that recovery handles.
RecoveryAssert(s) ==
    IF \E h1, h2 \in rsmlTask[s] : h1 # h2 /\ h1.rng = h2.rng THEN "immovable"
    ELSE IF \E e1, e2 \in rsml[s] : e1 # e2 /\ e1.rng = e2.rng THEN "duplicate"
    ELSE IF \E e \in rsml[s] : e.state \notin {"STEADY", "RELINQUISH_LOG_INSTALLED"}
    THEN "state"
    ELSE None

\* The Range object that replay_load_range() makes from the RSML.
ReplayedRange(s, r) ==
    IF \E e \in rsml[s] : e.rng = r
    THEN LET e == CHOOSE x \in rsml[s] : x.rng = r
         IN [state |-> e.state, id |-> e.id, acked |-> e.acked, relinquish |-> FALSE]
    ELSE None

\* RangeServer::local_recover()
ServerRecover(s) ==
    /\ s \notin up
    /\ abort' = RecoveryAssert(s)
    /\ IF RecoveryAssert(s) = None
       THEN /\ up' = up \cup {s}
            /\ live' = [live EXCEPT ![s] = [r \in Ranges |-> ReplayedRange(s, r)]]
            /\ work' = [work EXCEPT ![s] = rsmlTask[s]]
            /\ immovable' = [immovable EXCEPT ![s] = {h.rng : h \in rsmlTask[s]}]
       ELSE UNCHANGED <<up, live, work, immovable>>
    /\ UNCHANGED <<rsml, parent, lastId, call, rsmlTask, completed, masterVars, netVars, left>>

-----------------------------------------------------------------------------
(* The Master *)

\* OperationMoveRange::hash_code(), and the hash code that decode_state()
\* computes for an operation read from the MML.
hash_code(h) == <<h.rng, h.src, h.id>>
decoded_hash_code(o) == IF o.state = "COMPLETE" THEN o.hash ELSE <<o.ho.rng, o.ho.src, 0>>

\* BalancePlanAuthority::decode_internal(): m_current_set is read back from
\* encodings of version 2 and later only.
encoding_version == 1
DecodeCurrentSet(version, set) ==
    IF version >= 2 THEN set ELSE [r \in Ranges |-> None]

\* MetaLog::Writer::record_state() of an operation; the event is not stored.
Persistent(o) == [o EXCEPT !.event = FALSE, !.pc = "run", !.removeOk = FALSE]

\* Faulty variants: the move map is not consulted; nothing leaves it.
InProgress_NoLookup(h) == FALSE
RemoveMoveOperation_Keeps(c) == moveOps

\* Context::add_move_operation() finds an operation for the hand-over, and
\* Context::remove_move_operation().
InProgress(h) == moveOps[hash_code(h)] # 0
RemoveMoveOperation(c) == [moveOps EXCEPT ![c] = 0]

\* ConnectionHandler::handle() of COMMAND_MOVE_RANGE.  Requests of one
\* connection are handled in the order in which they were sent.
HandleMoveRange(q) ==
    /\ q \in requests
    /\ q.waiting => [q EXCEPT !.waiting = FALSE] \notin requests
    /\ requests' = requests \ {q}
    /\ IF InProgress(q.ho)
       THEN /\ call' = IF q.waiting THEN [call EXCEPT ![q.ho] = "returned"] ELSE call
            /\ UNCHANGED <<op, moveOps, refs, lastOp>>
       ELSE /\ lastOp < MaxOps
            /\ lastOp' = lastOp + 1
            /\ op' = [op EXCEPT ![lastOp + 1] =
                 [ho |-> q.ho, hash |-> hash_code(q.ho), state |-> "INITIAL", dest |-> None,
                  approvals |-> {}, event |-> q.waiting, pc |-> "run", removeOk |-> FALSE]]
            /\ moveOps' = [moveOps EXCEPT ![hash_code(q.ho)] = lastOp + 1]
            /\ refs' = refs \cup {lastOp + 1}
            /\ UNCHANGED call
    /\ UNCHANGED <<up, live, rsml, parent, lastId, work, rsmlTask, completed, immovable,
                   acks, mml, currentSet, balance, left, abort>>

\* Faulty variant: an operation waits for itself.
Runs_BlocksItself(o, state) ==
    /\ op[o] # None
    /\ op[o].state = state
    /\ op[o].pc = "run"
    /\ \A p \in OpIds : p <= o /\ op[p] # None /\ op[p].ho.rng = op[o].ho.rng
                          => op[p].state = "COMPLETE" /\ op[p].pc = "run"

\* The OperationProcessor runs operations with a common exclusivity, here the
\* range, one after the other in the order in which they were added.
Runs(o, state) ==
    /\ op[o] # None
    /\ op[o].state = state
    /\ op[o].pc = "run"
    /\ \A p \in OpIds : p < o /\ op[p] # None /\ op[p].ho.rng = op[o].ho.rng
                          => op[p].state = "COMPLETE" /\ op[p].pc = "run"

\* Faulty variant: every call picks a server afresh.
Destinations_NotSticky(r) == up

\* BalancePlanAuthority::get_balance_destination()
Destinations(r) == IF currentSet[r] # None THEN {currentSet[r]} ELSE up

\* execute(), case INITIAL
MoveInitial(o) ==
    /\ Runs(o, "INITIAL")
    /\ \E d \in Destinations(op[o].ho.rng) :
         /\ op' = [op EXCEPT ![o].state = "STARTED", ![o].dest = d]
         /\ mml' = [mml EXCEPT ![o] = Persistent([op[o] EXCEPT !.state = "STARTED", !.dest = d])]
         /\ currentSet' = [currentSet EXCEPT ![op[o].ho.rng] = d]
    /\ UNCHANGED <<rsVars, netVars, moveOps, refs, balance, lastOp, left, abort>>

\* execute(), case STARTED: the reply to move_range() is sent
MoveStarted(o) ==
    /\ Runs(o, "STARTED")
    /\ op' = [op EXCEPT ![o].state = "LOAD_RANGE", ![o].event = FALSE]
    /\ call' = IF op[o].event THEN [call EXCEPT ![op[o].ho] = "returned"] ELSE call
    /\ UNCHANGED <<up, live, rsml, parent, lastId, work, rsmlTask, completed, immovable,
                   netVars, mml, moveOps, refs, currentSet, balance, lastOp, left, abort>>

\* RangeServer::load_range() of a range that is not in the live map of s.
Load(s, r) ==
    LET e == [rng |-> r, state |-> "STEADY", id |-> lastId[r] + 1, acked |-> FALSE]
    IN  /\ live[s][r] = None
        /\ lastId[r] < MaxLoads
        /\ lastId' = [lastId EXCEPT ![r] = @ + 1]
        /\ rsml' = [rsml EXCEPT ![s] = RecordRange(@, e)]
        /\ live' = [live EXCEPT ![s][r] = [state |-> "STEADY", id |-> e.id, acked |-> FALSE,
                                           relinquish |-> FALSE]]

\* execute(), case LOAD_RANGE: load_range() succeeds, or finds the range loaded
MoveLoad(o) ==
    LET d == op[o].dest
        r == op[o].ho.rng
    IN  /\ Runs(o, "LOAD_RANGE")
        /\ d \in up
        /\ \/ Load(d, r)
           \/ /\ live[d][r] # None
              /\ live[d][r].state = "STEADY"
              /\ UNCHANGED <<lastId, rsml, live>>
        /\ op' = [op EXCEPT ![o].state = "ACKNOWLEDGE"]
        /\ mml' = [mml EXCEPT ![o] = Persistent([op[o] EXCEPT !.state = "ACKNOWLEDGE"])]
        /\ UNCHANGED <<up, parent, call, work, rsmlTask, completed, immovable, netVars,
                       moveOps, refs, currentSet, balance, lastOp, left, abort>>

\* execute(), case LOAD_RANGE: the call fails, with or without having loaded
\* the range, and the operation goes back to INITIAL, in memory only.
MoveLoadError(o) ==
    /\ Runs(o, "LOAD_RANGE")
    /\ IF op[o].dest \in up THEN Spend("load") ELSE UNCHANGED left
    /\ \/ op[o].dest \in up /\ Load(op[o].dest, op[o].ho.rng)
       \/ UNCHANGED <<lastId, rsml, live>>
    /\ op' = [op EXCEPT ![o].state = "INITIAL"]
    /\ UNCHANGED <<up, parent, call, work, rsmlTask, completed, immovable, netVars,
                   mml, moveOps, refs, currentSet, balance, lastOp, abort>>

\* RangeServer::acknowledge_load(): the entity is recorded as it is in memory;
\* a range that is not found is not an error to the Master
AcknowledgeLoad(s, r) ==
    IF live[s][r] # None /\ ~live[s][r].acked
    THEN /\ live' = [live EXCEPT ![s][r].acked = TRUE]
         /\ rsml' = [rsml EXCEPT ![s] = RecordRange(@, [EntityOf(s, r) EXCEPT !.acked = TRUE])]
    ELSE UNCHANGED <<live, rsml>>

\* execute(), case ACKNOWLEDGE, up to remove_approval_add()
MoveAcknowledge(o) ==
    /\ Runs(o, "ACKNOWLEDGE")
    /\ op[o].dest \in up
    /\ AcknowledgeLoad(op[o].dest, op[o].ho.rng)
    /\ currentSet' = [currentSet EXCEPT ![op[o].ho.rng] = None]
    /\ op' = [op EXCEPT ![o].approvals = @ \cup {2}, ![o].pc = "approved",
                        ![o].removeOk = 1 \in op[o].approvals]
    /\ UNCHANGED <<up, parent, lastId, call, work, rsmlTask, completed, immovable, netVars,
                   mml, moveOps, refs, balance, lastOp, left, abort>>

\* execute(), case ACKNOWLEDGE: the call fails; the destination is fetched again
MoveAcknowledgeError(o) ==
    /\ Runs(o, "ACKNOWLEDGE")
    /\ IF op[o].dest \in up THEN Spend("load") ELSE UNCHANGED left
    /\ \/ op[o].dest \in up /\ AcknowledgeLoad(op[o].dest, op[o].ho.rng)
       \/ UNCHANGED <<live, rsml>>
    /\ \E d \in Destinations(op[o].ho.rng) :
         /\ op' = [op EXCEPT ![o].dest = d]
         /\ currentSet' = [currentSet EXCEPT ![op[o].ho.rng] = d]
    /\ UNCHANGED <<up, parent, lastId, call, work, rsmlTask, completed, immovable, netVars,
                   mml, moveOps, refs, balance, lastOp, abort>>

\* Faulty variant: the approval of the load alone removes it.
RecordOperation_OneApproval(o, rec) ==
    IF 2 \in rec.approvals
    THEN /\ mml' = [mml EXCEPT ![o] = None]
         /\ refs' = refs \ {o}
    ELSE /\ mml' = [mml EXCEPT ![o] = Persistent(rec)]
         /\ UNCHANGED refs

\* Operation::record_state(): an operation with all approvals is removed from
\* the MML and from the reference manager.
RecordOperation(o, rec) ==
    IF rec.approvals = {1, 2}
    THEN /\ mml' = [mml EXCEPT ![o] = None]
         /\ refs' = refs \ {o}
    ELSE /\ mml' = [mml EXCEPT ![o] = Persistent(rec)]
         /\ UNCHANGED refs

\* complete_ok()
MoveComplete(o) ==
    LET rec == [op[o] EXCEPT !.state = "COMPLETE", !.pc = "recorded"]
    IN  /\ op[o] # None
        /\ op[o].pc = "approved"
        /\ RecordOperation(o, rec)
        /\ op' = [op EXCEPT ![o] = rec]
        /\ UNCHANGED <<rsVars, netVars, moveOps, currentSet, balance, lastOp, left, abort>>

\* The end of execute(): the operation leaves the move map if remove_ok; its
\* object lives on while the reference manager holds it.
MoveLeave(o) ==
    /\ op[o] # None
    /\ op[o].pc = "recorded"
    /\ moveOps' = IF op[o].removeOk THEN RemoveMoveOperation(op[o].hash) ELSE moveOps
    /\ op' = [op EXCEPT ![o] = IF o \in refs
                               THEN [@ EXCEPT !.pc = "run", !.removeOk = FALSE] ELSE None]
    /\ UNCHANGED <<rsVars, netVars, mml, refs, currentSet, balance, lastOp, left, abort>>

\* Faulty variant: the range stays in the immovable set.
AckReply_StaysImmovable(a) ==
    IF a.waiting
    THEN /\ work' = [work EXCEPT ![a.ho.src] = @ \ {a.ho}]
         /\ UNCHANGED immovable
         /\ completed' = [completed EXCEPT ![a.ho.src] = @ \cup {a.ho}]
    ELSE UNCHANGED <<work, immovable, completed>>

\* The reply to relinquish_acknowledge(), if the caller still waits: the task
\* is done and the range may move again.
AckReply(a) ==
    IF a.waiting
    THEN /\ work' = [work EXCEPT ![a.ho.src] = @ \ {a.ho}]
         /\ immovable' = [immovable EXCEPT ![a.ho.src] = @ \ {a.ho.rng}]
         /\ completed' = [completed EXCEPT ![a.ho.src] = @ \cup {a.ho}]
    ELSE UNCHANGED <<work, immovable, completed>>

\* OperationRelinquishAcknowledge::execute().  get_move_operation() asserts
\* that the reference manager holds the operation it finds in the move map.
HandleAck(a) ==
    LET o == moveOps[hash_code(a.ho)]
    IN  /\ a \in acks
        /\ a.pc = "start"
        /\ CASE o = 0 ->
                  /\ AckReply(a)
                  /\ acks' = acks \ {a}
                  /\ UNCHANGED <<op, mml, refs, abort>>
             [] o # 0 /\ o \notin refs ->
                  /\ abort' = "operation"
                  /\ UNCHANGED <<work, immovable, completed, acks, op, mml, refs>>
             [] o # 0 /\ o \in refs ->
                  LET rec == [op[o] EXCEPT !.approvals = @ \cup {1}]
                  IN  /\ UNCHANGED abort
                      /\ IF rec.approvals = {1, 2}
                         THEN /\ RecordOperation(o, rec)
                              /\ op' = [op EXCEPT ![o] =
                                          IF rec.pc = "run" /\ rec.state = "COMPLETE"
                                          THEN None ELSE rec]
                              /\ acks' = (acks \ {a}) \cup {[a EXCEPT !.pc = "recorded"]}
                              /\ UNCHANGED <<work, immovable, completed>>
                         ELSE /\ op' = [op EXCEPT ![o] = rec]
                              /\ AckReply(a)
                              /\ acks' = acks \ {a}
                              /\ UNCHANGED <<mml, refs>>
        /\ UNCHANGED <<up, live, rsml, parent, lastId, call, rsmlTask, requests, moveOps,
                       currentSet, balance, lastOp, left>>

\* The end of execute(): the operation leaves the move map.
FinishAck(a) ==
    /\ a \in acks
    /\ a.pc = "recorded"
    /\ moveOps' = RemoveMoveOperation(hash_code(a.ho))
    /\ AckReply(a)
    /\ acks' = acks \ {a}
    /\ UNCHANGED <<up, live, rsml, parent, lastId, call, rsmlTask, requests, op, mml, refs,
                   currentSet, balance, lastOp, left, abort>>

\* OperationBalance::execute(), case INITIAL: the move is registered
BalanceRegister(r, s, d) ==
    /\ balance = None
    /\ s # d
    /\ Spend("balance")
    /\ balance' = [rng |-> r, src |-> s, handled |-> FALSE]
    /\ currentSet' = IF currentSet[r] = None THEN [currentSet EXCEPT ![r] = d] ELSE currentSet
    /\ UNCHANGED <<rsVars, netVars, op, mml, moveOps, refs, lastOp, abort>>

\* case STARTED: RangeServer::relinquish_range() at the source marks the range
BalanceRelinquish ==
    /\ balance # None
    /\ ~balance.handled
    /\ balance.src \in up
    /\ live[balance.src][balance.rng] # None
    /\ live' = [live EXCEPT ![balance.src][balance.rng].relinquish = TRUE]
    /\ balance' = [balance EXCEPT !.handled = TRUE]
    /\ UNCHANGED <<up, rsml, parent, lastId, call, work, rsmlTask, completed, immovable,
                   netVars, op, mml, moveOps, refs, currentSet, lastOp,
                   left, abort>>

BalanceReply ==
    /\ balance # None
    /\ balance.handled
    /\ balance' = None
    /\ UNCHANGED <<rsVars, netVars, op, mml, moveOps, refs, currentSet, lastOp, left, abort>>

\* relinquish_range() fails: the move is taken out of the current set
BalanceError ==
    /\ balance # None
    /\ IF balance.handled THEN Spend("balfail")
       ELSE /\ balance.src \in up => live[balance.src][balance.rng] = None
            /\ UNCHANGED left
    /\ balance' = None
    /\ currentSet' = [currentSet EXCEPT ![balance.rng] = None]
    /\ UNCHANGED <<rsVars, netVars, op, mml, moveOps, refs, lastOp, abort>>

\* The Master crashes and main() rebuilds its state from the MML.  Nothing
\* else depends on the time in between.
MasterRestart ==
    /\ Spend("master")
    /\ requests' = {}
    /\ acks' = {}
    /\ op' = [o \in OpIds |-> IF mml[o] = None THEN None
                              ELSE [mml[o] EXCEPT !.hash = decoded_hash_code(mml[o])]]
    /\ refs' = {o \in OpIds : mml[o] # None /\ mml[o].approvals # {1, 2}}
    /\ moveOps' = [c \in HashCode |->
         LET same == {o \in OpIds : mml[o] # None /\ decoded_hash_code(mml[o]) = c}
         IN  IF same = {} THEN 0 ELSE CHOOSE o \in same : \A p \in same : o <= p]
    /\ currentSet' = DecodeCurrentSet(encoding_version, currentSet)
    /\ balance' = IF balance = None THEN None ELSE [balance EXCEPT !.handled = FALSE]
    /\ UNCHANGED <<rsVars, mml, lastOp, abort>>

-----------------------------------------------------------------------------
Init ==
    /\ up = Servers
    /\ live = [s \in Servers |-> [r \in Ranges |->
                IF r \notin SplitOff /\ s = Home[r]
                THEN [state |-> "STEADY", id |-> 1, acked |-> TRUE, relinquish |-> FALSE]
                ELSE None]]
    /\ rsml = [s \in Servers |-> {[rng |-> r, state |-> "STEADY", id |-> 1, acked |-> TRUE] :
                r \in {q \in Ranges : q \notin SplitOff /\ s = Home[q]}}]
    /\ parent = [r \in Ranges |-> IF r \in SplitOff THEN "SPLIT_SHRUNK" ELSE "NONE"]
    /\ lastId = [r \in Ranges |-> 1]
    /\ call = [h \in Handover |-> "idle"]
    /\ work = [s \in Servers |-> {}]
    /\ rsmlTask = [s \in Servers |-> {}]
    /\ completed = [s \in Servers |-> {}]
    /\ immovable = [s \in Servers |-> {}]
    /\ requests = {}
    /\ acks = {}
    /\ op = [o \in OpIds |-> None]
    /\ mml = [o \in OpIds |-> None]
    /\ moveOps = [c \in HashCode |-> 0]
    /\ refs = {}
    /\ currentSet = [r \in Ranges |-> None]
    /\ balance = None
    /\ lastOp = 0
    /\ left = Budget
    /\ abort = None

\* The maintenance task of a range, the thread that hands a range over, and
\* the worker thread that runs an operation, as long as their calls succeed.
MaintenanceStep(s, r) == RelinquishInstallLog(s, r) \/ RelinquishCompact(s, r)

HandoverStep(h) ==
    \/ MoveRange(h)
    \/ RelinquishRemove(h)
    \/ RelinquishRecord(h)
    \/ SplitRecord(h)

OperationStep(o) ==
    \/ MoveInitial(o)
    \/ MoveStarted(o)
    \/ MoveLoad(o)
    \/ MoveAcknowledge(o)
    \/ MoveComplete(o)
    \/ MoveLeave(o)

SourceNext ==
    \/ \E s \in Servers, r \in Ranges : MaintenanceStep(s, r)
    \/ \E h \in Handover : HandoverStep(h) \/ AcknowledgeRelinquish(h)
    \/ \E s \in Servers : RecordRemoval(s) \/ ServerRecover(s)

MasterNext ==
    \/ \E q \in requests : HandleMoveRange(q)
    \/ \E o \in OpIds : OperationStep(o) \/ MoveLoadError(o) \/ MoveAcknowledgeError(o)
    \/ \E a \in acks : HandleAck(a) \/ FinishAck(a)
    \/ \E r \in Ranges, s, d \in Servers : BalanceRegister(r, s, d)
    \/ BalanceRelinquish
    \/ BalanceReply
    \/ BalanceError

Failure ==
    \/ \E h \in Handover : MoveRangeTimeout(h) \/ AcknowledgeTimeout(h)
    \/ \E s \in Servers : ServerCrash(s)
    \/ MasterRestart

Running == abort = None

\* An aborted process has left its assertion behind; what the rest of the
\* cluster does from there on is of no interest.
Next == Running /\ (SourceNext \/ MasterNext \/ Failure)

Spec == Init /\ [][Next]_vars

\* The scheduling the code provides: maintenance threads and the work queue
\* retry until they succeed, the worker threads of the Master run every
\* operation that is not blocked, messages between running processes arrive,
\* and a RangeServer that crashed is started again.  Failures, and the balance
\* requests that start it all, are not fair; but the timer of a call that gets
\* no reply expires, and the Master handles a request in less than the timer
\* allows, sooner or later.
Fairness ==
    /\ \A s \in Servers, r \in Ranges : WF_vars(Running /\ MaintenanceStep(s, r))
    /\ \A s \in Servers : WF_vars(Running /\ (RecordRemoval(s) \/ ServerRecover(s)))
    /\ \A h \in Handover :
         /\ WF_vars(Running /\ HandoverStep(h))
         /\ WF_vars(Running /\ MoveRangeTimeout(h))
         /\ WF_vars(Running /\ AcknowledgeRelinquish(h))
         /\ WF_vars(Running /\ HandleMoveRange([ho |-> h, waiting |-> FALSE]))
         /\ SF_vars(Running /\ HandleMoveRange([ho |-> h, waiting |-> TRUE]))
         /\ WF_vars(Running /\ \E a \in acks : a.ho = h /\ (HandleAck(a) \/ FinishAck(a)))
    /\ \A o \in OpIds : WF_vars(Running /\ OperationStep(o))

FairSpec == Spec /\ Fairness

-----------------------------------------------------------------------------
(* Properties *)

\* The servers whose RSML holds the range in steady state.
SteadyAt(r) == {s \in Servers : \E e \in rsml[s] : e.rng = r /\ e.state = "STEADY"}

\* The operations that will still load the range somewhere.
Pending(ops) == {o \in OpIds : ops[o] # None /\ ops[o].state \in {"INITIAL", "STARTED", "LOAD_RANGE"}
                                 /\ ops[o].pc = "run"}

\* A range is never loaded by two servers: at most one RSML holds it in steady
\* state ("make sure that the master does not try to load the range twice",
\* split_notify_master()).
NoDoubleLoad == \A r \in Ranges : Cardinality(SteadyAt(r)) <= 1

\* A range is never lost: an RSML holds it, the parent it was split from has
\* yet to report it, or an operation of the Master will load it
\* (relinquish_finalize() forgets the range as soon as move_range() returned).
NoRangeLost ==
    \A r \in Ranges :
        \/ \E s \in Servers : \E e \in rsml[s] : e.rng = r
        \/ parent[r] = "SPLIT_SHRUNK"
        \/ \E o \in Pending(op) : op[o].ho.rng = r

\* The same from what is on disk only: a crash of the whole cluster loses no
\* range, because execute() records the operation before it replies.
NoRangeLostOnDisk ==
    \A r \in Ranges :
        \/ \E s \in Servers : \E e \in rsml[s] : e.rng = r
        \/ parent[r] = "SPLIT_SHRUNK"
        \/ \E o \in Pending(mml) : mml[o].ho.rng = r

\* A copy of a range that was handed over does not come back: once the RSML
\* record of relinquish_finalize() is written, neither the live map nor the
\* RSML of the source holds that copy, through crashes and reloads.
HandedOverForGood ==
    \A h \in Handover : call[h] = "done" =>
        /\ \A e \in rsml[h.src] : e.rng = h.rng => e.id # h.id
        /\ live[h.src][h.rng] # None => live[h.src][h.rng].id # h.id

\* Nobody is told twice that move_range() succeeded: at most one request for a
\* hand-over is awaited, in the network or behind an operation, and only while
\* the source is still in move_range().
OneWaiter ==
    /\ \A q \in requests : q.waiting =>
         /\ call[q.ho] = "waiting"
         /\ \A o \in OpIds : op[o] # None /\ op[o].ho = q.ho => ~op[o].event
    /\ \A o \in OpIds : op[o] # None /\ op[o].event =>
         /\ call[op[o].ho] = "waiting"
         /\ \A p \in OpIds : op[p] # None /\ op[p].ho = op[o].ho /\ op[p].event => p = o
    /\ \A o \in OpIds : mml[o] # None => ~mml[o].event

\* The live map of a server follows its RSML, and the copies of a range are
\* numbered in the order in which they were loaded.
CopiesRecorded ==
    /\ \A s \in Servers : \A e \in rsml[s] : e.id <= lastId[e.rng]
    /\ \A s \in Servers, r \in Ranges : live[s][r] # None =>
         /\ s \in up
         /\ \E e \in rsml[s] : e.rng = r /\ e.id = live[s][r].id
    /\ \A r \in Ranges : parent[r] = "SPLIT_SHRUNK" =>
         \A e \in rsml[Home[r]] : e.rng = r => e.id # 1

\* A hand-over that passed the live map concerns a copy that is not in it, one
\* that passed the RSML a copy that is not there either, and only a running
\* server has one under way.
CallsRecorded ==
    \A h \in Handover :
        /\ call[h] \in {"removed", "done"} =>
             /\ h.id <= lastId[h.rng]
             /\ live[h.src][h.rng] # None => live[h.src][h.rng].id # h.id
        /\ call[h] = "done" => \A e \in rsml[h.src] : e.rng = h.rng => e.id # h.id
        /\ h.src \notin up => call[h] \in {"idle", "done"}

\* HandedOverForGood in inductive form.
HandoverInv == OneWaiter /\ CopiesRecorded /\ CallsRecorded

\* The immovable set, the work queue and the tasks in the RSML agree on every
\* running server: each acknowledgement that is owed keeps its range in place
\* and survives a crash.
ImmovableMatchesTasks ==
    Running => \A s \in up :
        /\ immovable[s] = {h.rng : h \in work[s]}
        /\ rsmlTask[s] = work[s] \cup completed[s]

\* ImmovableMatchesTasks in inductive form: besides, a task is queued at the
\* source that recorded its hand-over, once per range, and at most one
\* acknowledgement of it is awaited.
TaskInv ==
    Running =>
        /\ \A s \in up :
             /\ immovable[s] = {h.rng : h \in work[s]}
             /\ rsmlTask[s] = work[s] \cup completed[s]
             /\ work[s] \cap completed[s] = {}
             /\ \A h1, h2 \in work[s] : h1.rng = h2.rng => h1 = h2
        /\ \A s \in Servers : \A h \in rsmlTask[s] : h.src = s /\ call[h] = "done"
        /\ \A s \in Servers \ up : work[s] = {} /\ completed[s] = {}
        /\ \A a \in acks : a.waiting =>
             /\ a.ho \in work[a.ho.src]
             /\ \A b \in acks : b.waiting /\ b.ho = a.ho => b = a

\* Two servers never serve one range at a time (relinquish_compact():
\* 'Mark range as "dropped" preventing further scans and updates').
Serving(r) == {s \in up : live[s][r] # None /\ live[s][r].state # "RELINQUISH_COMPACTED"}
NoTwoServingCopies == \A r \in Ranges : Cardinality(Serving(r)) <= 1

\* The move map keeps the Master from creating two operations for the same
\* hand-over (Context::m_outstanding_move_ops).
NoDuplicateMove ==
    \A o, p \in OpIds :
        op[o] # None /\ op[p] # None /\ op[o].ho = op[p].ho => o = p

\* The HT_ASSERT of Context::get_move_operation() holds.
MoveOperationIsReferenced == abort # "operation"

\* The HT_ASSERT of Global::immovable_range_set_add() holds.
ImmovableAddedOnce == abort # "immovable"

\* local_recover() finds at most one entity of a range in the RSML ("Range
\* should not already be loaded").
NoDuplicateEntity == abort # "duplicate"


\* An operation leaves the MML only when its work is done on both sides: the
\* source has recorded the hand-over, and the range was loaded after it.  Until
\* then the Master must remember it, or a repeated move_range() would load the
\* range again.
RemovedWhenDone ==
    [][\A o \in OpIds : mml[o] # None /\ mml'[o] = None =>
          /\ call[mml[o].ho] = "done"
          /\ lastId[mml[o].ho.rng] > mml[o].ho.id]_vars

\* The destination in the MML changes only while the range has not been loaded
\* for the operation: get_balance_destination() answers the same server until
\* balance_move_complete().
StickyDestination ==
    [][\A o \in OpIds : mml[o] # None /\ mml'[o] # None
                          => mml'[o].dest = mml[o].dest]_vars

\* The BalancePlanAuthority comes back from the MML with the destinations it
\* had given out ("it is persisted to the MML each time its state changes").
PlanSurvivesRestart ==
    [][left'["master"] # left["master"] => currentSet' = currentSet]_vars

\* A hand-over that started ends: the source forgets the range, some server
\* has loaded it, and no trace of the operation is left at the Master.
HandoverEnds ==
    \A h \in Handover :
        call[h] = "waiting" ~>
            /\ call[h] = "done"
            /\ h \notin rsmlTask[h.src]
            /\ lastId[h.rng] > h.id
            /\ moveOps[hash_code(h)] = 0
            /\ \A o \in OpIds : mml[o] # None => mml[o].ho # h

\* A range whose hand-over started is in the end loaded by a server.
RangeEventuallyLoaded ==
    \A r \in Ranges :
        (\E h \in Handover : h.rng = r /\ call[h] = "waiting")
            ~> (\E s \in up : live[s][r] # None /\ live[s][r].state = "STEADY")

=============================================================================
