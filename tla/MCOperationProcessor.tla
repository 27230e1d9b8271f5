------------------------ MODULE MCOperationProcessor ------------------------
(***************************************************************************)
(* Instances of OperationProcessor for TLC.  The operations stand for      *)
(* those of the Master whose sets they have:                               *)
(*   m1, m2   two OperationMoveRange for the same range                    *)
(*   rec,rec2 two OperationRecover of one server, of which one at a time   *)
(*            is accepted: the first run replaces a dependency by an       *)
(*            exclusivity, the second stages the sub-operation             *)
(*   rng      an OperationRecoverRanges                                    *)
(*   wfs      OperationWaitForServers                                      *)
(*   blk      OperationRecoveryBlocker                                     *)
(***************************************************************************)
EXTENDS OperationProcessor, TLC

CONSTANTS w1, w2, m1, m2, rec, rec2, rng, wfs, blk,
          range, SERVERS, RECOVERY_BLOCKER, RECOVER_SERVER, METADATA, RECOVER, loc, reg

MasterSets == [o \in Ops |->
    CASE o \in {m1, m2} -> [exc |-> {range}, dep |-> {SERVERS, METADATA}, obs |-> {}]
      [] o \in {rec, rec2} -> [exc |-> {loc}, dep |-> {RECOVERY_BLOCKER, reg}, obs |-> {RECOVER_SERVER}]
      [] o = wfs -> [exc |-> {}, dep |-> {}, obs |-> {SERVERS}]
      [] o = blk -> [exc |-> {}, dep |-> {}, obs |-> {RECOVERY_BLOCKER}]
      [] o = rng -> [exc |-> {}, dep |-> {RECOVERY_BLOCKER}, obs |-> {METADATA}]]

MasterChanges == [o \in Ops |->
    LET started == [exc |-> {loc, reg}, dep |-> {RECOVERY_BLOCKER}, obs |-> {RECOVER_SERVER}]
    IN  CASE o = rec -> << started @@ [subs |-> {}], started @@ [subs |-> {rng}] >>
          [] o = rec2 -> << started @@ [subs |-> {}] >>
          [] OTHER -> <<>>]

AllCalls == [k \in CallKind |-> 1]
OneActivation == [k \in CallKind |-> IF k = "activate" THEN 1 ELSE 0]

Exclusives == [o \in Ops |-> IF o \in {rec, rec2} THEN {RECOVER} ELSE {}]
=============================================================================
