---------------------------- MODULE MCRangeMove ----------------------------
(***************************************************************************)
(* Instances of RangeMove for TLC: one range that starts at s1, or whose   *)
(* parent does, and a bound for each kind of failure.                      *)
(***************************************************************************)
EXTENDS RangeMove, TLC

CONSTANTS s1, s2, s3, r1

HomeS1 == [r \in Ranges |-> s1]

\* Every bound is zero but those given.
Bounds(f) == f @@ [k \in FailureKind |-> 0]

LoadErrors == Bounds([balance |-> 1, load |-> 2])
CrashingServers == Bounds([balance |-> 1, server |-> 1, balfail |-> 1])
CrashingMaster == Bounds([balance |-> 1, master |-> 2])
SplitErrors == Bounds([load |-> 1, server |-> 1])

OneMasterCrash == Bounds([balance |-> 1, master |-> 1])
TwoBalances == Bounds([balance |-> 2, server |-> 1])
NoFailure == Bounds([balance |-> 1])
=============================================================================
