---------------------------- MODULE HermesCommon ----------------------------
(***************************************************************************)
(* The constants every part of the system is compiled against              *)
(* (hermes-common/src/lib.rs).                                             *)
(***************************************************************************)
EXTENDS Integers

CONSTANT NumWorkers     \* NUM_WORKERS, 4 in the build

\* The worker count is a compile-time constant.  Every count up to the one the
\* build uses is allowed, so that small instances can be model-checked.
ASSUME NumWorkersAssumption == NumWorkers \in 1..4

\* Worker ids, in fork order.
Workers == 0 .. NumWorkers - 1

=============================================================================
