--------------------------- MODULE DispatchCheck ---------------------------
(***************************************************************************)
(* One scheduling pass over every table of a small range, and one dispatch *)
(* decision for every hash under the bitmap the pass published: Algorithms *)
(* 1 and 2, input by input, against what they promise.                     *)
(***************************************************************************)
EXTENDS Scheduler, Dispatcher

CONSTANTS Now,          \* the clock when the pass starts
          Stamps,       \* loop-entry timestamps a slot may hold
          ConnCounts,   \* connection counts a slot may hold
          EventCounts   \* pending-event counts a slot may hold

\* Timestamps are unsigned; the counts are never negative (CountersAreExact).
ASSUME TablesAssumption ==
    Now \in Nat /\ Stamps \subseteq Nat /\ ConnCounts \subseteq Nat /\ EventCounts \subseteq Nat

VARIABLES lle, pending, conns,  \* the snapshots of the worker status table
          result,               \* what the pass returned, NoResult outside it
          bitmap,               \* the content of M_Sel, Unpublished before the pass
          hash,                 \* the hash of the arriving connection
          selected              \* what try_select returned, Pending before the call

vars == <<lle, pending, conns, result, bitmap, hash, selected>>

NoResult == [bitmap |-> {-1}, after1 |-> {}, after2 |-> {}]
Unpublished == {-1}
Pending == -2
ZeroTable == [w \in Workers |-> 0]

Init == /\ lle \in [Workers -> Stamps]
        /\ pending \in [Workers -> EventCounts]
        /\ conns \in [Workers -> ConnCounts]
        /\ result = NoResult /\ bitmap = Unpublished
        /\ hash = 0 /\ selected = Pending

\* schedule(): the filter cascade, and its bitmap is written to M_Sel.
SchedulePass == /\ bitmap = Unpublished
                /\ result' = ScheduleFromSnapshots(Now, lle, pending, conns)
                /\ bitmap' = result'.bitmap
                /\ UNCHANGED <<lle, pending, conns, hash, selected>>

\* A connection arrives: only the bitmap is left of the pass, whose snapshots
\* were locals of the worker that ran it.
Select == /\ bitmap # Unpublished /\ selected = Pending
          /\ hash' \in Hash
          /\ selected' = TrySelect(bitmap, hash')
          /\ lle' = ZeroTable /\ pending' = ZeroTable /\ conns' = ZeroTable
          /\ result' = NoResult
          /\ UNCHANGED bitmap

Next == SchedulePass \/ Select

Spec == Init /\ [][Next]_vars

Passed == result # NoResult
-----------------------------------------------------------------------------
\* Each stage keeps everybody within one of its least loaded candidate, whatever
\* the others hold: rounding and the offset never drop the minimum, so a pass
\* that sees a live worker never publishes an empty bitmap, and near cold start
\* (counts of 0 and 1) nobody is filtered (filter_below_baseline, THETA_MIN).
NearMinimumKept ==
    Passed =>
      /\ \A i \in result.after1 : (\A j \in result.after1 : conns[i] <= conns[j] + 1)
                                    => i \in result.after2
      /\ \A i \in result.after2 : (\A j \in result.after2 : pending[i] <= pending[j] + 1)
                                    => i \in result.bitmap

\* A worker that is alive and no more loaded, on both counts, than a worker
\* that survives the cascade survives it too: stage 3 averages over what stage
\* 2 left, and still no stage prefers the more loaded of two workers.
LessLoadedSurvives ==
    Passed => \A i \in result.bitmap, j \in result.after1 :
                 conns[j] <= conns[i] /\ pending[j] <= pending[i]
                    => j \in result.bitmap

\* With all four workers alive the connection filter leaves a choice: it drops
\* at most two, so on its own it never forces the n <= 1 fallback of Algorithm 2.
ConnFilterLeavesTwo ==
    Passed /\ Cardinality(result.after1) = 4 => Cardinality(result.after2) >= 2

\* The hash falls back to the kernel's pick exactly when the bitmap offers no
\* choice; otherwise the scan always finds its bit (the trailing None, and the
\* "unreachable" arm of the simulation, are unreachable) and never leaves the
\* candidates (try_select, find_nth_set_bit).
SelectsCandidate ==
    selected # Pending =>
        IF Cardinality(bitmap) <= 1 THEN selected = NoWorker
                                    ELSE selected \in bitmap

\* Every candidate owns the same share of the hash space up to one hash: "maps
\* a 32-bit hash uniformly into [0, n)" survives the scan over a sparse bitmap.
EvenShares ==
    selected \in Workers =>
        \A i, j \in bitmap :
            LET share(w) == Cardinality({h \in Hash : TrySelect(bitmap, h) = w})
            IN  share(i) <= share(j) + 1

=============================================================================
