----------------------------- MODULE Scheduler -----------------------------
(***************************************************************************)
(* Algorithm 1: the cascading filter every hermes worker runs over the     *)
(* worker status table at the end of its loop (scheduler.rs).  A pure      *)
(* function: snapshots in, candidate bitmap out.                           *)
(*                                                                         *)
(* A bitmap is the set of the worker ids whose bit is set.  The three      *)
(* metrics of a snapshot are three functions on Workers.                   *)
(***************************************************************************)
EXTENDS HermesCommon, FiniteSets

CONSTANT HangThreshold      \* HANG_THRESHOLD_NS, in ticks of the model's clock

ASSUME HangThresholdAssumption == HangThreshold \in Nat \ {0}

(***************************************************************************)
(* FilterCount.  The code compares in f64                                  *)
(*      metric < avg + max(0.5 * avg, 1)      with avg = sum / n.          *)
(* Multiplying by 2n gives the integer comparison below, which decides as  *)
(* the rounded one does for every count the program can hold.              *)
(***************************************************************************)
Metric(C, metric, i) == IF i \in C THEN metric[i] ELSE 0

\* The sum over the candidates, written out for the (at most) four workers.
Total(C, metric) == Metric(C, metric, 0) + Metric(C, metric, 1)
                      + Metric(C, metric, 2) + Metric(C, metric, 3)

\* 2n times the offset: max(THETA_RATIO * avg, THETA_MIN).
Theta(sum, n) == IF sum >= 2 * n THEN sum ELSE 2 * n

\* Mutations: the offset is forgotten; the metric is looked up by the position
\* among the candidates instead of by the worker id.
FilterWithoutOffset(C, metric) ==
    {i \in C : Cardinality(C) * metric[i] < Total(C, metric)}

FilterByPosition(C, metric) ==
    LET n   == Cardinality(C)
        sum == Total(C, metric)
        pos(i) == Cardinality({j \in C : j < i})
    IN  {i \in C : 2 * n * metric[pos(i)] < 2 * sum + Theta(sum, n)}

FilterBelowBaseline(C, metric) ==
    LET n   == Cardinality(C)
        sum == Total(C, metric)
    IN  {i \in C : 2 * n * metric[i] < 2 * sum + Theta(sum, n)}

\* Stage 1: a worker is kept when it has not entered its loop yet (the zeroed
\* timestamp) or entered it less than the threshold ago.
LooksAlive(now, t) == t = 0 \/ now - t < HangThreshold

\* Mutations of DropHung: no hang detection; the boundary counted as alive.
KeepHung(now, lle) == Workers
DropHungLate(now, lle) == {i \in Workers : lle[i] = 0 \/ now - lle[i] <= HangThreshold}

DropHung(now, lle) == {i \in Workers : LooksAlive(now, lle[i])}

ScheduleFromSnapshots(now, lle, pending, conns) ==
    LET after1 == DropHung(now, lle)
        after2 == FilterBelowBaseline(after1, conns)
        after3 == FilterBelowBaseline(after2, pending)
    IN  [bitmap |-> after3, after1 |-> after1, after2 |-> after2]

=============================================================================
