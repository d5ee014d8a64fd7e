------------------------------ MODULE HermesMC ------------------------------
(* The configurations Hermes is model-checked in. *)
EXTENDS Hermes

\* A hermes server without clients, started on a left-over bitmap, one worker told
\* to hang for as long as the threshold: the passes interleave with time.
Idle == {[policy |-> "hermes", hang |-> {w}, sel |-> {0},
          faults |-> {"boot", "fatal", "publish", "signal"},
          maxFaults |-> 1, maxArrivals |-> 0, maxClock |-> 2] : w \in Workers}

\* Clients and one failure, while time stands still.
WithClients(policy, n, kinds) ==
    [policy |-> policy, hang |-> {}, sel |-> Workers, faults |-> kinds,
     maxFaults |-> 1, maxArrivals |-> n, maxClock |-> 1]

\* A connection steered by the bitmap; two on listeners of their own; three on
\* the shared one, which keep a ready list longer than a batch of two.
Serving == {WithClients("hermes", 1, {"register", "publish", "signal"}),
            WithClients("reuseport", 2, {"boot", "fatal", "register", "accept", "signal"}),
            WithClients("lifo", 3, {"register"})}

IdleAndServing == Idle \cup Serving

\* One worker hangs and nothing fails.
OneHangs == {[policy |-> "hermes", hang |-> {w}, sel |-> {}, faults |-> {},
              maxFaults |-> 0, maxArrivals |-> 0, maxClock |-> 2] : w \in Workers}

\* One accept4 call fails with an error other than EAGAIN.
OneAcceptFails == {WithClients("reuseport", 2, {"accept"})}
=============================================================================
