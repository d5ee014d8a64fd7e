------------------------------ MODULE Workload ------------------------------
(***************************************************************************)
(* The traffic profiles of the simulation and of the load generator        *)
(* (workload.rs of both, whose tables agree).  Times are in milliseconds.  *)
(* Rates, which are all a load level changes, and service times are left   *)
(* out: the models count connections and let a service take any time.      *)
(***************************************************************************)
EXTENDS Integers

NoBurst == -1

Profile(duration, lifetime, burst) ==
    [duration |-> duration,     \* how long traffic is generated
     lifetime |-> lifetime,     \* how long a connection stays open
     burst    |-> burst]        \* when every open connection fires a follow-up

\* Cases 1, 2 and 4 close their connections during the run, 3 and 5 never do.
BaseCase == << Profile(3000, 150, NoBurst),
               Profile(4000, 200, NoBurst),
               Profile(4000, 60000, NoBurst),
               Profile(4000, 400, NoBurst),
               Profile(4000, 60000, 2500) >>

Cases == DOMAIN BaseCase

DefaultCase == Profile(2500, 250, NoBurst)

\* What a run can be asked for: a case by its number, or none.
Profiles == {BaseCase[c] : c \in Cases} \cup {DefaultCase}

=============================================================================
