------------------------------ MODULE BenchMC ------------------------------
(* The profiles of the load generator, scaled for TLC: a tick is 1.5 s, and  *)
(* one connection arrives per tick.                                          *)
EXTENDS Bench

TickMs == 1500

InTicks(p) == [p EXCEPT !.duration = @ \div TickMs,
                        !.lifetime = @ \div TickMs,
                        !.burst = IF @ = NoBurst THEN NoBurst ELSE @ \div TickMs]

ScaledProfiles == {InTicks(p) : p \in Profiles}

=============================================================================
