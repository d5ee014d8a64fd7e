---------------------------- MODULE SimulationMC ----------------------------
(* The configurations of the simulation that TLC checks. *)
EXTENDS Simulation

AllPolicies ==
    {[policy |-> "hermes",    case |-> 1, weak |-> FALSE, fails |-> FALSE],
     [policy |-> "hermes",    case |-> 3, weak |-> FALSE, fails |-> TRUE],
     [policy |-> "reuseport", case |-> 5, weak |-> FALSE, fails |-> TRUE],
     [policy |-> "lifo",      case |-> 2, weak |-> TRUE,  fails |-> FALSE]}

\* The profile with a burst, on a machine where nothing goes wrong.
CaseFive == {[policy |-> "reuseport", case |-> 5, weak |-> FALSE, fails |-> FALSE]}

=============================================================================
