----------------------------- MODULE Supervisor -----------------------------
(***************************************************************************)
(* The life of the load balancer's processes over several runs: setup,     *)
(* fork, supervision, shutdown and cleanup in main.rs and loader.rs, with  *)
(* the eBPF maps, whose pins outlive a process, and the tick files, which  *)
(* the next run writes over.                                               *)
(*                                                                         *)
(* A run is a number.  Its workers are reduced to what lasts beyond them:  *)
(* they open the pinned M_Sel and their tick file, publish to the one and  *)
(* write rows to the other, and leave when their copy of the shutdown flag *)
(* is set (Hermes has the rest).  A tick file is the set of runs that have *)
(* put rows into it since it was last truncated.                           *)
(***************************************************************************)
EXTENDS HermesCommon, FiniteSets

CONSTANTS Policies,     \* the policies a run may be started with
          FlushEvery,   \* FLUSH_EVERY of the tick writer
          MaxRuns,      \* bound: how often the program is started
          Faults,       \* the kinds of failure that may happen
          MaxFaults     \* bound: failures in one behaviour

ASSUME PoliciesAssumption == Policies \subseteq {"hermes", "reuseport", "lifo"}
ASSUME BoundsAssumption == /\ FlushEvery \in Nat \ {0} /\ MaxRuns \in Nat
                           /\ MaxFaults \in Nat

Runs == 1 .. MaxRuns
NoMap == 0

VARIABLES
    policy,             \* the --policy of each run
    parent,             \* where each run's main() is
    next,               \* the worker its fork, kill and waitpid loops are at
    flag,               \* the parent's shutdown flag
    child, cflag,       \* each worker process, and its own copy of the flag
    cmap,               \* the M_Sel map each worker has opened
    pinned,             \* the map the pin under BPFFS_DIR names
    writer,             \* history: the run that last wrote each map, 0 if none
    unwritten,          \* the tick rows each worker's writer holds back
    file,               \* the runs with rows in each tick file since it was created
    faults              \* what the bound counts

vars == <<policy, parent, next, flag, child, cflag, cmap, pinned, writer,
          unwritten, file, faults>>

procs == <<child, cflag, cmap>>
maps  == <<pinned, writer>>
ticks == <<unwritten, file>>

\* main has returned: in order, in order but for the pins, or with an error.
Orderly == {"done", "unclean"}
Ended == Orderly \cup {"failed"}
Lives(r, w) == child[r][w] \in {"boot", "runs"}

Fault(kind) == /\ kind \in Faults /\ faults < MaxFaults
               /\ faults' = faults + 1

PGoto(r, l) == parent' = [parent EXCEPT ![r] = l]
-----------------------------------------------------------------------------
Init == /\ policy \in [Runs -> Policies]
        /\ parent = [r \in Runs |-> "idle"]
        /\ next = [r \in Runs |-> 0]
        /\ flag = [r \in Runs |-> FALSE]
        /\ child = [r \in Runs |-> [w \in Workers |-> "none"]]
        /\ cflag = [r \in Runs |-> [w \in Workers |-> FALSE]]
        /\ cmap = [r \in Runs |-> [w \in Workers |-> NoMap]]
        /\ pinned = NoMap /\ writer = [r \in Runs |-> 0]
        /\ unwritten = [r \in Runs |-> [w \in Workers |-> 0]]
        /\ file = [w \in Workers |-> {}]
        /\ faults = 0

\* The program is started, one run after the other, and its handlers are
\* registered.
Start(r) ==
    /\ parent[r] = "idle" /\ \A q \in 1 .. r - 1 : parent[q] \in Ended
    /\ PGoto(r, "setup")
    /\ UNCHANGED <<next, flag, procs, maps, ticks, faults>>

\* The port cannot be bound while a worker of an earlier run holds it, unless
\* both sides use SO_REUSEPORT, which the shared listener does not.
PortFree(r) == \A q \in 1 .. r - 1, w \in Workers :
                  Lives(q, w) => policy[q] # "lifo" /\ policy[r] # "lifo"

\* setup: the listeners, and under hermes the eBPF object, whose maps are created
\* and pinned, or reused when a pin of their name is there.
Setup(r) ==
    /\ parent[r] = "setup" /\ PortFree(r)
    /\ pinned' = IF policy[r] = "hermes" /\ pinned = NoMap THEN r ELSE pinned
    /\ PGoto(r, "fork")
    /\ UNCHANGED <<next, flag, procs, writer, ticks, faults>>

\* A step of setup fails, before or after the pins were made; nothing undoes them.
SetupFails(r) ==
    /\ parent[r] = "setup"
    /\ \/ ~PortFree(r) /\ UNCHANGED <<pinned, faults>>
       \/ /\ Fault("setup")
          /\ \/ UNCHANGED pinned
             \/ policy[r] = "hermes" /\ pinned = NoMap /\ pinned' = r
    /\ PGoto(r, "failed")
    /\ UNCHANGED <<next, flag, procs, writer, ticks>>

\* The next worker is forked; it inherits the flag as it is.
Fork(r) ==
    /\ parent[r] = "fork" /\ next[r] < NumWorkers
    /\ child' = [child EXCEPT ![r][next[r]] = "boot"]
    /\ cflag' = [cflag EXCEPT ![r][next[r]] = flag[r]]
    /\ next' = [next EXCEPT ![r] = @ + 1]
    /\ UNCHANGED <<parent, flag, cmap, maps, ticks, faults>>

\* fork fails and main returns the error.
ForkFails(r) ==
    /\ parent[r] = "fork" /\ next[r] < NumWorkers /\ Fault("fork")
    /\ PGoto(r, "failed")
    /\ UNCHANGED <<next, flag, procs, maps, ticks>>

\* Mutation of SeeShutdown: the kill loop starts where the fork loop stopped.
SeeShutdownNoReset(r) ==
    /\ parent[r] = "fork" /\ next[r] = NumWorkers /\ flag[r]
    /\ PGoto(r, "kill")
    /\ UNCHANGED <<next, flag, procs, maps, ticks, faults>>

\* All workers run and the flag has been seen.
SeeShutdown(r) ==
    /\ parent[r] = "fork" /\ next[r] = NumWorkers /\ flag[r]
    /\ next' = [next EXCEPT ![r] = 0]
    /\ PGoto(r, "kill")
    /\ UNCHANGED <<flag, procs, maps, ticks, faults>>

\* Mutation of Forward: the signal is sent to the first worker only.
ForwardFirst(r) ==
    /\ parent[r] = "kill"
    /\ cflag' = [cflag EXCEPT ![r][next[r]] = TRUE]
    /\ next' = [next EXCEPT ![r] = 0]
    /\ PGoto(r, "wait")
    /\ UNCHANGED <<flag, child, cmap, maps, ticks, faults>>

\* SIGTERM to the next worker; a zombie takes no notice.
Forward(r) ==
    /\ parent[r] = "kill"
    /\ cflag' = [cflag EXCEPT ![r][next[r]] = TRUE]
    /\ IF next[r] + 1 < NumWorkers
       THEN next' = [next EXCEPT ![r] = @ + 1] /\ UNCHANGED parent
       ELSE next' = [next EXCEPT ![r] = 0] /\ PGoto(r, "wait")
    /\ UNCHANGED <<flag, child, cmap, maps, ticks, faults>>

\* waitpid for the next worker.
Wait(r) ==
    /\ parent[r] = "wait" /\ ~Lives(r, next[r])
    /\ IF next[r] + 1 < NumWorkers
       THEN next' = [next EXCEPT ![r] = @ + 1] /\ UNCHANGED parent
       ELSE next' = [next EXCEPT ![r] = 0] /\ PGoto(r, "clean")
    /\ UNCHANGED <<flag, procs, maps, ticks, faults>>

\* Mutation of Clean: the pins stay.
CleanNothing(r) ==
    /\ parent[r] = "clean"
    /\ PGoto(r, "done")
    /\ UNCHANGED <<next, flag, procs, maps, ticks, faults>>

\* The pins are removed.
Clean(r) ==
    /\ parent[r] = "clean"
    /\ pinned' = IF policy[r] = "hermes" THEN NoMap ELSE pinned
    /\ PGoto(r, "done")
    /\ UNCHANGED <<next, flag, procs, writer, ticks, faults>>

\* The pins cannot be removed: a warning, and they stay.
CleanFails(r) ==
    /\ parent[r] = "clean" /\ policy[r] = "hermes" /\ Fault("clean")
    /\ PGoto(r, "unclean")
    /\ UNCHANGED <<next, flag, procs, maps, ticks>>

\* The supervisor is killed: neither the workers nor the pins go with it.
Killed(r) ==
    /\ parent[r] \notin Ended \cup {"idle"} /\ Fault("kill")
    /\ PGoto(r, "failed")
    /\ UNCHANGED <<next, flag, procs, maps, ticks>>
-----------------------------------------------------------------------------
\* A worker reopens the pinned map by its path, exits when it is not there, and
\* creates its tick file, whatever an earlier run left in it.
WorkerBoot(r, w) ==
    /\ child[r][w] = "boot"
    /\ \/ /\ policy[r] = "hermes" /\ pinned = NoMap
          /\ child' = [child EXCEPT ![r][w] = "gone"]
          /\ UNCHANGED <<cmap, file>>
       \/ /\ policy[r] = "hermes" => pinned # NoMap
          /\ child' = [child EXCEPT ![r][w] = "runs"]
          /\ cmap' = [cmap EXCEPT ![r][w] = IF policy[r] = "hermes" THEN pinned ELSE NoMap]
          /\ file' = [file EXCEPT ![w] = {}]
    /\ UNCHANGED <<parent, next, flag, cflag, maps, unwritten, faults>>

\* The rows the tick writer holds back reach the file.
Flush(r, w) ==
    /\ unwritten' = [unwritten EXCEPT ![r][w] = 0]
    /\ file' = IF unwritten[r][w] > 0 THEN [file EXCEPT ![w] = @ \cup {r}] ELSE file

\* One loop: the scheduling pass ends in a map write, and a row goes to the tick
\* writer, which flushes when it has enough of them.
WorkerLoops(r, w) ==
    /\ child[r][w] = "runs"
    /\ writer' = IF policy[r] = "hermes" THEN [writer EXCEPT ![cmap[r][w]] = r] ELSE writer
    /\ IF unwritten[r][w] + 1 < FlushEvery
       THEN unwritten' = [unwritten EXCEPT ![r][w] = @ + 1] /\ UNCHANGED file
       ELSE /\ unwritten' = [unwritten EXCEPT ![r][w] = 0]
            /\ file' = [file EXCEPT ![w] = @ \cup {r}]
    /\ UNCHANGED <<parent, next, flag, procs, pinned, faults>>

\* Mutation of WorkerLeaves: the last rows are left in the writer.
WorkerLeavesUnflushed(r, w) ==
    /\ child[r][w] = "runs" /\ cflag[r][w]
    /\ child' = [child EXCEPT ![r][w] = "left"]
    /\ UNCHANGED <<parent, next, flag, cflag, cmap, maps, ticks, faults>>

\* At the top of its loop a worker leaves when its flag is set, and flushes.
WorkerLeaves(r, w) ==
    /\ child[r][w] = "runs" /\ cflag[r][w]
    /\ child' = [child EXCEPT ![r][w] = "left"]
    /\ Flush(r, w)
    /\ UNCHANGED <<parent, next, flag, cflag, cmap, maps, faults>>

\* A worker fails.  With an error it still flushes what it can; killed, or if the
\* file is what failed, it loses the rows it held back.
WorkerFails(r, w) ==
    /\ Lives(r, w) /\ Fault("worker")
    /\ child' = [child EXCEPT ![r][w] = "gone"]
    /\ \/ Flush(r, w)
       \/ unwritten' = [unwritten EXCEPT ![r][w] = 0] /\ UNCHANGED file
    /\ UNCHANGED <<parent, next, flag, cflag, cmap, maps>>

\* SIGTERM to the supervisor alone, or Ctrl-C to its whole process group.
Signal(r) ==
    /\ parent[r] \notin Ended \cup {"idle"} /\ ~flag[r]
    /\ flag' = [flag EXCEPT ![r] = TRUE]
    /\ \/ UNCHANGED cflag
       \/ cflag' = [cflag EXCEPT ![r] =
                      [w \in Workers |-> cflag[r][w] \/ Lives(r, w)]]
    /\ UNCHANGED <<parent, next, child, cmap, maps, ticks, faults>>

Main(r) == \/ Setup(r) \/ SetupFails(r) \/ Fork(r) \/ SeeShutdown(r)
           \/ Forward(r) \/ Wait(r) \/ Clean(r)

Worker(r, w) == WorkerBoot(r, w) \/ WorkerLeaves(r, w)

\* A run keeps its policy.
Next == /\ UNCHANGED policy
        /\ \E r \in Runs :
            \/ Start(r) \/ Main(r) \/ ForkFails(r) \/ CleanFails(r) \/ Killed(r) \/ Signal(r)
            \/ \E w \in Workers : \/ Worker(r, w) \/ WorkerLoops(r, w)
                                  \/ WorkerFails(r, w)

Spec == Init /\ [][Next]_vars

\* The processes are scheduled; a worker comes around to the top of its loop
\* (ShutdownCompletes in Hermes).  Nobody need start or stop a run.
FairSpec == Spec /\ \A r \in Runs : /\ WF_vars(Main(r) /\ UNCHANGED policy)
                                    /\ \A w \in Workers : WF_vars(Worker(r, w) /\ UNCHANGED policy)
-----------------------------------------------------------------------------
TypeOK ==
    /\ policy \in [Runs -> Policies]
    /\ parent \in [Runs -> {"idle", "setup", "fork", "kill", "wait", "clean"} \cup Ended]
    /\ next \in [Runs -> 0 .. NumWorkers]
    /\ \A r \in Runs : parent[r] \in {"kill", "wait"} => next[r] \in Workers
    /\ flag \in [Runs -> BOOLEAN]
    /\ child \in [Runs -> [Workers -> {"none", "boot", "runs", "left", "gone"}]]
    /\ cflag \in [Runs -> [Workers -> BOOLEAN]]
    /\ cmap \in [Runs -> [Workers -> Runs \cup {NoMap}]]
    /\ pinned \in Runs \cup {NoMap} /\ writer \in [Runs -> 0 .. MaxRuns]
    /\ unwritten \in [Runs -> [Workers -> 0 .. FlushEvery - 1]]
    /\ file \in [Workers -> SUBSET Runs]
    /\ faults \in 0 .. MaxFaults

\* A run that is not cut short outlives its workers: none of them survives main,
\* whichever of them got the signal and whenever, also before its own loop began.
\* Where the earlier runs were not cut short either, the tick file of a worker that
\* left in order holds every row it made and nothing else until the next run
\* begins; an orphan of theirs would still write to it, or truncate it (main,
\* TickWriter).
CleanExit ==
    \A r \in Runs : parent[r] \in Orderly =>
        \A w \in Workers :
            /\ ~Lives(r, w)
            /\ /\ child[r][w] = "left"
               /\ \A q \in 1 .. r - 1 : parent[q] \in Orderly
               /\ \A q \in r + 1 .. MaxRuns : parent[q] = "idle"
               => unwritten[r][w] = 0 /\ file[w] \subseteq {r}

\* "Repeated runs don't see stale pins": a run that follows orderly ones only
\* starts from a bitmap no earlier run has written, until its own workers write
\* it (cleanup_pins).
NoStaleBitmap ==
    \A r \in Runs :
        parent[r] = "fork" /\ (\A q \in 1 .. r - 1 : parent[q] = "done")
            /\ policy[r] = "hermes" => writer[pinned] \in {0, r}

\* Told to stop, the supervisor ends, although only it may have got the signal.
ShutdownCompletes == \A r \in Runs : flag[r] ~> parent[r] \in Ended

=============================================================================
