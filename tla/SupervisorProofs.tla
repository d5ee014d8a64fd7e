-------------------------- MODULE SupervisorProofs --------------------------
(***************************************************************************)
(* What outlives a run of the load balancer, for every number of runs,     *)
(* workers and failures: no worker survives a supervisor that ends in      *)
(* order, its tick file is complete and its own, and the next run does not *)
(* start from its bitmap.                                                  *)
(***************************************************************************)
EXTENDS Supervisor, TLAPS

\* A run has not yet got as far as its pins and its workers.
Fresh == {"idle", "setup"}

\* Between setup and the end: the pins are this run's.
Up == {"fork", "kill", "wait", "clean"}

EarlierAll(r, S) == \A q \in 1 .. r - 1 : parent[q] \in S
LaterIdle(r) == \A q \in r + 1 .. MaxRuns : parent[q] = "idle"

\* The runs follow each other.
InOrder == \A r, q \in Runs : q < r /\ parent[r] # "idle" => parent[q] \in Ended

\* There are no workers before the fork loop has come to them.
Unborn == \A r \in Runs, w \in Workers :
             parent[r] \in Fresh \/ (parent[r] = "fork" /\ next[r] <= w)
                => child[r][w] = "none"

\* The wait loop leaves no live worker behind it.
WaitedFor == \A r \in Runs, w \in Workers :
                (parent[r] = "wait" /\ w < next[r]) \/ parent[r] \in {"clean"} \cup Orderly
                   => ~Lives(r, w)

\* Only a worker in its loop holds rows back.
RowsHeld == \A r \in Runs, w \in Workers : child[r][w] # "runs" => unwritten[r][w] = 0

\* From its worker's start the tick file of the newest run is its own.
OwnFile == \A r \in Runs, w \in Workers :
              child[r][w] \in {"runs", "left"} /\ EarlierAll(r, Orderly) /\ LaterIdle(r)
                 => file[w] \subseteq {r}

\* A map that a run has yet to create is not pinned, open or written anywhere.
NoMapYet == \A m \in Runs : parent[m] \in Fresh =>
               /\ pinned # m /\ writer[m] = 0
               /\ \A r \in Runs, w \in Workers : cmap[r][w] # m

\* After runs that cleaned up there are no pins but those of a hermes run under
\* way, and nobody else has written its bitmap.
Pins == \A r \in Runs :
           EarlierAll(r, {"done"}) /\ LaterIdle(r) =>
              /\ parent[r] \in Fresh \cup {"done"} => pinned = NoMap
              /\ parent[r] \in Up =>
                    IF policy[r] = "hermes" THEN pinned = r /\ writer[r] \in {0, r}
                                            ELSE pinned = NoMap

IInv == TypeOK /\ InOrder /\ Unborn /\ WaitedFor /\ RowsHeld /\ OwnFile /\ NoMapYet /\ Pins

-----------------------------------------------------------------------------
(***************************************************************************)
(* The steps, entry by entry: what each of them does to the variables that *)
(* the invariant is about.                                                 *)
(***************************************************************************)

Same(r) == UNCHANGED <<parent[r], next[r]>>

\* A step of main other than fork, or a signal.
MainStep(r) ==
    /\ UNCHANGED <<policy, child, cmap, writer, unwritten, file>>
    /\ \A q \in Runs \ {r} : Same(q)
    /\ \/ Same(r) /\ UNCHANGED pinned
       \/ /\ parent[r] = "idle" /\ parent'[r] = "setup" /\ EarlierAll(r, Ended)
          /\ UNCHANGED pinned
       \/ /\ parent[r] = "setup" /\ parent'[r] = "fork"
          /\ pinned' = IF policy[r] = "hermes" /\ pinned = NoMap THEN r ELSE pinned
       \/ parent[r] = "setup" /\ parent'[r] = "failed" /\ pinned' \in {pinned, r}
       \/ parent[r] = "fork" /\ parent'[r] = "kill" /\ UNCHANGED pinned
       \/ parent[r] = "kill" /\ parent'[r] = "kill" /\ UNCHANGED pinned
       \/ parent[r] = "kill" /\ parent'[r] = "wait" /\ next'[r] = 0 /\ UNCHANGED pinned
       \/ /\ parent[r] = "wait" /\ parent'[r] = "wait" /\ UNCHANGED pinned
          /\ ~Lives(r, next[r]) /\ next'[r] = next[r] + 1
       \/ /\ parent[r] = "wait" /\ parent'[r] = "clean" /\ UNCHANGED pinned
          /\ ~Lives(r, next[r]) /\ next[r] + 1 >= NumWorkers
       \/ /\ parent[r] = "clean" /\ parent'[r] = "done"
          /\ pinned' = IF policy[r] = "hermes" THEN NoMap ELSE pinned
       \/ parent[r] = "clean" /\ parent'[r] = "unclean" /\ UNCHANGED pinned
       \/ /\ parent[r] \notin Ended \cup {"idle"} /\ parent'[r] = "failed"
          /\ UNCHANGED pinned

\* A fork.
ForkStep(r) ==
    /\ UNCHANGED <<policy, parent, cmap, pinned, writer, unwritten, file>>
    /\ parent[r] = "fork" /\ next[r] \in Workers /\ next'[r] = next[r] + 1
    /\ \A q \in Runs \ {r} : Same(q)
    /\ \A q \in Runs, v \in Workers :
          child'[q][v] = IF q = r /\ v = next[r] THEN "boot" ELSE child[q][v]

\* A step of a worker.
WorkerStep(r, w) ==
    /\ UNCHANGED <<policy, parent, next, pinned>>
    /\ \A q \in Runs, v \in Workers : q # r \/ v # w =>
          /\ child'[q][v] = child[q][v] /\ cmap'[q][v] = cmap[q][v]
          /\ unwritten'[q][v] = unwritten[q][v]
    /\ \A v \in Workers \ {w} : file'[v] = file[v]
    /\ \/ /\ child[r][w] = "boot" /\ child'[r][w] = "gone"
          /\ UNCHANGED <<cmap, writer, unwritten, file>>
       \/ /\ child[r][w] = "boot" /\ child'[r][w] = "runs"
          /\ cmap'[r][w] \in {pinned, NoMap} /\ file'[w] = {}
          /\ UNCHANGED <<writer, unwritten>>
       \/ /\ child[r][w] = "runs" /\ UNCHANGED <<child, cmap>>
          /\ \A m \in Runs : writer'[m] = writer[m] \/ (m = cmap[r][w] /\ writer'[m] = r)
          /\ file'[w] \subseteq file[w] \cup {r}
       \/ /\ Lives(r, w) /\ child'[r][w] \in {"left", "gone"}
          /\ child[r][w] = "runs" \/ child'[r][w] = "gone"
          /\ unwritten'[r][w] = 0 /\ file'[w] \subseteq file[w] \cup {r}
          /\ UNCHANGED <<cmap, writer>>

\* Writing one entry of a table indexed by runs and workers.
LEMMA SetEntry ==
    ASSUME NEW A, NEW B, NEW S, NEW f \in [A -> [B -> S]],
           NEW a \in A, NEW b \in B, NEW v \in S
    PROVE  /\ [f EXCEPT ![a][b] = v] \in [A -> [B -> S]]
           /\ \A x \in A, y \in B :
                 [f EXCEPT ![a][b] = v][x][y] = IF x = a /\ y = b THEN v ELSE f[x][y]
  OBVIOUS

\* Worker ids are the numbers below NUM_WORKERS.
LEMMA WorkersInNat == /\ NumWorkers \in Nat \ {0} /\ Workers \subseteq Nat /\ 0 \in Workers
                      /\ \A n \in Nat : n \in Workers <=> n < NumWorkers
  BY NumWorkersAssumption DEF Workers

\* main only moves forward, by the steps above.
LEMMA MainSteps ==
    ASSUME TypeOK, UNCHANGED policy, NEW r \in Runs,
           \/ Start(r) \/ Setup(r) \/ SetupFails(r) \/ ForkFails(r) \/ SeeShutdown(r)
           \/ Forward(r) \/ Wait(r) \/ Clean(r) \/ CleanFails(r) \/ Killed(r) \/ Signal(r)
    PROVE  MainStep(r)
  <1> DEFINE Pcs == {"idle", "setup", "fork", "kill", "wait", "clean"} \cup Ended
  <1>1. parent \in [Runs -> Pcs] /\ next \in [Runs -> 0 .. NumWorkers]
    BY DEF TypeOK
  <1>2. \A l : PGoto(r, l) => /\ parent'[r] = l
                              /\ \A q \in Runs \ {r} : parent'[q] = parent[q]
    BY <1>1 DEF PGoto
  <1>3. \A n : next' = [next EXCEPT ![r] = n] =>
                              /\ next'[r] = n
                              /\ \A q \in Runs \ {r} : next'[q] = next[q]
    BY <1>1
  <1>4. next[r] \in Nat /\ NumWorkers \in Nat
    BY <1>1, WorkersInNat
  <1> USE DEF MainStep, Same, procs, maps, ticks, Fault
  <1>5. CASE Start(r)
    BY <1>5, <1>2 DEF Start, EarlierAll
  <1>6. CASE Setup(r)
    BY <1>6, <1>2 DEF Setup
  <1>7. CASE SetupFails(r)
    BY <1>7, <1>2 DEF SetupFails
  <1>8. CASE ForkFails(r)
    BY <1>8, <1>2 DEF ForkFails, Ended, Orderly
  <1>9. CASE SeeShutdown(r)
    BY <1>9, <1>2, <1>3 DEF SeeShutdown
  <1>10. CASE Forward(r)
    BY <1>10, <1>2, <1>3, <1>4 DEF Forward
  <1>11. CASE Wait(r)
    BY <1>11, <1>2, <1>3, <1>4 DEF Wait
  <1>12. CASE Clean(r)
    BY <1>12, <1>2 DEF Clean
  <1>13. CASE CleanFails(r)
    BY <1>13, <1>2 DEF CleanFails
  <1>14. CASE Killed(r)
    BY <1>14, <1>2 DEF Killed
  <1>15. CASE Signal(r)
    BY <1>15 DEF Signal
  <1> QED
    BY <1>5, <1>6, <1>7, <1>8, <1>9, <1>10, <1>11, <1>12, <1>13, <1>14, <1>15

\* fork gives life to the worker its loop is at, and to no other.
LEMMA ForkSteps ==
    ASSUME TypeOK, UNCHANGED policy, NEW r \in Runs, Fork(r)
    PROVE  ForkStep(r)
  <1>1. next \in [Runs -> 0 .. NumWorkers] /\ next[r] \in Workers
    BY WorkersInNat DEF TypeOK, Fork
  <1>2. \A q \in Runs, v \in Workers :
           child'[q][v] = IF q = r /\ v = next[r] THEN "boot" ELSE child[q][v]
    BY <1>1 DEF TypeOK, Fork
  <1>3. next'[r] = next[r] + 1 /\ \A q \in Runs \ {r} : next'[q] = next[q]
    BY <1>1 DEF Fork
  <1> QED
    BY <1>1, <1>2, <1>3 DEF Fork, ForkStep, Same, maps, ticks

\* A worker touches its own entries and its own file, and the map it has opened.
LEMMA WorkerSteps ==
    ASSUME TypeOK, UNCHANGED policy, NEW r \in Runs, NEW w \in Workers,
           WorkerBoot(r, w) \/ WorkerLoops(r, w) \/ WorkerLeaves(r, w) \/ WorkerFails(r, w)
    PROVE  WorkerStep(r, w)
  <1>1. \A s : child' = [child EXCEPT ![r][w] = s] =>
                 /\ child'[r][w] = s
                 /\ \A q \in Runs, v \in Workers : q # r \/ v # w => child'[q][v] = child[q][v]
    BY DEF TypeOK
  <1>2. \A n : unwritten' = [unwritten EXCEPT ![r][w] = n] =>
                 /\ unwritten'[r][w] = n
                 /\ \A q \in Runs, v \in Workers :
                       q # r \/ v # w => unwritten'[q][v] = unwritten[q][v]
    BY DEF TypeOK
  <1>3. \A m : cmap' = [cmap EXCEPT ![r][w] = m] =>
                 /\ cmap'[r][w] = m
                 /\ \A q \in Runs, v \in Workers : q # r \/ v # w => cmap'[q][v] = cmap[q][v]
    BY DEF TypeOK
  <1>4. \A F : file' = [file EXCEPT ![w] = F] =>
                 file'[w] = F /\ \A v \in Workers \ {w} : file'[v] = file[v]
    BY DEF TypeOK
  <1>5. Flush(r, w) => /\ unwritten'[r][w] = 0
                       /\ \A q \in Runs, v \in Workers :
                             q # r \/ v # w => unwritten'[q][v] = unwritten[q][v]
                       /\ file'[w] \subseteq file[w] \cup {r}
                       /\ \A v \in Workers \ {w} : file'[v] = file[v]
    BY <1>2, <1>4 DEF Flush
  <1> USE DEF WorkerStep, procs, maps, ticks, Fault
  <1>6. CASE WorkerBoot(r, w)
    <2>1. CASE child' = [child EXCEPT ![r][w] = "gone"] /\ UNCHANGED <<cmap, file>>
      <3>1. child[r][w] = "boot" /\ UNCHANGED <<parent, next, pinned, writer, unwritten>>
        BY <1>6 DEF WorkerBoot
      <3>2. /\ child'[r][w] = "gone"
            /\ \A q \in Runs, v \in Workers : q # r \/ v # w => child'[q][v] = child[q][v]
        BY <1>1, <2>1
      <3> QED
        BY <2>1, <3>1, <3>2
    <2>2. CASE /\ child' = [child EXCEPT ![r][w] = "runs"]
               /\ cmap' = [cmap EXCEPT ![r][w] =
                              IF policy[r] = "hermes" THEN pinned ELSE NoMap]
               /\ file' = [file EXCEPT ![w] = {}]
      <3>1. /\ cmap'[r][w] \in {pinned, NoMap}
            /\ \A q \in Runs, v \in Workers : q # r \/ v # w => cmap'[q][v] = cmap[q][v]
        BY <1>3, <2>2
      <3>2. /\ child'[r][w] = "runs"
            /\ \A q \in Runs, v \in Workers : q # r \/ v # w => child'[q][v] = child[q][v]
        BY <1>1, <2>2
      <3>3. child[r][w] = "boot" /\ UNCHANGED <<parent, next, pinned, writer, unwritten>>
        BY <1>6 DEF WorkerBoot
      <3>4. file'[w] = {} /\ \A v \in Workers \ {w} : file'[v] = file[v]
        BY <1>4, <2>2
      <3> QED
        BY <3>1, <3>2, <3>3, <3>4
    <2> QED
      BY <1>6, <2>1, <2>2 DEF WorkerBoot
  <1>7. CASE WorkerLoops(r, w)
    <2>1. \A m \in Runs : writer'[m] = writer[m] \/ (m = cmap[r][w] /\ writer'[m] = r)
      BY <1>7 DEF WorkerLoops, TypeOK
    <2>2. /\ child[r][w] = "runs"
          /\ UNCHANGED <<parent, next, child, cmap, pinned>>
      BY <1>7 DEF WorkerLoops
    <2>3. \A q \in Runs, v \in Workers :
             q # r \/ v # w => unwritten'[q][v] = unwritten[q][v]
      BY <1>2, <1>7 DEF WorkerLoops
    <2>4. /\ file'[w] \subseteq file[w] \cup {r}
          /\ \A v \in Workers \ {w} : file'[v] = file[v]
      BY <1>4, <1>7 DEF WorkerLoops
    <2> QED
      BY <2>1, <2>2, <2>3, <2>4
  <1>8. CASE WorkerLeaves(r, w)
    <2>1. /\ Lives(r, w) /\ child'[r][w] = "left"
          /\ \A q \in Runs, v \in Workers : q # r \/ v # w => child'[q][v] = child[q][v]
          /\ UNCHANGED <<parent, next, cmap, pinned, writer>>
      BY <1>1, <1>8 DEF WorkerLeaves, Lives
    <2> QED
      BY <1>5, <1>8, <2>1 DEF WorkerLeaves
  <1>9. CASE WorkerFails(r, w)
    <2>1. /\ Lives(r, w) /\ child'[r][w] = "gone"
          /\ \A q \in Runs, v \in Workers : q # r \/ v # w => child'[q][v] = child[q][v]
          /\ UNCHANGED <<parent, next, cmap, pinned, writer>>
      BY <1>1, <1>9 DEF WorkerFails
    <2>2. /\ unwritten'[r][w] = 0
          /\ \A q \in Runs, v \in Workers : q # r \/ v # w => unwritten'[q][v] = unwritten[q][v]
          /\ file'[w] \subseteq file[w] \cup {r}
          /\ \A v \in Workers \ {w} : file'[v] = file[v]
      BY <1>2, <1>5, <1>9 DEF WorkerFails
    <2> QED
      BY <2>1, <2>2
  <1> QED
    BY <1>6, <1>7, <1>8, <1>9

-----------------------------------------------------------------------------
(***************************************************************************)
(* Each part of the invariant is preserved.                                *)
(***************************************************************************)

\* A run starts when all before it have ended, and an ended run stays ended.
LEMMA InOrderStep ==
    ASSUME IInv, NEW r \in Runs,
           MainStep(r) \/ ForkStep(r) \/ \E w \in Workers : WorkerStep(r, w)
    PROVE  InOrder'
  <1>1. TypeOK /\ InOrder /\ Unborn
    BY DEF IInv
  <1>2. CASE MainStep(r)
    <2>1. \A q \in Runs : q < r => q \in 1 .. r - 1
      BY BoundsAssumption DEF Runs
    <2> QED
      BY <1>1, <1>2, <2>1 DEF MainStep, Same, InOrder, EarlierAll, Ended, Orderly
  <1>3. CASE ForkStep(r)
    BY <1>1, <1>3, WorkersInNat DEF ForkStep, Same, InOrder, Ended, Orderly
  <1>4. CASE \E w \in Workers : WorkerStep(r, w)
    BY <1>1, <1>4 DEF WorkerStep, InOrder, Ended, Orderly
  <1> QED
    BY <1>2, <1>3, <1>4

\* A worker is born when the fork loop is at it.
LEMMA UnbornStep ==
    ASSUME IInv, NEW r \in Runs,
           MainStep(r) \/ ForkStep(r) \/ \E w \in Workers : WorkerStep(r, w)
    PROVE  Unborn'
  <1>1. TypeOK /\ Unborn /\ Unborn
    BY DEF IInv
  <1>2. CASE MainStep(r)
    BY <1>1, <1>2, WorkersInNat DEF MainStep, Same, Unborn, Lives, Fresh
  <1>3. CASE ForkStep(r)
    BY <1>1, <1>3, WorkersInNat DEF ForkStep, Same, Unborn, Lives, Fresh
  <1>4. CASE \E w \in Workers : WorkerStep(r, w)
    BY <1>1, <1>4 DEF WorkerStep, Unborn, Lives, Fresh
  <1> QED
    BY <1>2, <1>3, <1>4

\* A worker that has been waited for is not born again.
LEMMA WaitedForStep ==
    ASSUME IInv, NEW r \in Runs,
           MainStep(r) \/ ForkStep(r) \/ \E w \in Workers : WorkerStep(r, w)
    PROVE  WaitedFor'
  <1>1. TypeOK /\ WaitedFor /\ Unborn
    BY DEF IInv
  <1>2. CASE MainStep(r)
    <2>1. next[r] \in Nat /\ \A w \in Workers : w \in Nat /\ w < NumWorkers
      BY <1>1, WorkersInNat DEF TypeOK
    <2>2. \A w \in Workers : w < next[r] + 1 => w < next[r] \/ w = next[r]
      BY <2>1
    <2>3. \A w \in Workers : next[r] + 1 >= NumWorkers => w < next[r] \/ w = next[r]
      BY <2>1, WorkersInNat
    <2>4. \A w \in Workers : ~(w < 0)
      BY <2>1
    <2>5. \A q \in Runs, w \in Workers : Lives(q, w)' <=> Lives(q, w)
      BY <1>2 DEF MainStep, Lives
    <2> QED
      BY <1>1, <1>2, <2>2, <2>3, <2>4, <2>5 DEF MainStep, Same, WaitedFor, Orderly, Ended
  <1>3. CASE ForkStep(r)
    BY <1>1, <1>3, WorkersInNat DEF ForkStep, Same, WaitedFor, Lives, Orderly, Ended
  <1>4. CASE \E w \in Workers : WorkerStep(r, w)
    BY <1>1, <1>4 DEF WorkerStep, WaitedFor, Lives, Orderly, Ended
  <1> QED
    BY <1>2, <1>3, <1>4

\* Leaving the loop empties the writer.
LEMMA RowsHeldStep ==
    ASSUME IInv, NEW r \in Runs,
           MainStep(r) \/ ForkStep(r) \/ \E w \in Workers : WorkerStep(r, w)
    PROVE  RowsHeld'
  <1>1. TypeOK /\ RowsHeld /\ Unborn
    BY DEF IInv
  <1>2. CASE MainStep(r)
    BY <1>1, <1>2, WorkersInNat DEF MainStep, Same, RowsHeld, Lives
  <1>3. CASE ForkStep(r)
    <2>1. child[r][next[r]] = "none"
      <3>1. parent[r] = "fork" /\ next[r] \in Workers
        BY <1>3 DEF ForkStep
      <3>2. next[r] <= next[r]
        BY <3>1, WorkersInNat
      <3> QED
        BY <1>1, <3>1, <3>2 DEF Unborn
    <2> QED
      BY <1>1, <1>3, <2>1 DEF ForkStep, RowsHeld
  <1>4. CASE \E w \in Workers : WorkerStep(r, w)
    BY <1>1, <1>4 DEF WorkerStep, RowsHeld, Lives
  <1> QED
    BY <1>2, <1>3, <1>4

\* When a run becomes the newest that counts, it was so before, or it has not begun.
LEMMA NewestBefore ==
    ASSUME IInv, NEW r \in Runs,
           MainStep(r) \/ ForkStep(r) \/ (\E w \in Workers : WorkerStep(r, w)),
           NEW S \in SUBSET Orderly, NEW n \in Runs,
           EarlierAll(n, S)', LaterIdle(n)'
    PROVE  /\ LaterIdle(n)
           /\ EarlierAll(n, S) \/ (/\ MainStep(r) /\ r < n /\ parent[n] = "idle"
                                   /\ parent[r] = "clean" /\ parent'[r] \in S)
  <1>1. \A q \in Runs : q < n <=> q \in 1 .. n - 1
    BY BoundsAssumption DEF Runs
  <1>2. \A q \in Runs : q > n <=> q \in n + 1 .. MaxRuns
    BY BoundsAssumption DEF Runs
  <1>3. (1 .. n - 1) \subseteq Runs /\ (n + 1 .. MaxRuns) \subseteq Runs
    BY BoundsAssumption DEF Runs
  <1>4. \A q \in Runs \ {r} : parent'[q] = parent[q]
    BY DEF MainStep, ForkStep, WorkerStep, Same
  <1>5. parent'[r] = "idle" => parent[r] = "idle"
    BY DEF MainStep, ForkStep, WorkerStep, Same
  <1>6. parent'[r] \in Orderly =>
           parent'[r] = parent[r] \/ (MainStep(r) /\ parent[r] = "clean")
    BY DEF MainStep, ForkStep, WorkerStep, Same, Orderly
  <1>7. LaterIdle(n)
    BY <1>3, <1>4, <1>5 DEF LaterIdle
  <1>8. CASE r < n /\ parent'[r] # parent[r]
    <2>1. parent'[r] \in S /\ MainStep(r) /\ parent[r] = "clean"
      BY <1>1, <1>6, <1>8 DEF EarlierAll
    <2>2. parent[n] = "idle"
      BY <1>8, <2>1 DEF IInv, InOrder, Ended, Orderly
    <2> QED
      BY <1>7, <1>8, <2>1, <2>2
  <1>9. CASE ~(r < n) \/ parent'[r] = parent[r]
    BY <1>1, <1>3, <1>4, <1>7, <1>9 DEF EarlierAll
  <1> QED
    BY <1>8, <1>9

\* While the earlier runs are over in order and the later ones have not begun,
\* nobody but this run has live workers.
LEMMA OnlyOwnWorkers ==
    ASSUME IInv, NEW n \in Runs, EarlierAll(n, Orderly), LaterIdle(n),
           NEW q \in Runs, NEW w \in Workers, Lives(q, w)
    PROVE  q = n
  <1>1. q < n => q \in 1 .. n - 1
    BY BoundsAssumption DEF Runs
  <1>2. q > n => q \in n + 1 .. MaxRuns
    BY BoundsAssumption DEF Runs
  <1>3. ~(q < n)
    BY <1>1 DEF EarlierAll, IInv, WaitedFor
  <1>4. ~(q > n)
    BY <1>2 DEF LaterIdle, IInv, Unborn, Fresh, Lives
  <1>5. q \in Int /\ n \in Int
    BY DEF Runs
  <1> QED
    BY <1>3, <1>4, <1>5

\* The tick files: only this run's own worker writes the file it has created.
LEMMA OwnFileStep ==
    ASSUME IInv, NEW r \in Runs,
           MainStep(r) \/ ForkStep(r) \/ \E w \in Workers : WorkerStep(r, w)
    PROVE  OwnFile'
  <1> SUFFICES ASSUME NEW n \in Runs, NEW v \in Workers,
                      child'[n][v] \in {"runs", "left"},
                      EarlierAll(n, Orderly)', LaterIdle(n)'
               PROVE  file'[v] \subseteq {n}
    BY DEF OwnFile
  <1>1. LaterIdle(n)
    BY NewestBefore
  <1>2. CASE MainStep(r)
    <2>1. child[n][v] \in {"runs", "left"}
      BY <1>2 DEF MainStep
    <2>2. parent[n] # "idle"
      BY <2>1 DEF IInv, Unborn, Fresh
    <2>3. EarlierAll(n, Orderly)
      BY <2>2, NewestBefore
    <2> QED
      BY <1>1, <1>2, <2>1, <2>3 DEF MainStep, IInv, OwnFile
  <1>3. CASE ForkStep(r)
    <2>1. EarlierAll(n, Orderly) /\ child[n][v] \in {"runs", "left"} /\ UNCHANGED file
      BY <1>3 DEF ForkStep, EarlierAll
    <2> QED
      BY <1>1, <2>1 DEF IInv, OwnFile
  <1>4. ASSUME NEW w \in Workers, WorkerStep(r, w) PROVE file'[v] \subseteq {n}
    <2>1. EarlierAll(n, Orderly)
      BY <1>4 DEF WorkerStep, EarlierAll
    <2>2. Lives(r, w)
      BY <1>4 DEF WorkerStep, Lives
    <2>3. r = n
      BY <1>1, <2>1, <2>2, OnlyOwnWorkers
    <2>4. CASE v # w
      <3>1. child[n][v] \in {"runs", "left"} /\ file'[v] = file[v]
        BY <1>4, <2>4 DEF WorkerStep
      <3> QED
        BY <1>1, <2>1, <3>1 DEF IInv, OwnFile
    <2>5. CASE v = w
      <3>1. file'[w] = {} \/ (child[n][w] = "runs" /\ file'[w] \subseteq file[w] \cup {n})
        BY <1>4, <2>3, <2>5 DEF WorkerStep
      <3>2. child[n][w] = "runs" => file[w] \subseteq {n}
        BY <1>1, <2>1 DEF IInv, OwnFile
      <3> QED
        BY <2>5, <3>1, <3>2
    <2> QED
      BY <2>4, <2>5
  <1> QED
    BY <1>2, <1>3, <1>4

\* A map is pinned when its run's setup makes it, opened only by its pin and
\* written only when open.
LEMMA NoMapYetStep ==
    ASSUME IInv, NEW r \in Runs,
           MainStep(r) \/ ForkStep(r) \/ \E w \in Workers : WorkerStep(r, w)
    PROVE  NoMapYet'
  <1> SUFFICES ASSUME NEW m \in Runs, parent'[m] \in Fresh
               PROVE  /\ pinned' # m /\ writer'[m] = 0
                      /\ \A q \in Runs, v \in Workers : cmap'[q][v] # m
    BY DEF NoMapYet
  <1>1. m # NoMap
    BY DEF Runs, NoMap
  <1>2. parent[m] \in Fresh
    <2>1. m # r => parent'[m] = parent[m]
      BY DEF MainStep, ForkStep, WorkerStep, Same
    <2>2. parent'[r] \in Fresh => parent[r] \in Fresh
      BY DEF MainStep, ForkStep, WorkerStep, Same, Fresh
    <2> QED
      BY <2>1, <2>2
  <1>3. /\ pinned # m /\ writer[m] = 0
        /\ \A q \in Runs, v \in Workers : cmap[q][v] # m
    BY <1>2 DEF IInv, NoMapYet
  <1>4. CASE MainStep(r)
    BY <1>1, <1>3, <1>4 DEF MainStep, Fresh
  <1>5. CASE ForkStep(r)
    BY <1>3, <1>5 DEF ForkStep
  <1>6. CASE \E w \in Workers : WorkerStep(r, w)
    BY <1>1, <1>3, <1>6 DEF WorkerStep
  <1> QED
    BY <1>4, <1>5, <1>6

\* The pins: a hermes run makes them and removes them, and in between nobody else
\* has them open.
LEMMA PinsStep ==
    ASSUME IInv, NEW r \in Runs,
           MainStep(r) \/ ForkStep(r) \/ \E w \in Workers : WorkerStep(r, w)
    PROVE  Pins'
  <1> SUFFICES ASSUME NEW n \in Runs, EarlierAll(n, {"done"})', LaterIdle(n)'
               PROVE  /\ parent'[n] \in Fresh \cup {"done"} => pinned' = NoMap
                      /\ parent'[n] \in Up =>
                            IF policy'[n] = "hermes" THEN pinned' = n /\ writer'[n] \in {0, n}
                                                     ELSE pinned' = NoMap
    BY DEF Pins
  <1>1. LaterIdle(n)
    BY NewestBefore DEF Orderly
  <1>2. CASE ~EarlierAll(n, {"done"})
    <2>1. /\ MainStep(r) /\ r < n /\ parent[n] = "idle"
          /\ parent[r] = "clean" /\ parent'[r] = "done"
      BY <1>2, NewestBefore DEF Orderly
    <2>2. \A q \in Runs : q < r => parent[q] = "done"
      <3>1. \A q \in Runs : q < r => q \in 1 .. n - 1
        BY <2>1, BoundsAssumption DEF Runs
      <3>2. \A q \in Runs : q < r => q # r
        BY DEF Runs
      <3> QED
        BY <2>1, <3>1, <3>2 DEF EarlierAll, MainStep, Same
    <2>3. EarlierAll(r, {"done"})
      <3>1. \A q \in 1 .. r - 1 : q \in Runs /\ q < r
        BY BoundsAssumption DEF Runs
      <3> QED
        BY <2>2, <3>1 DEF EarlierAll
    <2>4. LaterIdle(r)
      <3>1. \A q \in r + 1 .. MaxRuns : q \in Runs /\ r < q
        BY BoundsAssumption DEF Runs
      <3> QED
        BY <2>1, <3>1 DEF LaterIdle, IInv, InOrder, Ended, Orderly
    <2>5. pinned' = NoMap
      BY <2>1, <2>3, <2>4 DEF MainStep, Same, IInv, Pins, Up
    <2>6. parent'[n] = "idle"
      BY <2>1 DEF MainStep, Same, Runs
    <2> QED
      BY <2>5, <2>6 DEF Up
  <1>3. CASE EarlierAll(n, {"done"})
    <2>1. /\ parent[n] \in Fresh \cup {"done"} => pinned = NoMap
          /\ parent[n] \in Up =>
                IF policy[n] = "hermes" THEN pinned = n /\ writer[n] \in {0, n}
                                        ELSE pinned = NoMap
      BY <1>1, <1>3 DEF IInv, Pins
    <2>2. CASE MainStep(r) /\ r = n
      <3>1. parent[n] \in Fresh => writer[n] = 0
        BY DEF IInv, NoMapYet
      <3> QED
        BY <2>1, <2>2, <3>1 DEF MainStep, Same, Fresh, Up, Ended, Orderly
    <2>3. CASE MainStep(r) /\ r # n
      <3>1. parent[r] \in Ended \cup {"idle"}
        <4>1. r < n => r \in 1 .. n - 1
          BY BoundsAssumption DEF Runs
        <4>2. r > n => r \in n + 1 .. MaxRuns
          BY BoundsAssumption DEF Runs
        <4>3. r < n \/ r > n
          BY <2>3 DEF Runs
        <4> QED
          BY <1>1, <1>3, <4>1, <4>2, <4>3 DEF EarlierAll, LaterIdle, Ended, Orderly
      <3>2. UNCHANGED <<pinned, writer, policy>> /\ parent'[n] = parent[n]
        BY <2>3, <3>1 DEF MainStep, Same, Ended, Orderly
      <3> QED
        BY <2>1, <3>2
    <2>4. CASE ForkStep(r)
      BY <2>1, <2>4 DEF ForkStep
    <2>5. ASSUME NEW w \in Workers, WorkerStep(r, w)
          PROVE  /\ parent'[n] \in Fresh \cup {"done"} => pinned' = NoMap
                 /\ parent'[n] \in Up =>
                       IF policy'[n] = "hermes" THEN pinned' = n /\ writer'[n] \in {0, n}
                                                ELSE pinned' = NoMap
      <3>1. EarlierAll(n, Orderly)
        BY <1>3 DEF EarlierAll, Orderly
      <3>2. Lives(r, w)
        BY <2>5 DEF WorkerStep, Lives
      <3>3. r = n
        BY <1>1, <3>1, <3>2, OnlyOwnWorkers
      <3>4. UNCHANGED <<policy, parent, pinned>> /\ writer'[n] \in {writer[n], n}
        BY <2>5, <3>3 DEF WorkerStep
      <3> QED
        BY <2>1, <3>4
    <2> QED
      BY <2>2, <2>3, <2>4, <2>5
  <1> QED
    BY <1>2, <1>3

\* The variables keep their types: no loop index leaves the workers, no writer
\* holds FLUSH_EVERY rows.
LEMMA TypeStep == ASSUME TypeOK, [Next]_vars PROVE TypeOK'
  <1> USE BoundsAssumption, WorkersInNat DEF TypeOK, procs, maps, ticks
  <1> DEFINE Pcs == {"idle", "setup", "fork", "kill", "wait", "clean"} \cup Ended
  <1>1. ASSUME UNCHANGED policy, NEW r \in Runs, NEW l \in Pcs, PGoto(r, l),
               l \in {"kill", "wait"} => next'[r] \in Workers,
               next' \in [Runs -> 0 .. NumWorkers],
               \A q \in Runs \ {r} : next'[q] = next[q]
        PROVE  /\ parent' \in [Runs -> Pcs]
               /\ \A q \in Runs : parent'[q] \in {"kill", "wait"} => next'[q] \in Workers
    BY <1>1 DEF PGoto
  <1>2. \A kind : Fault(kind) => faults' \in 0 .. MaxFaults
    BY DEF Fault
  <1> HIDE DEF Pcs
  <1>3. ASSUME UNCHANGED policy, NEW r \in Runs, Start(r) PROVE TypeOK'
    BY <1>3, <1>1, "setup" \in Pcs DEF Start, Pcs
  <1>4. ASSUME UNCHANGED policy, NEW r \in Runs, Setup(r) PROVE TypeOK'
    BY <1>4, <1>1 DEF Setup, Pcs
  <1>5. ASSUME UNCHANGED policy, NEW r \in Runs, SetupFails(r) PROVE TypeOK'
    BY <1>5, <1>1, <1>2 DEF SetupFails, Pcs, Ended
  <1>6. ASSUME UNCHANGED policy, NEW r \in Runs, Fork(r) PROVE TypeOK'
    BY <1>6 DEF Fork
  <1>7. ASSUME UNCHANGED policy, NEW r \in Runs, ForkFails(r) PROVE TypeOK'
    BY <1>7, <1>1, <1>2 DEF ForkFails, Pcs, Ended
  <1>8. ASSUME UNCHANGED policy, NEW r \in Runs, SeeShutdown(r) PROVE TypeOK'
    BY <1>8, <1>1 DEF SeeShutdown, Pcs
  <1>9. ASSUME UNCHANGED policy, NEW r \in Runs, Forward(r) PROVE TypeOK'
    <2>1. cflag' \in [Runs -> [Workers -> BOOLEAN]]
      BY <1>9 DEF Forward
    <2>2. CASE next[r] + 1 < NumWorkers
      <3>1. parent' = parent /\ next' = [next EXCEPT ![r] = next[r] + 1]
        BY <1>9, <2>2 DEF Forward
      <3>2. next[r] \in 0 .. NumWorkers /\ next[r] + 1 \in Workers
        BY <2>2
      <3>3. /\ next' \in [Runs -> 0 .. NumWorkers]
            /\ \A q \in Runs : parent'[q] \in {"kill", "wait"} => next'[q] \in Workers
        BY <2>2, <3>1, <3>2
      <3> QED
        BY <1>9, <2>1, <3>1, <3>3 DEF Forward
    <2>3. CASE ~(next[r] + 1 < NumWorkers)
      <3>1. PGoto(r, "wait") /\ next' = [next EXCEPT ![r] = 0] /\ "wait" \in Pcs
        BY <1>9, <2>3 DEF Forward, Pcs
      <3>2. /\ next' \in [Runs -> 0 .. NumWorkers] /\ next'[r] \in Workers
            /\ \A q \in Runs \ {r} : next'[q] = next[q]
        BY <3>1
      <3>3. /\ parent' \in [Runs -> Pcs]
            /\ \A q \in Runs : parent'[q] \in {"kill", "wait"} => next'[q] \in Workers
        BY <1>1, <1>9, <3>1, <3>2
      <3> QED
        BY <1>9, <2>1, <3>2, <3>3 DEF Forward, Pcs
    <2> QED
      BY <2>2, <2>3
  <1>10. ASSUME UNCHANGED policy, NEW r \in Runs, Wait(r) PROVE TypeOK'
    <2>1. CASE next[r] + 1 < NumWorkers
      <3>1. parent' = parent /\ next' = [next EXCEPT ![r] = next[r] + 1]
        BY <1>10, <2>1 DEF Wait
      <3>2. next[r] \in 0 .. NumWorkers /\ next[r] + 1 \in Workers
        BY <2>1
      <3>3. /\ next' \in [Runs -> 0 .. NumWorkers]
            /\ \A q \in Runs : parent'[q] \in {"kill", "wait"} => next'[q] \in Workers
        BY <2>1, <3>1, <3>2
      <3> QED
        BY <1>10, <3>1, <3>3 DEF Wait
    <2>2. CASE ~(next[r] + 1 < NumWorkers)
      <3>1. PGoto(r, "clean") /\ next' = [next EXCEPT ![r] = 0] /\ "clean" \in Pcs
        BY <1>10, <2>2 DEF Wait, Pcs
      <3>2. /\ next' \in [Runs -> 0 .. NumWorkers] /\ next'[r] \in Workers
            /\ \A q \in Runs \ {r} : next'[q] = next[q]
        BY <3>1
      <3>3. /\ parent' \in [Runs -> Pcs]
            /\ \A q \in Runs : parent'[q] \in {"kill", "wait"} => next'[q] \in Workers
        BY <1>1, <1>10, <3>1, <3>2
      <3> QED
        BY <1>10, <3>2, <3>3 DEF Wait, Pcs
    <2> QED
      BY <2>1, <2>2
  <1>11. ASSUME UNCHANGED policy, NEW r \in Runs, Clean(r) PROVE TypeOK'
    BY <1>11, <1>1 DEF Clean, Pcs, Ended, Orderly
  <1>12. ASSUME UNCHANGED policy, NEW r \in Runs, CleanFails(r) PROVE TypeOK'
    BY <1>12, <1>1, <1>2 DEF CleanFails, Pcs, Ended, Orderly
  <1>13. ASSUME UNCHANGED policy, NEW r \in Runs, Killed(r) PROVE TypeOK'
    BY <1>13, <1>1, <1>2 DEF Killed, Pcs, Ended
  <1>14. ASSUME UNCHANGED policy, NEW r \in Runs, Signal(r) PROVE TypeOK'
    <2> DEFINE row == [w \in Workers |-> cflag[r][w] \/ Lives(r, w)]
    <2>1. row \in [Workers -> BOOLEAN]
      OBVIOUS
    <2>2. cflag' \in [Runs -> [Workers -> BOOLEAN]]
      <3>1. cflag' = cflag \/ cflag' = [cflag EXCEPT ![r] = row]
        BY <1>14 DEF Signal
      <3> HIDE DEF row
      <3> QED
        BY <2>1, <3>1
    <2>3. flag' \in [Runs -> BOOLEAN]
      BY <1>14 DEF Signal
    <2> QED
      BY <1>14, <2>2, <2>3 DEF Signal
  <1>15. ASSUME UNCHANGED policy, NEW r \in Runs, NEW w \in Workers, WorkerBoot(r, w)
         PROVE  TypeOK'
    <2>1. child' \in [Runs -> [Workers -> {"none", "boot", "runs", "left", "gone"}]]
      <3>1. \/ child' = [child EXCEPT ![r][w] = "gone"]
            \/ child' = [child EXCEPT ![r][w] = "runs"]
        BY <1>15 DEF WorkerBoot
      <3>2. child \in [Runs -> [Workers -> {"none", "boot", "runs", "left", "gone"}]]
        OBVIOUS
      <3> HIDE DEF TypeOK
      <3> QED
        BY <3>1, <3>2, SetEntry
    <2>2. cmap' \in [Runs -> [Workers -> Runs \cup {NoMap}]]
      <3>1. \/ cmap' = cmap
            \/ cmap' = [cmap EXCEPT ![r][w] = pinned]
            \/ cmap' = [cmap EXCEPT ![r][w] = NoMap]
        BY <1>15 DEF WorkerBoot
      <3>2. cmap \in [Runs -> [Workers -> Runs \cup {NoMap}]] /\ pinned \in Runs \cup {NoMap}
        OBVIOUS
      <3> HIDE DEF TypeOK
      <3>3. /\ [cmap EXCEPT ![r][w] = pinned] \in [Runs -> [Workers -> Runs \cup {NoMap}]]
            /\ [cmap EXCEPT ![r][w] = NoMap] \in [Runs -> [Workers -> Runs \cup {NoMap}]]
        BY <3>2, SetEntry
      <3> QED
        BY <3>1, <3>2, <3>3
    <2>3. file' \in [Workers -> SUBSET Runs]
      BY <1>15 DEF WorkerBoot
    <2> QED
      BY <1>15, <2>1, <2>2, <2>3 DEF WorkerBoot
  <1>16. ASSUME UNCHANGED policy, NEW r \in Runs, NEW w \in Workers, WorkerLoops(r, w)
         PROVE  TypeOK'
    <2>1. writer' \in [Runs -> 0 .. MaxRuns]
      <3>1. r \in 0 .. MaxRuns
        BY DEF Runs
      <3> QED
        BY <1>16, <3>1 DEF WorkerLoops
    <2>2. unwritten' \in [Runs -> [Workers -> 0 .. FlushEvery - 1]]
      <3>1. unwritten[r][w] \in 0 .. FlushEvery - 1 /\ 0 \in 0 .. FlushEvery - 1
        OBVIOUS
      <3>2. unwritten[r][w] + 1 < FlushEvery => unwritten[r][w] + 1 \in 0 .. FlushEvery - 1
        BY <3>1
      <3>3. \/ unwritten' = [unwritten EXCEPT ![r][w] = 0]
            \/ /\ unwritten[r][w] + 1 < FlushEvery
               /\ unwritten' = [unwritten EXCEPT ![r][w] = unwritten[r][w] + 1]
        BY <1>16 DEF WorkerLoops
      <3>4. unwritten \in [Runs -> [Workers -> 0 .. FlushEvery - 1]]
        OBVIOUS
      <3> HIDE DEF TypeOK
      <3> DEFINE T == [Runs -> [Workers -> 0 .. FlushEvery - 1]]
      <3>5. [unwritten EXCEPT ![r][w] = 0] \in T
        BY <3>1, <3>4, SetEntry
      <3>6. ASSUME NEW n \in 0 .. FlushEvery - 1 PROVE [unwritten EXCEPT ![r][w] = n] \in T
        BY <3>4, SetEntry
      <3> QED
        BY <3>2, <3>3, <3>5, <3>6
    <2>3. file' \in [Workers -> SUBSET Runs]
      <3>1. file' = file \/ file' = [file EXCEPT ![w] = file[w] \cup {r}]
        BY <1>16 DEF WorkerLoops
      <3>2. file \in [Workers -> SUBSET Runs]
        OBVIOUS
      <3> HIDE DEF TypeOK
      <3> QED
        BY <3>1, <3>2
    <2>4. UNCHANGED <<policy, parent, next, flag, child, cflag, cmap, pinned, faults>>
      BY <1>16 DEF WorkerLoops
    <2> QED
      BY <2>1, <2>2, <2>3, <2>4
  <1>17. ASSUME NEW r \in Runs, NEW w \in Workers, Flush(r, w)
         PROVE  /\ unwritten' \in [Runs -> [Workers -> 0 .. FlushEvery - 1]]
                /\ file' \in [Workers -> SUBSET Runs]
    <2>1. 0 \in 0 .. FlushEvery - 1
      OBVIOUS
    <2> QED
      BY <1>17, <2>1 DEF Flush
  <1>18. ASSUME UNCHANGED policy, NEW r \in Runs, NEW w \in Workers, WorkerLeaves(r, w)
         PROVE  TypeOK'
    <2>1. child' \in [Runs -> [Workers -> {"none", "boot", "runs", "left", "gone"}]]
      BY <1>18 DEF WorkerLeaves
    <2> QED
      BY <1>17, <1>18, <2>1 DEF WorkerLeaves
  <1>19. ASSUME UNCHANGED policy, NEW r \in Runs, NEW w \in Workers, WorkerFails(r, w)
         PROVE  TypeOK'
    <2>1. child' \in [Runs -> [Workers -> {"none", "boot", "runs", "left", "gone"}]]
      BY <1>19 DEF WorkerFails
    <2>2. 0 \in 0 .. FlushEvery - 1
      OBVIOUS
    <2>3. /\ unwritten' \in [Runs -> [Workers -> 0 .. FlushEvery - 1]]
          /\ file' \in [Workers -> SUBSET Runs]
      <3>1. \/ Flush(r, w)
            \/ unwritten' = [unwritten EXCEPT ![r][w] = 0] /\ file' = file
        BY <1>19 DEF WorkerFails
      <3>2. /\ unwritten \in [Runs -> [Workers -> 0 .. FlushEvery - 1]]
            /\ file \in [Workers -> SUBSET Runs]
        OBVIOUS
      <3>3. [unwritten EXCEPT ![r][w] = 0] \in [Runs -> [Workers -> 0 .. FlushEvery - 1]]
        BY <2>2
      <3> HIDE DEF TypeOK
      <3> QED
        BY <1>17, <3>1, <3>2, <3>3
    <2> QED
      BY <1>2, <1>19, <2>1, <2>3 DEF WorkerFails
  <1>20. CASE UNCHANGED vars
    BY <1>20 DEF vars
  <1> QED
    BY <1>3, <1>4, <1>5, <1>6, <1>7, <1>8, <1>9, <1>10, <1>11, <1>12, <1>13, <1>14,
       <1>15, <1>16, <1>18, <1>19, <1>20
    DEF Next, Main, Worker

\* Before the first run there are no pins, no workers and no rows.
LEMMA InitIInv == Init => IInv
  <1> SUFFICES ASSUME Init PROVE IInv
    OBVIOUS
  <1>1. TypeOK
    <2>1. 0 \in 0 .. NumWorkers /\ 0 \in 0 .. MaxRuns /\ 0 \in 0 .. FlushEvery - 1
          /\ 0 \in 0 .. MaxFaults
      BY WorkersInNat, BoundsAssumption
    <2> QED
      BY <2>1 DEF Init, TypeOK, Ended, Orderly
  <1>2. InOrder /\ Unborn /\ WaitedFor /\ RowsHeld /\ OwnFile
    BY DEF Init, InOrder, Unborn, WaitedFor, RowsHeld, OwnFile, Orderly
  <1>3. NoMapYet
    BY DEF Init, NoMapYet, NoMap, Runs
  <1>4. Pins
    BY DEF Init, Pins, Up
  <1> QED
    BY <1>1, <1>2, <1>3, <1>4 DEF IInv

\* The invariant is inductive.
THEOREM InductiveInvariant == Spec => []IInv
  <1>1. IInv /\ [Next]_vars => IInv'
    <2> SUFFICES ASSUME IInv, [Next]_vars PROVE IInv'
      OBVIOUS
    <2>1. TypeOK /\ TypeOK'
      BY TypeStep DEF IInv
    <2>2. CASE Next
      <3>1. PICK r \in Runs :
               MainStep(r) \/ ForkStep(r) \/ \E w \in Workers : WorkerStep(r, w)
        BY <2>1, <2>2, MainSteps, ForkSteps, WorkerSteps DEF Next, Main, Worker
      <3> QED
        BY <2>1, <3>1, InOrderStep, UnbornStep, WaitedForStep, RowsHeldStep,
           OwnFileStep, NoMapYetStep, PinsStep DEF IInv
    <2>3. CASE UNCHANGED vars
      BY <2>1, <2>3 DEF vars, IInv, InOrder, Unborn, WaitedFor, RowsHeld, OwnFile, NoMapYet,
         Pins, EarlierAll, LaterIdle, Lives
    <2> QED
      BY <2>2, <2>3
  <1> QED
    BY InitIInv, <1>1, PTL DEF Spec
-----------------------------------------------------------------------------
\* The supervisor's variables have their types: its loops stay within the workers
\* and a tick writer holds less than FLUSH_EVERY rows.
THEOREM TypeCorrect == Spec => []TypeOK
  BY InductiveInvariant, PTL DEF IInv

\* No worker outlives a supervisor that was not cut short, and the tick file of
\* a worker that left in order is complete and nobody else's (main, TickWriter).
THEOREM ExitsAreClean == Spec => []CleanExit
  <1>1. IInv => CleanExit
    <2> SUFFICES ASSUME IInv, NEW r \in Runs, parent[r] \in Orderly, NEW w \in Workers
                 PROVE  /\ ~Lives(r, w)
                        /\ /\ child[r][w] = "left"
                           /\ EarlierAll(r, Orderly) /\ LaterIdle(r)
                           => unwritten[r][w] = 0 /\ file[w] \subseteq {r}
      BY DEF CleanExit, EarlierAll, LaterIdle
    <2>1. ~Lives(r, w)
      BY DEF IInv, WaitedFor
    <2>2. child[r][w] = "left" => unwritten[r][w] = 0
      BY DEF IInv, RowsHeld
    <2>3. child[r][w] = "left" /\ EarlierAll(r, Orderly) /\ LaterIdle(r)
             => file[w] \subseteq {r}
      BY DEF IInv, OwnFile
    <2> QED
      BY <2>1, <2>2, <2>3
  <1> QED
    BY <1>1, InductiveInvariant, PTL

\* Whatever the number of runs and their policies, a run that follows runs which
\* cleaned up dispatches by a bitmap that only its own workers have written
\* (cleanup_pins).
THEOREM BitmapsAreFresh == Spec => []NoStaleBitmap
  <1>1. IInv => NoStaleBitmap
    <2> SUFFICES ASSUME IInv, NEW r \in Runs, parent[r] = "fork",
                        \A q \in 1 .. r - 1 : parent[q] = "done", policy[r] = "hermes"
                 PROVE  writer[pinned] \in {0, r}
      BY DEF NoStaleBitmap
    <2>1. EarlierAll(r, {"done"})
      BY DEF EarlierAll
    <2>2. LaterIdle(r)
      <3>1. \A q \in r + 1 .. MaxRuns : q \in Runs /\ r < q
        BY BoundsAssumption DEF Runs
      <3> QED
        BY <3>1 DEF LaterIdle, IInv, InOrder, Ended, Orderly
    <2> QED
      BY <2>1, <2>2 DEF IInv, Pins, Up
  <1> QED
    BY <1>1, InductiveInvariant, PTL

=============================================================================
