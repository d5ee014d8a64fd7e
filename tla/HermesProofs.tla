---------------------------- MODULE HermesProofs ----------------------------
(***************************************************************************)
(* What the model checker shows of Hermes on two workers, for every number *)
(* of workers the build allows, every set of descriptors, every bound on   *)
(* failures, arrivals and time, and every policy.                          *)
(***************************************************************************)
EXTENDS Hermes, FiniteSetTheorems, TLAPS

Busy == {"accept", "accepted", "register", "handle", "closed", "retire"}

\* Where the events of a worker are: one in hand exactly while it is handled,
\* none left over outside the batch, none reported for a closed descriptor.
Bookkeeping ==
    \A w \in Workers :
        /\ cur[w] = NoEvent <=> pc[w] \notin Busy
        /\ batch[w] # {} => pc[w] \in Busy \cup {"count", "next"}
        /\ cur[w] \notin batch[w]
        /\ ready[w] \ {Listen} \subseteq conns[w]
        /\ pc[w] \in {"accepted", "register"} => Fds \ conns[w] # {}

\* How far each pass has read: field by field, except its own slot in one go.
Passes ==
    \A w \in Workers :
        /\ pc[w] \notin {"load", "publish"} => loads[w] = 0
        /\ pc[w] = "load" => loads[w] < 3 * NumWorkers
        /\ pc[w] = "publish" => loads[w] = 3 * NumWorkers
        /\ loads[w] <= 3 * w \/ loads[w] >= 3 * w + 3

\* A stamp is no later than the clock, and one still to be stored no earlier
\* than the one it replaces: a slot never goes back in time.
Timing ==
    \A w \in Workers :
        /\ lle[w] <= clock /\ now[w] <= clock
        /\ pc[w] = "stamp" => lle[w] <= now[w]

\* What a pass has read of a loop entry is no later than the one in the table.
SnapshotsLag ==
    \A w, i \in Workers : loads[w] > 3 * i => snap[w].lle[i] <= lle[i]

\* A candidate that was not new to the published pass has a stamp.
PublishedStamped ==
    selNow > 0 => \A w \in m_sel : w \in selNew \/ lle[w] > 0

IInv == /\ TypeOK /\ Accounting /\ NoStaleEvent /\ Bookkeeping
        /\ Passes /\ Timing /\ SnapshotsLag /\ PublishedStamped /\ PublishedFresh
-----------------------------------------------------------------------------
\* The assumptions on the constants, as the steps below use them.
LEMMA Constants ==
    /\ NumWorkers \in 1 .. 4 /\ Workers \subseteq 0 .. 3 /\ IsFiniteSet(Workers)
    /\ HangThreshold \in Nat \ {0}
    /\ MaxEvents \in Nat
    /\ IsFiniteSet(Fds) /\ Fds \subseteq Nat \ {0}
    /\ Listen \notin Fds /\ NoEvent \notin Fds /\ Listen # NoEvent
  <1>1. IsFiniteSet(Workers)
    BY FS_Interval, NumWorkersAssumption DEF Workers
  <1> QED
    BY <1>1, NumWorkersAssumption, HangThresholdAssumption, FdsAssumption, BoundsAssumption
    DEF Workers, Listen, NoEvent

\* The kernel puts a connection on a listener that exists.
LEMMA TargetsType ==
    ASSUME TypeOK, NEW h \in Hash
    PROVE  Targets(h) \subseteq Workers
  <1>1. \A b \in SUBSET Workers, k \in Int :
            FindNthSetBit(b, k, NoWorker) \in Workers \cup {NoWorker}
    BY DEF FindNthSetBit, NthSetBits
  <1>2. ReciprocalScale(h, Cardinality(m_sel)) \in Int
    <2>1. Cardinality(m_sel) \in Nat
      BY Constants, FS_Subset, FS_CardinalityType DEF TypeOK
    <2> QED
      BY <2>1, HashRangeAssumption, SMT DEF ReciprocalScale, Hash
  <1>3. TrySelect(m_sel, h) \in Workers \cup {NoWorker}
    BY <1>1, <1>2 DEF TrySelect, TypeOK
  <1>4. 0 \in Workers
    BY NumWorkersAssumption DEF Workers
  <1> QED
    BY <1>3, <1>4 DEF Targets

\* The lowest free descriptor is a free descriptor.
LEMMA LowestFreeType ==
    ASSUME NEW w \in Workers, conns[w] \subseteq Fds, Fds \ conns[w] # {}
    PROVE  LowestFree(w) \in Fds \ conns[w]
  <1> DEFINE S == Fds \ conns[w]
  <1>1. S \subseteq Nat /\ S # {}
    BY Constants
  <1>2. \E f \in S : \A g \in S : f <= g
    <2>1. PICK m \in S : \A y \in S : <<y, m>> \notin OpToRel(<, Nat)
      BY <1>1, NatLessThanWellFounded, WFMin
    <2>2. ASSUME NEW g \in S PROVE m <= g
      <3>1. ~(g < m)
        BY <1>1, <2>1, Zenon DEF OpToRel
      <3> QED
        BY <1>1, <3>1
    <2> QED
      BY <2>1, <2>2
  <1> QED
    BY <1>2 DEF LowestFree

\* Every worker has a listener.
LEMMA ListenerType == ASSUME NEW w \in Workers PROVE Listener(w) \in Workers
  BY Constants DEF Listener, Workers

\* The sets of descriptors are finite.
LEMMA Finite ==
    ASSUME TypeOK, NEW w \in Workers
    PROVE  /\ IsFiniteSet(conns[w]) /\ IsFiniteSet(batch[w]) /\ IsFiniteSet(ready[w])
           /\ Cardinality(conns[w]) \in Nat /\ Cardinality(batch[w]) \in Nat
  <1>1. IsFiniteSet(Fds \cup {Listen})
    BY Constants, FS_AddElement
  <1>2. conns[w] \in SUBSET (Fds \cup {Listen}) /\ batch[w] \in SUBSET (Fds \cup {Listen})
        /\ ready[w] \in SUBSET (Fds \cup {Listen})
    BY DEF TypeOK
  <1> QED
    BY <1>1, <1>2, FS_Subset, FS_CardinalityType

\* What a pass publishes has passed the hang filter.
LEMMA PublishedPassHangFilter ==
    ASSUME NEW t, NEW L, NEW P, NEW C
    PROVE  ScheduleFromSnapshots(t, L, P, C).bitmap \subseteq DropHung(t, L)
  BY DEF ScheduleFromSnapshots, FilterBelowBaseline

USE DEF vars, wst, map, queues, kernel, pass, events, rest

\* Every step keeps the types; the counters stay natural numbers because of the
\* bookkeeping, and the passes inside the table because of Passes.
LEMMA TypeStep == IInv /\ [Next]_vars => TypeOK'
  <1> SUFFICES ASSUME IInv, [Next]_vars PROVE TypeOK'
    OBVIOUS
  <1> USE Constants
  <1>0. TypeOK
    BY DEF IInv
  <1>1. ASSUME NEW w \in Workers, Boot(w) PROVE TypeOK'
    BY <1>0, <1>1 DEF TypeOK, Boot, Goto, Pcs, Stopped
  <1>2. ASSUME NEW w \in Workers, BootFails(w) PROVE TypeOK'
    BY <1>0, <1>2 DEF TypeOK, BootFails, Fault, Goto, Pcs, Stopped
  <1>3. ASSUME NEW w \in Workers, LoopTop(w) PROVE TypeOK'
    BY <1>0, <1>3 DEF TypeOK, LoopTop, Leave, Goto, Pcs, Stopped
  <1>25. ASSUME NEW w \in Workers, Stamp(w) PROVE TypeOK'
    BY <1>0, <1>25 DEF TypeOK, Stamp, Goto, Pcs, Stopped
  <1>4. ASSUME NEW w \in Workers, Wake(w) PROVE TypeOK'
    BY <1>0, <1>4 DEF TypeOK, Wake, Goto, Pcs, Stopped
  <1>5. ASSUME NEW w \in Workers, EpollWait(w) PROVE TypeOK'
    BY <1>0, <1>5 DEF TypeOK, EpollWait, Goto, Pcs, Stopped
  <1>26. ASSUME NEW w \in Workers, CountEvents(w) PROVE TypeOK'
    <2>1. Cardinality(batch[w]) \in Nat
      BY <1>0, Finite
    <2> QED
      BY <1>0, <1>26, <2>1 DEF TypeOK, CountEvents, Goto, Pcs, Stopped
  <1>6. ASSUME NEW w \in Workers, WorkerFails(w) PROVE TypeOK'
    BY <1>0, <1>6 DEF TypeOK, WorkerFails, Fault, Leave, Goto, Pcs, Stopped
  <1>7. ASSUME NEW w \in Workers, NextEvent(w) PROVE TypeOK'
    BY <1>0, <1>7 DEF TypeOK, NextEvent, Goto, Pcs, Stopped
  <1>8. ASSUME NEW w \in Workers, Accept(w) PROVE TypeOK'
    <2> DEFINE l == Listener(w)
    <2>1. l \in Workers
      BY ListenerType
    <2>2. backlog[l] > 0 /\ backlog' = [backlog EXCEPT ![l] = backlog[l] - 1]
      BY <1>8 DEF Accept
    <2>3. backlog \in [Workers -> Nat]
      BY <1>0 DEF TypeOK
    <2> HIDE DEF l
    <2>4. backlog' \in [Workers -> Nat]
      BY <2>1, <2>2, <2>3
    <2> QED
      BY <1>0, <1>8, <2>4 DEF TypeOK, Accept, Goto, Pcs, Stopped
  <1>27. ASSUME NEW w \in Workers, CountConn(w) PROVE TypeOK'
    BY <1>0, <1>27 DEF TypeOK, CountConn, Goto, Pcs, Stopped
  <1>9. ASSUME NEW w \in Workers, Register(w) PROVE TypeOK'
    <2>1. LowestFree(w) \in Fds
      BY <1>0, <1>9, LowestFreeType DEF TypeOK, IInv, Bookkeeping, Register
    <2> QED
      BY <1>0, <1>9, <2>1 DEF TypeOK, Register, Goto, Pcs, Stopped
  <1>10. ASSUME NEW w \in Workers, RegisterFails(w) PROVE TypeOK'
    <2>1. acc[w] = Cardinality(conns[w]) + 1
      BY <1>10 DEF IInv, Accounting, RegisterFails, Alive, Stopped
    <2>2. Cardinality(conns[w]) \in Nat
      BY <1>0, Finite
    <2>3. acc[w] - 1 \in Nat
      BY <2>1, <2>2
    <2> QED
      BY <1>0, <1>10, <2>3 DEF TypeOK, RegisterFails, Fault, Goto, Pcs, Stopped
  <1>11. ASSUME NEW w \in Workers, AcceptDone(w) PROVE TypeOK'
    <2>1. gaveUp' \subseteq Workers
      <3>1. gaveUp' = gaveUp \/ gaveUp' = gaveUp \cup {Listener(w)}
        BY <1>11 DEF AcceptDone, GiveUp
      <3>2. Listener(w) \in Workers /\ gaveUp \subseteq Workers
        BY <1>0, ListenerType DEF TypeOK
      <3> QED
        BY <3>1, <3>2
    <2> QED
      BY <1>0, <1>11, <2>1 DEF TypeOK, AcceptDone, Goto, Pcs, Stopped
  <1>12. ASSUME NEW w \in Workers, AcceptFails(w) PROVE TypeOK'
    <2>1. gaveUp' \subseteq Workers
      BY <1>0, <1>12, ListenerType DEF TypeOK, AcceptFails, GiveUp
    <2> QED
      BY <1>0, <1>12, <2>1 DEF TypeOK, AcceptFails, Fault, Goto, Pcs, Stopped
  <1>13. ASSUME NEW w \in Workers, HandleConn(w) PROVE TypeOK'
    BY <1>0, <1>13 DEF TypeOK, HandleConn, Goto, Pcs, Stopped
  <1>28. ASSUME NEW w \in Workers, UncountConn(w) PROVE TypeOK'
    <2>1. acc[w] = Cardinality(conns[w]) + 1
      BY <1>28 DEF IInv, Accounting, UncountConn, Alive, Stopped
    <2>2. acc[w] - 1 \in Nat
      BY <1>0, <2>1, Finite
    <2> QED
      BY <1>0, <1>28, <2>2 DEF TypeOK, UncountConn, Goto, Pcs, Stopped
  <1>14. ASSUME NEW w \in Workers, Retire(w) PROVE TypeOK'
    <2>1. pending[w] - 1 \in Nat
      <3>1. pc[w] = "retire" /\ cur[w] # NoEvent
        BY <1>14 DEF IInv, Bookkeeping, Busy, Retire
      <3>2. pending[w] = Cardinality(batch[w]) + 1
        BY <3>1 DEF IInv, Accounting
      <3>3. Cardinality(batch[w]) \in Nat
        BY <1>0, Finite
      <3> QED
        BY <3>2, <3>3
    <2> QED
      BY <1>0, <1>14, <2>1 DEF TypeOK, Retire, Goto, Pcs, Stopped
  <1>15. ASSUME NEW w \in Workers, EndBatch(w) PROVE TypeOK'
    BY <1>0, <1>15 DEF TypeOK, EndBatch, Goto, Pcs, Stopped
  <1>16. ASSUME NEW w \in Workers, LoadField(w) PROVE TypeOK'
    <2> DEFINE i == loads[w] \div 3
               k == IF i = w THEN loads[w] + 3 ELSE loads[w] + 1
    <2>0. pc[w] = "load"
      BY <1>16 DEF LoadField
    <2>1. loads[w] \in Nat /\ loads[w] < 3 * NumWorkers
          /\ (loads[w] <= 3 * w \/ loads[w] >= 3 * w + 3)
      BY <1>0, <2>0 DEF TypeOK, IInv, Passes
    <2>2. i \in Workers /\ k \in 0 .. 3 * NumWorkers
      BY <2>1 DEF Workers
    <2>3. /\ loads' = [loads EXCEPT ![w] = k]
          /\ pc' = [pc EXCEPT ![w] = IF loads'[w] = 3 * NumWorkers THEN "publish" ELSE "load"]
          /\ UNCHANGED <<clock, wst, map, kernel, conns, events, now, rest, faults>>
      BY <1>16 DEF LoadField, Goto
    <2>4. snap' \in [Workers -> [lle : [Workers -> Nat],
                                pending : [Workers -> Nat], acc : [Workers -> Nat]]]
      <3> DEFINE copy(f, table, c) == IF f = loads[w] % 3 \/ i = w
                                      THEN [c EXCEPT ![i] = table[i]] ELSE c
                 r == [lle |-> copy(0, lle, snap[w].lle),
                       pending |-> copy(1, pending, snap[w].pending),
                       acc |-> copy(2, acc, snap[w].acc)]
      <3>1. snap' = [snap EXCEPT ![w] = r]
        BY <1>16 DEF LoadField
      <3> HIDE DEF i
      <3>2. r \in [lle : [Workers -> Nat],
                  pending : [Workers -> Nat], acc : [Workers -> Nat]]
        BY <1>0, <2>2 DEF TypeOK
      <3> HIDE DEF r
      <3> QED
        BY <1>0, <3>1, <3>2 DEF TypeOK
    <2> HIDE DEF i, k
    <2> QED
      BY <1>0, <2>2, <2>3, <2>4 DEF TypeOK, Pcs, Stopped
  <1>17. ASSUME NEW w \in Workers, Publish(w) PROVE TypeOK'
    <2>1. m_sel' \subseteq Workers
      BY <1>17, PublishedPassHangFilter DEF Publish, DropHung
    <2> QED
      BY <1>0, <1>17, <2>1 DEF TypeOK, Publish, EndPass, EmptySnap, Goto, Pcs, Stopped
  <1>18. ASSUME NEW w \in Workers, PublishFails(w) PROVE TypeOK'
    BY <1>0, <1>18 DEF TypeOK, PublishFails, Fault, EndPass, EmptySnap, Goto, Pcs, Stopped
  <1>19. ASSUME NEW w \in Workers, Tick(w) PROVE TypeOK'
    BY <1>0, <1>19 DEF TypeOK, Tick, Goto, Pcs, Stopped
  <1>20. ASSUME Elapse PROVE TypeOK'
    BY <1>0, <1>20 DEF TypeOK, Elapse
  <1>21. ASSUME NEW h \in Hash, Arrive(h) PROVE TypeOK'
    <2>1. PICK l \in Targets(h) : \E S \in Notified(l) :
            /\ backlog' = [backlog EXCEPT ![l] = @ + 1]
            /\ gaveUp' = gaveUp \ {l}
            /\ ready' = [w \in Workers |-> IF w \in S THEN ready[w] \cup {Listen} ELSE ready[w]]
      BY <1>21 DEF Arrive
    <2>2. l \in Workers
      BY <1>0, TargetsType
    <2>3. /\ backlog' \in [Workers -> Nat] /\ gaveUp' \subseteq Workers
          /\ ready' \in [Workers -> SUBSET (Fds \cup {Listen})]
      BY <1>0, <2>1, <2>2 DEF TypeOK
    <2>4. /\ arrivals' \in Nat
          /\ UNCHANGED <<clock, wst, map, conns, pc, events, pass, rest, faults>>
      BY <1>0, <1>21 DEF TypeOK, Arrive
    <2> QED
      BY <1>0, <2>3, <2>4 DEF TypeOK
  <1>22. ASSUME NEW w \in Workers, NEW fd \in Fds, ClientActs(w, fd) PROVE TypeOK'
    BY <1>0, <1>22 DEF TypeOK, ClientActs
  <1>23. ASSUME NEW w \in Workers, Signal(w) PROVE TypeOK'
    BY <1>0, <1>23 DEF TypeOK, Signal, Fault
  <1>24. CASE UNCHANGED vars
    BY <1>0, <1>24 DEF TypeOK
  <1> QED
    BY <1>1, <1>2, <1>3, <1>4, <1>5, <1>6, <1>7, <1>8, <1>9, <1>10,
       <1>11, <1>12, <1>13, <1>14, <1>15, <1>16, <1>17, <1>18, <1>19, <1>20,
       <1>21, <1>22, <1>23, <1>24, <1>25, <1>26, <1>27, <1>28
       DEF Next, Progress, Failure, Environment

Books == Accounting /\ NoStaleEvent /\ Bookkeeping

\* Every step keeps the counters equal to what they count, and no event behind
\* for a descriptor that is closed.
LEMMA BooksStep == IInv /\ [Next]_vars => Books'
  <1> SUFFICES ASSUME IInv, [Next]_vars PROVE Books'
    OBVIOUS
  <1> USE Constants DEF Books, Accounting, NoStaleEvent, Bookkeeping, Alive, Stopped, Busy, Goto
  <1>0. TypeOK /\ Accounting /\ NoStaleEvent /\ Bookkeeping
    BY DEF IInv
  <1>1. ASSUME NEW w \in Workers, Boot(w) PROVE Books'
    BY <1>0, <1>1 DEF TypeOK, Boot
  <1>2. ASSUME NEW w \in Workers, BootFails(w) PROVE Books'
    BY <1>0, <1>2 DEF TypeOK, BootFails
  <1>3. ASSUME NEW w \in Workers, LoopTop(w) PROVE Books'
    BY <1>0, <1>3 DEF TypeOK, LoopTop, Leave
  <1>25. ASSUME NEW w \in Workers, Stamp(w) PROVE Books'
    BY <1>0, <1>25 DEF TypeOK, Stamp
  <1>4. ASSUME NEW w \in Workers, Wake(w) PROVE Books'
    BY <1>0, <1>4 DEF TypeOK, Wake
  <1>5. ASSUME NEW w \in Workers, EpollWait(w) PROVE Books'
    <2>0. pc[w] = "wait" /\ batch[w] = {} /\ cur[w] = NoEvent
      BY <1>0, <1>5 DEF EpollWait
    <2>1. pending[w] = 0
      <3>1. pending[w] = Cardinality({}) + 0
        BY <1>0, <2>0
      <3> QED
        BY <3>1, FS_EmptySet
    <2>2. PICK evs \in SUBSET ready[w] :
            /\ batch' = [batch EXCEPT ![w] = evs]
            /\ ready' = [ready EXCEPT ![w] = @ \ evs]
            /\ pc' = [pc EXCEPT ![w] = IF evs = {} THEN "next" ELSE "count"]
      BY <1>5 DEF EpollWait
    <2>3. NoEvent \notin evs /\ UNCHANGED <<cur, conns, acc, pending>>
      BY <1>0, <1>5 DEF TypeOK, EpollWait
    <2>4. Accounting'
      <3>1. evs = {} => pending'[w] = Cardinality(batch'[w]) + 0
        BY <1>0, <2>1, <2>2, <2>3, FS_EmptySet DEF TypeOK
      <3> QED
        BY <1>0, <2>0, <2>1, <2>2, <2>3, <3>1 DEF TypeOK
    <2>6. NoStaleEvent'
      <3>1. evs \ {Listen} \subseteq conns[w]
        BY <1>0
      <3> QED
        BY <1>0, <2>2, <2>3, <3>1 DEF TypeOK
    <2>7. Bookkeeping'
      BY <1>0, <2>0, <2>2, <2>3 DEF TypeOK
    <2> QED
      BY <2>4, <2>6, <2>7
  <1>26. ASSUME NEW w \in Workers, CountEvents(w) PROVE Books'
    <2>1. Cardinality(batch[w]) \in Nat /\ cur[w] = NoEvent /\ pending[w] = 0
      BY <1>0, <1>26, Finite DEF CountEvents
    <2>2. Accounting'
      BY <1>0, <1>26, <2>1 DEF TypeOK, CountEvents
    <2>3. NoStaleEvent' /\ Bookkeeping'
      BY <1>0, <1>26 DEF TypeOK, CountEvents
    <2> QED
      BY <2>2, <2>3
  <1>6. ASSUME NEW w \in Workers, WorkerFails(w) PROVE Books'
    BY <1>0, <1>6 DEF TypeOK, WorkerFails, Leave
  <1>7. ASSUME NEW w \in Workers, NextEvent(w) PROVE Books'
    <2>1. PICK e \in batch[w] :
            /\ batch' = [batch EXCEPT ![w] = @ \ {e}]
            /\ cur' = [cur EXCEPT ![w] = e]
            /\ pc' = [pc EXCEPT ![w] = IF e = Listen THEN "accept" ELSE "handle"]
      BY <1>7 DEF NextEvent
    <2>2. Cardinality(batch[w] \ {e}) = Cardinality(batch[w]) - 1
      BY <1>0, Finite, FS_RemoveElement
    <2>3. Cardinality(batch[w]) \in Nat /\ e # NoEvent /\ cur[w] = NoEvent
          /\ pc[w] = "next"
      BY <1>0, <1>7, Finite DEF TypeOK, NextEvent
    <2>4. Accounting'
      BY <1>0, <1>7, <2>1, <2>2, <2>3 DEF TypeOK, NextEvent
    <2>5. NoStaleEvent' /\ Bookkeeping'
      BY <1>0, <1>7, <2>1, <2>3 DEF TypeOK, NextEvent
    <2> QED
      BY <2>4, <2>5
  <1>8. ASSUME NEW w \in Workers, Accept(w) PROVE Books'
    <2>1. Cardinality(conns[w]) \in Nat
      BY <1>0, Finite
    <2> QED
      BY <1>0, <1>8, <2>1 DEF TypeOK, Accept
  <1>27. ASSUME NEW w \in Workers, CountConn(w) PROVE Books'
    <2>1. Cardinality(conns[w]) \in Nat
      BY <1>0, Finite
    <2> QED
      BY <1>0, <1>27, <2>1 DEF TypeOK, CountConn
  <1>9. ASSUME NEW w \in Workers, Register(w) PROVE Books'
    <2>1. LowestFree(w) \in Fds \ conns[w]
      BY <1>0, <1>9, LowestFreeType DEF TypeOK, Register
    <2>2. Cardinality(conns[w] \cup {LowestFree(w)}) = Cardinality(conns[w]) + 1
      BY <1>0, <2>1, Finite, FS_AddElement
    <2>3. Cardinality(conns[w]) \in Nat
      BY <1>0, Finite
    <2>4. Accounting'
      BY <1>0, <1>9, <2>2, <2>3 DEF TypeOK, Register
    <2>5. NoStaleEvent' /\ Bookkeeping'
      BY <1>0, <1>9, <2>1 DEF TypeOK, Register
    <2> QED
      BY <2>4, <2>5
  <1>10. ASSUME NEW w \in Workers, RegisterFails(w) PROVE Books'
    <2>1. Cardinality(conns[w]) \in Nat
      BY <1>0, Finite
    <2> QED
      BY <1>0, <1>10, <2>1 DEF TypeOK, RegisterFails
  <1>11. ASSUME NEW w \in Workers, AcceptDone(w) PROVE Books'
    BY <1>0, <1>11 DEF TypeOK, AcceptDone
  <1>12. ASSUME NEW w \in Workers, AcceptFails(w) PROVE Books'
    BY <1>0, <1>12 DEF TypeOK, AcceptFails
  <1>13. ASSUME NEW w \in Workers, HandleConn(w) PROVE Books'
    <2>1. cur[w] \in conns[w] /\ pc[w] = "handle"
      BY <1>0, <1>13 DEF HandleConn
    <2>2. Cardinality(conns[w] \ {cur[w]}) = Cardinality(conns[w]) - 1
      BY <1>0, <2>1, Finite, FS_RemoveElement
    <2>3. Cardinality(conns[w]) \in Nat
      BY <1>0, Finite
    <2>4. Accounting'
      <3>1. acc[w] = Cardinality(conns[w])
        <4>1. acc[w] = Cardinality(conns[w]) + 0
          BY <1>0, <2>1
        <4> QED
          BY <2>3, <4>1
      <3>2. \/ conns'[w] = conns[w] /\ pc' = [pc EXCEPT ![w] = "retire"]
            \/ conns'[w] = conns[w] \ {cur[w]} /\ pc' = [pc EXCEPT ![w] = "closed"]
        BY <1>0, <1>13 DEF TypeOK, HandleConn
      <3>3. acc'[w] = Cardinality(conns'[w]) + (IF pc'[w] = "closed" THEN 1 ELSE 0)
        <4>1. acc' = acc
          BY <1>13 DEF HandleConn
        <4>2. pc'[w] \in {"retire", "closed"} /\ (pc'[w] = "closed" <=> conns'[w] # conns[w])
          BY <1>0, <2>1, <3>2 DEF TypeOK
        <4>3. CASE pc'[w] = "retire"
          BY <2>3, <3>1, <4>1, <4>2, <4>3
        <4>4. CASE pc'[w] = "closed"
          <5>1. conns'[w] = conns[w] \ {cur[w]}
            BY <3>2, <4>2, <4>4
          <5>2. Cardinality(conns'[w]) = acc[w] - 1 /\ acc[w] \in Nat
            BY <2>2, <2>3, <3>1, <5>1
          <5> QED
            BY <4>1, <4>4, <5>2
        <4> QED
          BY <4>2, <4>3, <4>4
      <3> QED
        BY <1>0, <1>13, <3>2, <3>3 DEF TypeOK, HandleConn
    <2>5. NoStaleEvent' /\ Bookkeeping'
      BY <1>0, <1>13, <2>1 DEF TypeOK, HandleConn
    <2> QED
      BY <2>4, <2>5
  <1>28. ASSUME NEW w \in Workers, UncountConn(w) PROVE Books'
    <2>1. Cardinality(conns[w]) \in Nat
      BY <1>0, Finite
    <2> QED
      BY <1>0, <1>28, <2>1 DEF TypeOK, UncountConn
  <1>14. ASSUME NEW w \in Workers, Retire(w) PROVE Books'
    <2>1. Cardinality(batch[w]) \in Nat
      BY <1>0, Finite
    <2> QED
      BY <1>0, <1>14, <2>1 DEF TypeOK, Retire
  <1>15. ASSUME NEW w \in Workers, EndBatch(w) PROVE Books'
    BY <1>0, <1>15 DEF TypeOK, EndBatch
  <1>16. ASSUME NEW w \in Workers, LoadField(w) PROVE Books'
    BY <1>0, <1>16 DEF TypeOK, LoadField
  <1>17. ASSUME NEW w \in Workers, Publish(w) PROVE Books'
    BY <1>0, <1>17 DEF TypeOK, Publish
  <1>18. ASSUME NEW w \in Workers, PublishFails(w) PROVE Books'
    BY <1>0, <1>18 DEF TypeOK, PublishFails
  <1>19. ASSUME NEW w \in Workers, Tick(w) PROVE Books'
    BY <1>0, <1>19 DEF TypeOK, Tick
  <1>20. ASSUME Elapse PROVE Books'
    BY <1>0, <1>20 DEF TypeOK, Elapse
  <1>21. ASSUME NEW h \in Hash, Arrive(h) PROVE Books'
    BY <1>0, <1>21 DEF TypeOK, Arrive
  <1>22. ASSUME NEW w \in Workers, NEW fd \in Fds, ClientActs(w, fd) PROVE Books'
    BY <1>0, <1>22 DEF TypeOK, ClientActs
  <1>23. ASSUME NEW w \in Workers, Signal(w) PROVE Books'
    BY <1>0, <1>23 DEF TypeOK, Signal
  <1>24. CASE UNCHANGED vars
    BY <1>0, <1>24
  <1> QED
    BY <1>1, <1>2, <1>3, <1>4, <1>5, <1>6, <1>7, <1>8, <1>9, <1>10,
       <1>11, <1>12, <1>13, <1>14, <1>15, <1>16, <1>17, <1>18, <1>19, <1>20,
       <1>21, <1>22, <1>23, <1>24, <1>25, <1>26, <1>27, <1>28
       DEF Next, Progress, Failure, Environment

Clocks == Passes /\ Timing /\ SnapshotsLag /\ PublishedStamped /\ PublishedFresh

\* Every step keeps what is published no staler than its pass.
LEMMA ClocksStep == IInv /\ [Next]_vars => Clocks'
  <1> SUFFICES ASSUME IInv, [Next]_vars PROVE Clocks'
    OBVIOUS
  <1> USE Constants DEF Clocks, Passes, Timing, SnapshotsLag, PublishedStamped,
                         PublishedFresh, LooksAlive, Goto
  <1>0. TypeOK /\ Passes /\ Timing /\ SnapshotsLag /\ PublishedStamped /\ PublishedFresh
    BY DEF IInv
  <1>1. ASSUME NEW w \in Workers, Boot(w) PROVE Clocks'
    BY <1>0, <1>1 DEF TypeOK, Boot
  <1>2. ASSUME NEW w \in Workers, BootFails(w) PROVE Clocks'
    BY <1>0, <1>2 DEF TypeOK, BootFails
  <1>3. ASSUME NEW w \in Workers, LoopTop(w) PROVE Clocks'
    BY <1>0, <1>3 DEF TypeOK, LoopTop, Leave
  <1>25. ASSUME NEW w \in Workers, Stamp(w) PROVE Clocks'
    BY <1>0, <1>25 DEF TypeOK, Stamp
  <1>4. ASSUME NEW w \in Workers, Wake(w) PROVE Clocks'
    BY <1>0, <1>4 DEF TypeOK, Wake
  <1>5. ASSUME NEW w \in Workers, EpollWait(w) PROVE Clocks'
    BY <1>0, <1>5 DEF TypeOK, EpollWait
  <1>26. ASSUME NEW w \in Workers, CountEvents(w) PROVE Clocks'
    BY <1>0, <1>26 DEF TypeOK, CountEvents
  <1>6. ASSUME NEW w \in Workers, WorkerFails(w) PROVE Clocks'
    BY <1>0, <1>6 DEF TypeOK, WorkerFails, Leave
  <1>7. ASSUME NEW w \in Workers, NextEvent(w) PROVE Clocks'
    BY <1>0, <1>7 DEF TypeOK, NextEvent
  <1>8. ASSUME NEW w \in Workers, Accept(w) PROVE Clocks'
    BY <1>0, <1>8 DEF TypeOK, Accept
  <1>27. ASSUME NEW w \in Workers, CountConn(w) PROVE Clocks'
    BY <1>0, <1>27 DEF TypeOK, CountConn
  <1>9. ASSUME NEW w \in Workers, Register(w) PROVE Clocks'
    BY <1>0, <1>9 DEF TypeOK, Register
  <1>10. ASSUME NEW w \in Workers, RegisterFails(w) PROVE Clocks'
    BY <1>0, <1>10 DEF TypeOK, RegisterFails
  <1>11. ASSUME NEW w \in Workers, AcceptDone(w) PROVE Clocks'
    BY <1>0, <1>11 DEF TypeOK, AcceptDone
  <1>12. ASSUME NEW w \in Workers, AcceptFails(w) PROVE Clocks'
    BY <1>0, <1>12 DEF TypeOK, AcceptFails
  <1>13. ASSUME NEW w \in Workers, HandleConn(w) PROVE Clocks'
    BY <1>0, <1>13 DEF TypeOK, HandleConn
  <1>28. ASSUME NEW w \in Workers, UncountConn(w) PROVE Clocks'
    BY <1>0, <1>28 DEF TypeOK, UncountConn
  <1>14. ASSUME NEW w \in Workers, Retire(w) PROVE Clocks'
    BY <1>0, <1>14 DEF TypeOK, Retire
  <1>15. ASSUME NEW w \in Workers, EndBatch(w) PROVE Clocks'
    BY <1>0, <1>15, SMTT(30) DEF TypeOK, EndBatch
  <1>16. ASSUME NEW w \in Workers, LoadField(w) PROVE Clocks'
    <2>1. Timing' /\ PublishedStamped' /\ PublishedFresh'
      BY <1>0, <1>16 DEF TypeOK, LoadField
    <2>2. Passes'
      BY <1>0, <1>16, SMTT(30) DEF TypeOK, LoadField
    <2>3. SnapshotsLag'
      BY <1>0, <1>16, SMTT(30) DEF TypeOK, LoadField
    <2> QED
      BY <2>1, <2>2, <2>3
  <1>17. ASSUME NEW w \in Workers, Publish(w) PROVE Clocks'
    <2>1. \A i \in m_sel' : i \in Workers /\ LooksAlive(now[w], snap[w].lle[i])
      <3>1. m_sel' \subseteq DropHung(now[w], snap[w].lle)
        BY <1>17, PublishedPassHangFilter DEF Publish
      <3> QED
        BY <3>1 DEF DropHung
    <2>2. \A i \in Workers : loads[w] > 3 * i
      BY <1>0, <1>17 DEF TypeOK, Publish, Workers
    <2>3. ASSUME NEW i \in m_sel'
          PROVE  \/ snap[w].lle[i] = 0
                 \/ lle[i] > 0 /\ LooksAlive(now[w], lle[i])
      <3>1. i \in Workers /\ LooksAlive(now[w], snap[w].lle[i])
        BY <2>1
      <3>2. snap[w].lle[i] <= lle[i]
        BY <1>0, <2>2, <3>1
      <3>3. now[w] \in Nat /\ lle[i] \in Nat /\ snap[w].lle[i] \in Nat
        BY <1>0, <3>1 DEF TypeOK
      <3> QED
        BY <3>1, <3>2, <3>3
    <2>4. PublishedStamped' /\ PublishedFresh'
      BY <1>17, <2>1, <2>3 DEF Publish
    <2>5. Passes' /\ Timing' /\ SnapshotsLag'
      BY <1>0, <1>17 DEF TypeOK, Publish, EndPass, EmptySnap
    <2> QED
      BY <2>4, <2>5
  <1>18. ASSUME NEW w \in Workers, PublishFails(w) PROVE Clocks'
    BY <1>0, <1>18 DEF TypeOK, PublishFails, EndPass, EmptySnap
  <1>19. ASSUME NEW w \in Workers, Tick(w) PROVE Clocks'
    BY <1>0, <1>19 DEF TypeOK, Tick
  <1>20. ASSUME Elapse PROVE Clocks'
    BY <1>0, <1>20 DEF TypeOK, Elapse
  <1>21. ASSUME NEW h \in Hash, Arrive(h) PROVE Clocks'
    BY <1>0, <1>21 DEF TypeOK, Arrive
  <1>22. ASSUME NEW w \in Workers, NEW fd \in Fds, ClientActs(w, fd) PROVE Clocks'
    BY <1>0, <1>22 DEF TypeOK, ClientActs
  <1>23. ASSUME NEW w \in Workers, Signal(w) PROVE Clocks'
    BY <1>0, <1>23 DEF TypeOK, Signal
  <1>24. CASE UNCHANGED vars
    BY <1>0, <1>24
  <1> QED
    BY <1>1, <1>2, <1>3, <1>4, <1>5, <1>6, <1>7, <1>8, <1>9, <1>10,
       <1>11, <1>12, <1>13, <1>14, <1>15, <1>16, <1>17, <1>18, <1>19, <1>20,
       <1>21, <1>22, <1>23, <1>24, <1>25, <1>26, <1>27, <1>28
       DEF Next, Progress, Failure, Environment
-----------------------------------------------------------------------------
\* The invariant holds initially and every step keeps it: the behaviour of the
\* workers' loop, the table and the map as worker.rs runs them.
THEOREM InductiveInvariant == Spec => []IInv
  <1>1. Init => IInv
    <2> SUFFICES ASSUME Init PROVE IInv
      OBVIOUS
    <2> USE Constants
    <2>1. TypeOK
      BY ConfigsAssumption DEF Init, TypeOK, ConfigType, Pcs, EmptySnap
    <2>2. Accounting
      BY FS_EmptySet DEF Init, Accounting
    <2>3. NoStaleEvent /\ Bookkeeping
      BY DEF Init, NoStaleEvent, Bookkeeping, Busy
    <2>4. Passes /\ Timing /\ SnapshotsLag /\ PublishedStamped /\ PublishedFresh
      BY DEF Init, Passes, Timing, SnapshotsLag, PublishedStamped, PublishedFresh, Workers
    <2> QED
      BY <2>1, <2>2, <2>3, <2>4 DEF IInv
  <1>2. IInv /\ [Next]_vars => IInv'
    BY TypeStep, BooksStep, ClocksStep DEF IInv, Books, Clocks
  <1> QED
    BY <1>1, <1>2, PTL DEF Spec

\* The variables of the model keep their types; in particular the two counters
\* worker.rs keeps with fetch_add and fetch_sub never go below zero.
THEOREM TypeCorrect == Spec => []TypeOK
  <1>1. IInv => TypeOK
    BY DEF IInv
  <1> QED
    BY <1>1, InductiveInvariant, PTL

\* The counters of the status table are what the worker holds, through accept4
\* and epoll_ctl failures, closes and exits (accept_all, handle_conn_event).
THEOREM CountersAreExact == Spec => []Accounting
  <1>1. IInv => Accounting
    BY DEF IInv
  <1> QED
    BY <1>1, InductiveInvariant, PTL

\* No event of a batch is handled for a descriptor closed before it, although
\* accept4 hands descriptors out again (the event loop of worker_loop).
THEOREM EventsAreCurrent == Spec => []NoStaleEvent
  <1>1. IInv => NoStaleEvent
    BY DEF IInv
  <1> QED
    BY <1>1, InductiveInvariant, PTL

\* No published bitmap names a worker that was hung when its pass began, in any
\* interleaving of the lock-free snapshot (snapshot_all) with the loops it reads,
\* unless the pass found its slot never stamped: the first reading of the clock
\* may be stored late (worker_loop's loop entry).
THEOREM PublicationIsFresh == Spec => []PublishedFresh
  <1>1. IInv => PublishedFresh
    BY DEF IInv
  <1> QED
    BY <1>1, InductiveInvariant, PTL
=============================================================================
