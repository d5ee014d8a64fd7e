------------------------- MODULE HermesWakeupProofs -------------------------
(***************************************************************************)
(* Edge triggering loses no connection, for every policy: listeners of     *)
(* their own, a shared one with exclusive wakeups, and whatever the eBPF   *)
(* program selects, as long as accept_all is not cut short by an error     *)
(* (AcceptError.cfg shows what happens then).  And it is not cut short     *)
(* when accept4 fails only for want of connections and a worker has        *)
(* descriptors enough for all of them.                                     *)
(***************************************************************************)
EXTENDS HermesProofs

\* The environment accept_all relies on.
AcceptsCanSucceed ==
    \A c \in Configs : "accept" \notin c.faults /\ c.maxArrivals <= Cardinality(Fds)

\* Worker w is stopped, or still going to look at its listener.
Attentive(w) == \/ ~Alive(w)
                \/ pc[w] \in {"boot", "accept", "accepted", "register"}
                \/ Listen \in ready[w] \cup batch[w]

\* A worker counts, and may yet accept, no more connections than have arrived.
Capacity == /\ arrivals <= config.maxArrivals
            /\ \A w \in Workers :
                  /\ acc[w] + backlog[Listener(w)] <= arrivals
                  /\ pc[w] = "accepted" => acc[w] + backlog[Listener(w)] < arrivals
-----------------------------------------------------------------------------
USE DEF vars, wst, map, queues, kernel, pass, events, rest

\* The configuration is fixed, and with it who accepts from which listener.
LEMMA ConfigFixed == ASSUME [Next]_vars PROVE config' = config
  <1>1. ASSUME NEW w \in Workers, Progress(w) PROVE config' = config
    BY <1>1 DEF Progress, Boot, LoopTop, Stamp, Wake, EpollWait, CountEvents, NextEvent, Accept,
                CountConn, Register, AcceptDone, HandleConn, UncountConn, Retire, EndBatch, LoadField, Publish, Tick
  <1>2. ASSUME NEW w \in Workers, Failure(w) PROVE config' = config
    BY <1>2 DEF Failure, BootFails, WorkerFails, RegisterFails, AcceptFails, PublishFails
  <1>3. CASE Environment
    BY <1>3 DEF Environment, Elapse, Arrive, Signal, ClientActs
  <1> QED
    BY <1>1, <1>2, <1>3 DEF Next

\* How a step keeps NoLostWakeup when it queues nothing: whoever stops being
\* attentive leaves an empty queue, or a queue given up, behind.
LEMMA StayAttentive ==
    ASSUME NoLostWakeup, config' = config, gaveUp \subseteq gaveUp',
           \A l \in Workers : backlog'[l] > 0 => backlog[l] > 0,
           \A v \in Workers : Attentive(v) => \/ Attentive(v)'
                                              \/ ~(backlog'[Listener(v)] > 0)
                                              \/ Listener(v) \in gaveUp'
    PROVE  NoLostWakeup'
  <1>0. \A l \in Workers : Owners(l)' = Owners(l)
    BY DEF Owners, Listener
  <1> SUFFICES ASSUME NEW l \in Workers, backlog'[l] > 0, l \notin gaveUp'
               PROVE  \E w \in Owners(l) : Attentive(w)'
    BY <1>0 DEF NoLostWakeup, Attentive, Alive
  <1>1. PICK v \in Owners(l) : Attentive(v)
    BY DEF NoLostWakeup, Attentive
  <1>2. v \in Workers /\ Listener(v) = l
    BY DEF Owners
  <1> QED
    BY <1>1, <1>2

\* The worker a connection is queued for is told of it, unless it has stopped or
\* not yet registered its listener.
LEMMA ArrivalIsNoticed ==
    ASSUME TypeOK, NoLostWakeup, NEW h \in Hash, Arrive(h)
    PROVE  NoLostWakeup'
  <1>1. PICK l \in Targets(h) : \E S \in Notified(l) :
            /\ backlog' = [backlog EXCEPT ![l] = @ + 1]
            /\ gaveUp' = gaveUp \ {l}
            /\ ready' = [w \in Workers |-> IF w \in S THEN ready[w] \cup {Listen} ELSE ready[w]]
    BY DEF Arrive
  <1>2. PICK S \in Notified(l) :
            /\ backlog' = [backlog EXCEPT ![l] = @ + 1]
            /\ gaveUp' = gaveUp \ {l}
            /\ ready' = [w \in Workers |-> IF w \in S THEN ready[w] \cup {Listen} ELSE ready[w]]
    BY <1>1
  <1>3. l \in Workers
    BY <1>1, TargetsType
  <1>4. UNCHANGED <<pc, batch, config>>
    BY DEF Arrive
  <1>10. \A k \in Workers : Owners(k)' = Owners(k)
    BY <1>4 DEF Owners, Listener
  <1>5. \A v \in Workers : Attentive(v) => Attentive(v)'
    BY <1>2, <1>4 DEF Attentive, Alive
  <1>6. Owners(l) # {}
    <2>1. CASE config.policy = "lifo"
      <3>1. l = 0
        BY <1>1, <2>1 DEF Targets
      <3> QED
        BY <1>3, <2>1, <3>1 DEF Owners, Listener
    <2>2. CASE config.policy # "lifo"
      BY <1>3, <2>2 DEF Owners, Listener
    <2> QED
      BY <2>1, <2>2
  <1>7. \E w \in Owners(l) : Attentive(w)'
    <2> DEFINE polling == {w \in Owners(l) : pc[w] \notin Stopped \cup {"boot"}}
               blocked == {w \in polling : pc[w] = "wait" /\ ready[w] = {}}
    <2>1. CASE Owners(l) \subseteq polling
      <3>1. PICK w \in Owners(l) : w \in S
        <4>1. CASE S = polling
          BY <1>6, <2>1, <4>1
        <4>2. CASE S \in SUBSET polling /\ Cardinality(S \cap blocked) = 1
          <5>1. S \cap blocked # {}
            <6> HIDE DEF polling, blocked
            <6>1. Cardinality({}) = 0
              BY FS_EmptySet
            <6> QED
              BY <4>2, <6>1
          <5> QED
            BY <4>2, <5>1
        <4> QED
          BY <1>2, <4>1, <4>2 DEF Notified
      <3>2. w \in Workers
        BY DEF Owners
      <3> QED
        BY <1>2, <3>1, <3>2 DEF Attentive
    <2>2. CASE ~(Owners(l) \subseteq polling)
      <3>1. PICK w \in Owners(l) : pc[w] \in Stopped \cup {"boot"}
        BY <2>2
      <3> QED
        BY <1>4, <3>1 DEF Attentive, Alive
    <2> QED
      BY <2>1, <2>2
  <1> SUFFICES ASSUME NEW k \in Workers, backlog'[k] > 0, k \notin gaveUp'
               PROVE  \E w \in Owners(k) : Attentive(w)'
    BY <1>10 DEF NoLostWakeup, Attentive, Alive
  <1>8. CASE k = l
    BY <1>7, <1>8
  <1>9. CASE k # l
    <2>1. backlog[k] > 0 /\ k \notin gaveUp
      BY <1>2, <1>3, <1>9 DEF TypeOK
    <2>2. PICK v \in Owners(k) : Attentive(v)
      BY <2>1 DEF NoLostWakeup, Attentive
    <2>3. v \in Workers
      BY DEF Owners
    <2> QED
      BY <1>5, <2>2, <2>3
  <1> QED
    BY <1>8, <1>9

\* accept_all ends only when the queue is empty: there is a free descriptor for
\* every connection that has arrived.
LEMMA AcceptAllDrains ==
    ASSUME IInv, Capacity, AcceptsCanSucceed, NEW w \in Workers, AcceptDone(w)
    PROVE  backlog[Listener(w)] = 0
  <1>0. config \in Configs /\ config.maxArrivals \in Nat /\ IsFiniteSet(Fds)
    BY Constants, ConfigsAssumption DEF IInv, TypeOK, ConfigType
  <1>1. Listener(w) \in Workers
    BY ListenerType
  <1>2. backlog[Listener(w)] \in Nat /\ arrivals <= config.maxArrivals /\ arrivals \in Nat
    BY <1>1 DEF IInv, TypeOK, Capacity
  <1>3. SUFFICES ASSUME backlog[Listener(w)] > 0 PROVE FALSE
    BY <1>2
  <1>4. Fds \subseteq conns[w] /\ conns[w] \subseteq Fds
    BY <1>3 DEF AcceptDone, IInv, TypeOK
  <1>5. conns[w] = Fds
    BY <1>4
  <1>6. acc[w] = Cardinality(Fds)
    <2>1. pc[w] = "accept"
      BY DEF AcceptDone
    <2>2. acc[w] = Cardinality(conns[w]) + 0
      BY <2>1 DEF IInv, Accounting, Alive, Stopped
    <2>3. Cardinality(Fds) \in Nat
      BY <1>0, FS_CardinalityType
    <2> QED
      BY <1>5, <2>2, <2>3
  <1>7. Cardinality(Fds) \in Nat
    BY <1>0, FS_CardinalityType
  <1> QED
    BY <1>0, <1>2, <1>3, <1>6, <1>7 DEF Capacity, AcceptsCanSucceed

\* Connections are counted once, when they are accepted from the queue.
LEMMA CapacityStep == ASSUME IInv, Capacity, [Next]_vars PROVE Capacity'
  <1>0. TypeOK
    BY DEF IInv
  <1>8. config' = config /\ \A w \in Workers : Listener(w)' = Listener(w)
    BY ConfigFixed DEF Listener
  <1>9. acc \in [Workers -> Nat] /\ backlog \in [Workers -> Nat] /\ arrivals \in Nat
        /\ pc \in [Workers -> Pcs]
    BY <1>0 DEF TypeOK
  <1>1. ASSUME NEW w \in Workers, Accept(w) PROVE Capacity'
    BY <1>1, <1>8, <1>9, ListenerType DEF Accept, Goto, Capacity
  <1>2. ASSUME NEW w \in Workers, CountConn(w) PROVE Capacity'
    BY <1>2, <1>8, <1>9, ListenerType DEF CountConn, Goto, Capacity
  <1>3. ASSUME NEW w \in Workers, RegisterFails(w) \/ UncountConn(w) PROVE Capacity'
    BY <1>3, <1>8, <1>9, ListenerType DEF RegisterFails, UncountConn, Goto, Capacity
  <1>4. ASSUME NEW h \in Hash, Arrive(h) PROVE Capacity'
    <2>1. PICK l \in Targets(h) : backlog' = [backlog EXCEPT ![l] = @ + 1]
      BY <1>4 DEF Arrive
    <2>2. l \in Workers
      BY <1>0, <2>1, TargetsType
    <2>3. arrivals < config.maxArrivals /\ arrivals' = arrivals + 1
          /\ UNCHANGED <<acc, pc>>
      BY <1>4 DEF Arrive
    <2>4. config.maxArrivals \in Nat
      BY <1>0, ConfigsAssumption DEF TypeOK, ConfigType
    <2> QED
      BY <1>0, <1>8, <2>1, <2>2, <2>3, <2>4, ListenerType DEF Capacity, TypeOK
  <1>5. CASE /\ UNCHANGED <<acc, backlog, arrivals>>
             /\ \A v \in Workers : pc'[v] = "accepted" => pc[v] = "accepted"
    BY <1>5, <1>8 DEF Capacity
  <1>6. ASSUME NEW w \in Workers,
               \/ Boot(w) \/ BootFails(w) \/ LoopTop(w) \/ Stamp(w) \/ Wake(w)
               \/ EpollWait(w) \/ CountEvents(w) \/ HandleConn(w)
               \/ WorkerFails(w) \/ NextEvent(w) \/ Register(w) \/ AcceptDone(w)
               \/ AcceptFails(w) \/ Retire(w) \/ EndBatch(w) \/ LoadField(w)
               \/ Publish(w) \/ PublishFails(w) \/ Tick(w) \/ Signal(w)
               \/ \E fd \in Fds : ClientActs(w, fd)
        PROVE  /\ UNCHANGED <<acc, backlog, arrivals>>
               /\ \A v \in Workers : pc'[v] = "accepted" => pc[v] = "accepted"
    BY <1>6, <1>9 DEF Boot, BootFails, LoopTop, Stamp, Wake, EpollWait, CountEvents,
                HandleConn, WorkerFails, NextEvent, Register, AcceptDone, AcceptFails,
                Retire, EndBatch, LoadField, Publish, PublishFails, Tick, Signal,
                ClientActs, Leave, Goto
  <1>7. CASE Elapse \/ UNCHANGED vars
    BY <1>5, <1>7 DEF Elapse, vars
  <1> QED
    BY <1>1, <1>2, <1>3, <1>4, <1>5, <1>6, <1>7 DEF Next, Progress, Failure, Environment

\* Every step keeps the promise: a worker turns its attention away from its
\* listener only in AcceptDone and AcceptFails.
LEMMA WakeupStep ==
    ASSUME IInv, NoLostWakeup, [Next]_vars
    PROVE  NoLostWakeup'
  <1> USE DEF Attentive, Alive, Stopped, Goto
  <1>0. TypeOK /\ NoStaleEvent /\ Bookkeeping
    BY DEF IInv
  <1>14. config' = config
    BY ConfigFixed
  <1>1. ASSUME NEW h \in Hash, Arrive(h) PROVE NoLostWakeup'
    BY <1>0, <1>1, ArrivalIsNoticed
  <1>2. ASSUME NEW w \in Workers, Boot(w) PROVE NoLostWakeup'
    <2>1. UNCHANGED <<backlog, gaveUp>>
      BY <1>2 DEF Boot
    <2>2. \A v \in Workers : Attentive(v) => Attentive(v)' \/ ~(backlog'[Listener(v)] > 0)
      BY <1>0, <1>2 DEF Boot, TypeOK
    <2> QED
      BY <1>14, <2>1, <2>2, StayAttentive
  <1>3. ASSUME NEW w \in Workers, AcceptDone(w) \/ AcceptFails(w) PROVE NoLostWakeup'
    <2>1. UNCHANGED <<backlog, ready, batch>> /\ pc' = [pc EXCEPT ![w] = "retire"]
      BY <1>3 DEF AcceptDone, AcceptFails
    <2>2. gaveUp \subseteq gaveUp' /\ (backlog[Listener(w)] > 0 => Listener(w) \in gaveUp')
      <3>1. CASE AcceptFails(w)
        BY <3>1 DEF AcceptFails, GiveUp
      <3>2. CASE AcceptDone(w)
        <4>1. CASE backlog[Listener(w)] = 0 /\ UNCHANGED gaveUp
          BY <4>1
        <4>2. CASE GiveUp(w)
          BY <4>2 DEF GiveUp
        <4> QED
          BY <3>2, <4>1, <4>2 DEF AcceptDone
      <3> QED
        BY <1>3, <3>1, <3>2
    <2>3. ASSUME NEW v \in Workers, Attentive(v)
          PROVE  Attentive(v)' \/ ~(backlog'[Listener(v)] > 0) \/ Listener(v) \in gaveUp'
      <3>1. CASE v = w
        BY <2>1, <2>2, <3>1
      <3>2. CASE v # w
        BY <1>0, <2>1, <2>3, <3>2 DEF TypeOK
      <3> QED
        BY <3>1, <3>2
    <2> QED
      BY <1>14, <2>1, <2>2, <2>3, StayAttentive
  <1>4. ASSUME NEW w \in Workers, CountEvents(w) \/ CountConn(w) \/ UncountConn(w)
        PROVE  UNCHANGED <<backlog, gaveUp>> /\ \A v \in Workers : Attentive(v) => Attentive(v)'
    BY <1>0, <1>4 DEF CountEvents, CountConn, UncountConn, TypeOK
  <1>5. ASSUME NEW w \in Workers, Accept(w) PROVE NoLostWakeup'
    <2>1. gaveUp' = gaveUp /\ \A l \in Workers : backlog'[l] > 0 => backlog[l] > 0
      BY <1>0, <1>5, ListenerType DEF Accept, TypeOK
    <2>2. \A v \in Workers : Attentive(v) => Attentive(v)'
      BY <1>0, <1>5 DEF Accept, TypeOK
    <2> QED
      BY <1>14, <2>1, <2>2, StayAttentive
  <1>6. ASSUME NEW w \in Workers, HandleConn(w)
        PROVE  UNCHANGED <<backlog, gaveUp>> /\ \A v \in Workers : Attentive(v) => Attentive(v)'
    <2>1. cur[w] # Listen
      BY <1>0, <1>6, Constants DEF HandleConn, NoStaleEvent, TypeOK
    <2> QED
      BY <1>0, <1>6, <2>1 DEF HandleConn, TypeOK
  <1>7. ASSUME NEW w \in Workers, EpollWait(w)
        PROVE  UNCHANGED <<backlog, gaveUp>> /\ \A v \in Workers : Attentive(v) => Attentive(v)'
    <2>1. PICK evs \in SUBSET ready[w] :
              /\ batch' = [batch EXCEPT ![w] = evs]
              /\ ready' = [ready EXCEPT ![w] = @ \ evs]
      BY <1>7 DEF EpollWait
    <2>2. /\ pc' = [pc EXCEPT ![w] = "next"] \/ pc' = [pc EXCEPT ![w] = "count"]
          /\ pc[w] = "wait" /\ UNCHANGED <<backlog, gaveUp>>
      BY <1>7 DEF EpollWait
    <2>3. /\ pc \in [Workers -> Pcs]
          /\ ready \in [Workers -> SUBSET (Fds \cup {Listen})]
          /\ batch \in [Workers -> SUBSET (Fds \cup {Listen})]
      BY <1>0 DEF TypeOK
    <2>4. ASSUME NEW v \in Workers, Attentive(v) PROVE Attentive(v)'
      <3>1. CASE v = w
        <4>1. batch[w] = {}
          BY <1>0, <2>2 DEF Bookkeeping, Busy
        <4> QED
          BY <2>1, <2>2, <2>3, <2>4, <3>1, <4>1
      <3>2. CASE v # w
        BY <2>1, <2>2, <2>3, <2>4, <3>2
      <3> QED
        BY <3>1, <3>2
    <2> QED
      BY <2>2, <2>4
  <1>8. ASSUME NEW w \in Workers, NextEvent(w)
        PROVE  UNCHANGED <<backlog, gaveUp>> /\ \A v \in Workers : Attentive(v) => Attentive(v)'
    BY <1>0, <1>8 DEF NextEvent, TypeOK
  <1>9. ASSUME NEW w \in Workers,
               \/ LoopTop(w) \/ Stamp(w) \/ WorkerFails(w) \/ BootFails(w)
               \/ Register(w) \/ RegisterFails(w)
        PROVE  UNCHANGED <<backlog, gaveUp>> /\ \A v \in Workers : Attentive(v) => Attentive(v)'
    BY <1>0, <1>9 DEF LoopTop, Stamp, WorkerFails, BootFails, Register, RegisterFails, Leave,
                      TypeOK
  <1>10. ASSUME NEW w \in Workers,
                \/ Wake(w) \/ Retire(w) \/ EndBatch(w) \/ LoadField(w) \/ Publish(w)
                \/ PublishFails(w) \/ Tick(w)
         PROVE  UNCHANGED <<backlog, gaveUp>> /\ \A v \in Workers : Attentive(v) => Attentive(v)'
    BY <1>0, <1>10 DEF Wake, Retire, EndBatch, LoadField, Publish, PublishFails, Tick,
                       TypeOK
  <1>11. ASSUME NEW w \in Workers, Signal(w) \/ \E fd \in Fds : ClientActs(w, fd)
         PROVE  UNCHANGED <<backlog, gaveUp>> /\ \A v \in Workers : Attentive(v) => Attentive(v)'
    <2>1. CASE Signal(w)
      BY <2>1 DEF Signal
    <2>2. ASSUME NEW fd \in Fds, ClientActs(w, fd)
          PROVE  UNCHANGED <<backlog, gaveUp>> /\ \A v \in Workers : Attentive(v) => Attentive(v)'
      <3>1. UNCHANGED <<backlog, gaveUp, pc, batch>> /\ ready' = [ready EXCEPT ![w] = @ \cup {fd}]
        BY <2>2 DEF ClientActs
      <3>2. ready \in [Workers -> SUBSET (Fds \cup {Listen})]
        BY <1>0 DEF TypeOK
      <3> QED
        BY <3>1, <3>2
    <2> QED
      BY <1>11, <2>1, <2>2
  <1>12. CASE Elapse \/ UNCHANGED vars
    BY <1>12, <1>14 DEF Elapse, NoLostWakeup, Owners, Listener
  <1>13. CASE UNCHANGED <<backlog, gaveUp>> /\ \A v \in Workers : Attentive(v) => Attentive(v)'
    BY <1>13, <1>14, StayAttentive
  <1> QED
    BY <1>1, <1>2, <1>3, <1>4, <1>5, <1>6, <1>7, <1>8, <1>9, <1>10, <1>11, <1>12, <1>13
       DEF Next, Progress, Failure, Environment

\* While a connection waits, a worker that accepts from its queue has been or
\* will be told (add_listener's edge-triggered registration, accept_all's loop),
\* unless one has stopped or accept_all has returned on an error since.
THEOREM WakeupsAreKept == Spec => []NoLostWakeup
  <1>1. Init => NoLostWakeup
    BY DEF Init, NoLostWakeup
  <1>2. IInv /\ NoLostWakeup /\ [Next]_vars => NoLostWakeup'
    BY WakeupStep
  <1> QED
    BY <1>1, <1>2, InductiveInvariant, PTL DEF Spec

\* accept_all gives no queue up when accept4 fails for want of connections only
\* and the workers have descriptors enough: the second exception of NoLostWakeup
\* and ConnsAccepted is then void.
THEOREM NothingGivenUp ==
    ASSUME AcceptsCanSucceed
    PROVE  Spec => [](gaveUp = {})
  <1>1. Init => Capacity /\ gaveUp = {}
    <2> SUFFICES ASSUME Init PROVE Capacity /\ gaveUp = {}
      OBVIOUS
    <2>1. config.maxArrivals \in Nat /\ arrivals = 0 /\ gaveUp = {}
      BY ConfigsAssumption DEF Init, ConfigType
    <2>2. \A l \in Workers : backlog[l] = 0 /\ acc[l] = 0 /\ pc[l] # "accepted"
      BY DEF Init
    <2> QED
      BY <2>1, <2>2, ListenerType DEF Capacity
  <1>2. IInv /\ Capacity /\ gaveUp = {} /\ [Next]_vars => (Capacity /\ gaveUp = {})'
    <2> SUFFICES ASSUME IInv, Capacity, gaveUp = {}, [Next]_vars PROVE gaveUp' = {}
      BY CapacityStep
    <2>1. ASSUME NEW w \in Workers, AcceptDone(w) PROVE gaveUp' = {}
      <3>1. backlog[Listener(w)] = 0
        BY <2>1, AcceptAllDrains
      <3> QED
        BY <2>1, <3>1 DEF AcceptDone
    <2>2. ASSUME NEW w \in Workers, AcceptFails(w) PROVE gaveUp' = {}
      BY <2>2 DEF AcceptFails, Fault, AcceptsCanSucceed, IInv, TypeOK
    <2>3. ASSUME NEW w \in Workers, Progress(w), ~AcceptDone(w) PROVE gaveUp' = gaveUp
      BY <2>3 DEF Progress, Boot, LoopTop, Stamp, Wake, EpollWait, CountEvents, NextEvent, Accept,
                  CountConn, Register, HandleConn, UncountConn, Retire, EndBatch, LoadField, Publish, Tick
    <2>4. ASSUME NEW w \in Workers, Failure(w), ~AcceptFails(w) PROVE gaveUp' = gaveUp
      BY <2>4 DEF Failure, BootFails, WorkerFails, RegisterFails, PublishFails
    <2>5. CASE Environment
      BY <2>5 DEF Environment, Elapse, Arrive, Signal, ClientActs
    <2> QED
      BY <2>1, <2>2, <2>3, <2>4, <2>5 DEF Next
  <1> QED
    BY <1>1, <1>2, InductiveInvariant, PTL DEF Spec
=============================================================================
