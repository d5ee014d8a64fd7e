------------------------------- MODULE Hermes -------------------------------
(***************************************************************************)
(* The load balancer: NumWorkers worker processes, each in the event loop  *)
(* of hermes/src/worker.rs, the worker status table they share, the M_Sel  *)
(* map they publish to, and the kernel that steers connections by it.      *)
(*                                                                         *)
(* One step is one access to state that another process can see: a store   *)
(* to the table, one field of a snapshot, the map write, a system call.    *)
(* Time is a clock that may advance between any two steps, so a worker may *)
(* be slow, descheduled or asleep anywhere.                                *)
(***************************************************************************)
EXTENDS Scheduler, Dispatcher, FiniteSets

CONSTANTS Configs,       \* the command lines to start from, with their bounds
          Fds,           \* connection descriptors a worker may have open
          MaxEvents,     \* MAX_EVENTS of one epoll_wait
          HangTicks      \* how long an injected hang lasts

\* A configuration: the policy, the worker told to hang, what a left-over pin of
\* M_Sel holds, and what bounds the behaviours: the kinds of failure that may
\* happen and how many, the connections that arrive, the last instant.
ConfigType == [policy : {"hermes", "reuseport", "lifo"}, hang : SUBSET Workers,
               sel : SUBSET Workers,
               faults : SUBSET {"boot", "fatal", "register", "accept", "publish", "signal"},
               maxFaults : Nat, maxArrivals : Nat, maxClock : Nat \ {0}]

ASSUME ConfigsAssumption == Configs \subseteq ConfigType
ASSUME FdsAssumption == IsFiniteSet(Fds) /\ Fds \subseteq Nat \ {0}
ASSUME BoundsAssumption == MaxEvents \in Nat \ {0} /\ HangTicks \in Nat

Listen == 0             \* the listener among the descriptors of a worker
NoEvent == -1

VARIABLES
    config,             \* the configuration of this run
    clock,              \* CLOCK_MONOTONIC
    lle, pending, acc,  \* the worker status table: last_loop_entry,
                        \* pending_events, accumulated_conns of each slot
    m_sel,              \* the candidate bitmap in the M_Sel map
    selNow, selNew,     \* history: the clock reading of the pass that wrote it,
                        \* and the slots that pass found never stamped
    backlog,            \* connections waiting in each listener's accept queue
    gaveUp,             \* history: listeners accept_all left with connections
                        \* queued, after an error, and no arrival since
    ready,              \* the ready list of each worker's epoll instance
    conns,              \* the keys of each worker's connection table
    pc,                 \* where each worker is in its loop
    batch, cur,         \* events returned and not begun; the one in hand
    now,                \* the clock reading in hand: of the loop entry still to
                        \* be stored, the start of the sleep, or the pass
    snap, loads,        \* the pass in progress: the fields read, how many
    hang,               \* workers with an injected hang still to come
    shutdown,           \* workers whose signal handler has run
    faults, arrivals    \* what the bounds count

wst     == <<lle, pending, acc>>
map     == <<m_sel, selNow, selNew>>
queues  == <<backlog, gaveUp, arrivals>>
kernel  == <<queues, ready>>
pass    == <<now, snap, loads>>
events  == <<batch, cur>>
rest    == <<config, hang, shutdown>>
vars    == <<clock, wst, map, kernel, conns, pc, events, pass, rest, faults>>

\* The listener a worker accepts from: its own, or the one all share.
Listener(w) == IF config.policy = "lifo" THEN 0 ELSE w
Owners(l) == {w \in Workers : Listener(w) = l}

Stopped == {"exited", "dead"}
Alive(w) == pc[w] \notin Stopped

\* A failure of one of the chosen kinds, within the bound.
Fault(kind) == /\ kind \in config.faults /\ faults < config.maxFaults
               /\ faults' = faults + 1

Goto(w, l) == pc' = [pc EXCEPT ![w] = l]

EmptySnap == [lle |-> [i \in Workers |-> 0], pending |-> [i \in Workers |-> 0],
              acc |-> [i \in Workers |-> 0]]
-----------------------------------------------------------------------------
Init == /\ config \in Configs
        /\ clock = 1
        /\ lle = [w \in Workers |-> 0]
        /\ pending = [w \in Workers |-> 0]
        /\ acc = [w \in Workers |-> 0]
        /\ m_sel = config.sel /\ selNow = 0 /\ selNew = {}
        /\ backlog = [l \in Workers |-> 0] /\ gaveUp = {}
        /\ ready = [w \in Workers |-> {}]
        /\ conns = [w \in Workers |-> {}]
        /\ pc = [w \in Workers |-> "boot"]
        /\ batch = [w \in Workers |-> {}] /\ cur = [w \in Workers |-> NoEvent]
        /\ now = [w \in Workers |-> 0] /\ loads = [w \in Workers |-> 0]
        /\ snap = [w \in Workers |-> EmptySnap]
        /\ hang = config.hang /\ shutdown = {}
        /\ faults = 0 /\ arrivals = 0

\* The epoll instance is created and the listener registered: connections
\* already queued are reported at once.
Boot(w) ==
    /\ pc[w] = "boot"
    /\ ready' = [ready EXCEPT ![w] = IF backlog[Listener(w)] > 0 THEN {Listen} ELSE {}]
    /\ Goto(w, "top")
    /\ UNCHANGED <<clock, wst, map, queues, conns, events, pass, rest, faults>>

\* A setup call fails and the worker exits before its first loop.
BootFails(w) ==
    /\ pc[w] = "boot" /\ Fault("boot")
    /\ Goto(w, "dead")
    /\ UNCHANGED <<clock, wst, map, kernel, conns, events, pass, rest>>

\* Process exit: the descriptors close with it, the slot stays as it is.
Leave(w, how) ==
    /\ Goto(w, how)
    /\ conns' = [conns EXCEPT ![w] = {}]
    /\ ready' = [ready EXCEPT ![w] = {}]

\* Mutation of LoopTop: the shutdown flag is not looked at.
LoopTopNoShutdown(w) ==
    /\ pc[w] = "top"
    /\ now' = [now EXCEPT ![w] = clock]
    /\ Goto(w, "stamp")
    /\ UNCHANGED <<clock, wst, map, kernel, conns, events, snap, loads, rest, faults>>

\* The top of the loop: leave when told to, otherwise read the clock.
LoopTop(w) ==
    /\ pc[w] = "top"
    /\ \/ /\ w \in shutdown
          /\ Leave(w, "exited")
          /\ UNCHANGED now
       \/ /\ w \notin shutdown
          /\ now' = [now EXCEPT ![w] = clock]
          /\ Goto(w, "stamp")
          /\ UNCHANGED <<conns, ready>>
    /\ UNCHANGED <<clock, wst, map, queues, events, snap, loads, rest, faults>>

\* Store the reading as the loop entry, however old it is by now, and run into
\* the injected hang or on to epoll_wait.
Stamp(w) ==
    /\ pc[w] = "stamp"
    /\ lle' = [lle EXCEPT ![w] = now[w]]
    /\ \/ /\ now' = [now EXCEPT ![w] = 0]
          /\ Goto(w, "wait")
       \/ /\ w \in hang /\ clock + HangTicks <= config.maxClock
          /\ now' = [now EXCEPT ![w] = clock]
          /\ Goto(w, "asleep")
    /\ UNCHANGED <<clock, pending, acc, map, kernel, conns, events, snap, loads, rest, faults>>

\* The hang is over: back to the top without having polled.
Wake(w) ==
    /\ pc[w] = "asleep" /\ clock - now[w] >= HangTicks
    /\ hang' = hang \ {w}
    /\ now' = [now EXCEPT ![w] = 0]
    /\ Goto(w, "top")
    /\ UNCHANGED <<clock, wst, map, kernel, conns, events, snap, loads, config, shutdown, faults>>

\* epoll_wait returns up to MaxEvents ready descriptors, none after the timeout.
\* Registrations are edge-triggered: what is returned leaves the ready list.
EpollWait(w) ==
    /\ pc[w] = "wait"
    /\ \E evs \in SUBSET ready[w] :
          /\ Cardinality(evs) = IF Cardinality(ready[w]) <= MaxEvents
                                THEN Cardinality(ready[w]) ELSE MaxEvents
          /\ batch' = [batch EXCEPT ![w] = evs]
          /\ ready' = [ready EXCEPT ![w] = @ \ evs]
          /\ Goto(w, IF evs = {} THEN "next" ELSE "count")
    /\ UNCHANGED <<clock, wst, map, queues, conns, cur, pass, rest, faults>>

\* Busy count += the number of events returned.
CountEvents(w) ==
    /\ pc[w] = "count"
    /\ pending' = [pending EXCEPT ![w] = @ + Cardinality(batch[w])]
    /\ Goto(w, "next")
    /\ UNCHANGED <<clock, lle, acc, map, kernel, conns, events, pass, rest, faults>>

\* epoll_wait fails with anything but EINTR, or a tick cannot be written: the
\* worker returns the error and its process exits.
WorkerFails(w) ==
    /\ pc[w] \in {"wait", "tick"} /\ Fault("fatal")
    /\ Leave(w, "dead")
    /\ UNCHANGED <<clock, wst, map, queues, events, pass, rest>>

\* Take the next event of the batch.
NextEvent(w) ==
    /\ pc[w] = "next"
    /\ \E e \in batch[w] :
          /\ batch' = [batch EXCEPT ![w] = @ \ {e}]
          /\ cur' = [cur EXCEPT ![w] = e]
          /\ Goto(w, IF e = Listen THEN "accept" ELSE "handle")
    /\ UNCHANGED <<clock, wst, map, kernel, conns, pass, rest, faults>>

\* accept4 succeeds, with the lowest free descriptor.
Accept(w) ==
    /\ pc[w] = "accept" /\ backlog[Listener(w)] > 0 /\ Fds \ conns[w] # {}
    /\ backlog' = [backlog EXCEPT ![Listener(w)] = @ - 1]
    /\ Goto(w, "accepted")
    /\ UNCHANGED <<clock, wst, map, ready, gaveUp, arrivals, conns, events, pass, rest, faults>>

\* Connection count += 1.
CountConn(w) ==
    /\ pc[w] = "accepted"
    /\ acc' = [acc EXCEPT ![w] = @ + 1]
    /\ Goto(w, "register")
    /\ UNCHANGED <<clock, lle, pending, map, kernel, conns, events, pass, rest, faults>>

LowestFree(w) == CHOOSE f \in Fds \ conns[w] : \A g \in Fds \ conns[w] : f <= g

\* Mutation of Register: one accept per event, as under level triggering.
RegisterOne(w) ==
    /\ pc[w] = "register"
    /\ conns' = [conns EXCEPT ![w] = @ \cup {LowestFree(w)}]
    /\ Goto(w, "retire")
    /\ UNCHANGED <<clock, wst, map, kernel, events, pass, rest, faults>>

\* The accepted descriptor is registered; it is ready at once if the client has
\* already sent something.
Register(w) ==
    /\ pc[w] = "register"
    /\ conns' = [conns EXCEPT ![w] = @ \cup {LowestFree(w)}]
    /\ \/ UNCHANGED ready
       \/ ready' = [ready EXCEPT ![w] = @ \cup {LowestFree(w)}]
    /\ Goto(w, "accept")
    /\ UNCHANGED <<clock, wst, map, queues, events, pass, rest, faults>>

\* Mutation of RegisterFails: the count is not taken back.
RegisterFailsNoRollback(w) ==
    /\ pc[w] = "register" /\ Fault("register")
    /\ Goto(w, "accept")
    /\ UNCHANGED <<clock, wst, map, kernel, conns, events, pass, rest>>

\* epoll_ctl fails: the descriptor is closed, the count taken back.
RegisterFails(w) ==
    /\ pc[w] = "register" /\ Fault("register")
    /\ acc' = [acc EXCEPT ![w] = @ - 1]
    /\ Goto(w, "accept")
    /\ UNCHANGED <<clock, lle, pending, map, kernel, conns, events, pass, rest>>

\* accept_all returns on an error and leaves what is queued behind.
GiveUp(w) == gaveUp' = gaveUp \cup {Listener(w)}

\* accept4 says EAGAIN, or fails because no descriptor is free: either way
\* accept_all returns.
AcceptDone(w) ==
    /\ pc[w] = "accept"
    /\ \/ backlog[Listener(w)] = 0 /\ UNCHANGED gaveUp
       \/ backlog[Listener(w)] > 0 /\ Fds \ conns[w] = {} /\ GiveUp(w)
    /\ Goto(w, "retire")
    /\ UNCHANGED <<clock, wst, map, backlog, ready, arrivals, conns, events, pass, rest, faults>>

\* accept4 fails in passing (ECONNABORTED, ENOBUFS, ...): accept_all returns.
AcceptFails(w) ==
    /\ pc[w] = "accept" /\ backlog[Listener(w)] > 0 /\ Fault("accept")
    /\ GiveUp(w)
    /\ Goto(w, "retire")
    /\ UNCHANGED <<clock, wst, map, backlog, ready, arrivals, conns, events, pass, rest>>

\* Mutations of HandleConn: a closed descriptor keeps its registration; the
\* connection count is taken down for every event.
HandleConnNoDel(w) ==
    /\ pc[w] = "handle"
    /\ \/ Goto(w, "retire") /\ UNCHANGED conns
       \/ Goto(w, "closed") /\ conns' = [conns EXCEPT ![w] = @ \ {cur[w]}]
    /\ UNCHANGED <<clock, wst, map, kernel, events, pass, rest, faults>>

HandleConnAlwaysCounts(w) ==
    /\ pc[w] = "handle"
    /\ Goto(w, "closed")
    /\ UNCHANGED <<clock, wst, map, kernel, conns, events, pass, rest, faults>>

\* handle_conn_event: what was readable is read and answered, and the connection
\* stays or, on hangup, end of stream, a bad request or a failed write, closes.
HandleConn(w) ==
    /\ pc[w] = "handle"
    /\ \/ /\ Goto(w, "retire")
          /\ UNCHANGED <<conns, ready>>
       \/ /\ Goto(w, "closed")
          /\ conns' = [conns EXCEPT ![w] = @ \ {cur[w]}]
          /\ ready' = [ready EXCEPT ![w] = @ \ {cur[w]}]
    /\ UNCHANGED <<clock, wst, map, queues, events, pass, rest, faults>>

\* Connection count -= 1 once it is closed.
UncountConn(w) ==
    /\ pc[w] = "closed"
    /\ acc' = [acc EXCEPT ![w] = @ - 1]
    /\ Goto(w, "retire")
    /\ UNCHANGED <<clock, lle, pending, map, kernel, conns, events, pass, rest, faults>>

\* Busy count -= 1 once the event is handled.
Retire(w) ==
    /\ pc[w] = "retire"
    /\ pending' = [pending EXCEPT ![w] = @ - 1]
    /\ cur' = [cur EXCEPT ![w] = NoEvent]
    /\ Goto(w, "next")
    /\ UNCHANGED <<clock, lle, acc, map, kernel, conns, batch, pass, rest, faults>>

\* The batch is done.  Under hermes schedule() starts, and the clock is read
\* before the table is; the other policies have no scheduler.
EndBatch(w) ==
    /\ pc[w] = "next" /\ batch[w] = {}
    /\ \/ /\ config.policy = "hermes"
          /\ now' = [now EXCEPT ![w] = clock]
          /\ Goto(w, "load")
       \/ /\ config.policy # "hermes"
          /\ Goto(w, "tick")
          /\ UNCHANGED now
    /\ UNCHANGED <<clock, wst, map, kernel, conns, events, snap, loads, rest, faults>>

\* snapshot_all, slot by slot: one relaxed load per step.  The worker's own slot
\* cannot change meanwhile, so its three loads are one step.
LoadField(w) ==
    /\ pc[w] = "load"
    /\ LET i == loads[w] \div 3
           f == loads[w] % 3
           read(field, table, copy) ==
               IF field = f \/ i = w THEN [copy EXCEPT ![i] = table[i]] ELSE copy
       IN  /\ snap' = [snap EXCEPT ![w] =
                 [lle     |-> read(0, lle, snap[w].lle),
                  pending |-> read(1, pending, snap[w].pending),
                  acc     |-> read(2, acc, snap[w].acc)]]
           /\ loads' = [loads EXCEPT ![w] = IF i = w THEN @ + 3 ELSE @ + 1]
           /\ Goto(w, IF loads'[w] = 3 * NumWorkers THEN "publish" ELSE "load")
    /\ UNCHANGED <<clock, wst, map, kernel, conns, events, now, rest, faults>>

\* The locals of a pass end with it.
EndPass(w) == /\ now' = [now EXCEPT ![w] = 0]
              /\ snap' = [snap EXCEPT ![w] = EmptySnap]
              /\ loads' = [loads EXCEPT ![w] = 0]

\* Algorithm 1 on what was read, and the map write.
Publish(w) ==
    /\ pc[w] = "publish"
    /\ m_sel' = ScheduleFromSnapshots(now[w], snap[w].lle, snap[w].pending,
                                      snap[w].acc).bitmap
    /\ selNow' = now[w] /\ selNew' = {i \in Workers : snap[w].lle[i] = 0}
    /\ EndPass(w)
    /\ Goto(w, "tick")
    /\ UNCHANGED <<clock, wst, kernel, conns, events, rest, faults>>

\* The map write fails: a warning, and the old bitmap stays.
PublishFails(w) ==
    /\ pc[w] = "publish" /\ Fault("publish")
    /\ EndPass(w)
    /\ Goto(w, "tick")
    /\ UNCHANGED <<clock, wst, map, kernel, conns, events, rest>>

\* The tick row is written and the iteration ends.
Tick(w) ==
    /\ pc[w] = "tick"
    /\ Goto(w, "top")
    /\ UNCHANGED <<clock, wst, map, kernel, conns, events, pass, rest, faults>>
-----------------------------------------------------------------------------
(* The environment: time, clients and signals. *)

Elapse == /\ clock < config.maxClock
          /\ clock' = clock + 1
          /\ UNCHANGED <<wst, map, kernel, conns, pc, events, pass, rest, faults>>

\* Where the kernel may put a connection with this hash: the worker the eBPF
\* program selects or, without a selection, any socket of the reuseport group.
Targets(hash) ==
    IF config.policy = "lifo" THEN {0}
    ELSE LET sel == IF config.policy = "hermes" THEN TrySelect(m_sel, hash) ELSE NoWorker
         IN  IF sel = NoWorker THEN Workers ELSE {sel}

\* Whose ready list an arrival on listener l enters.  Each owner's, except that
\* exclusive registrations stop at the first owner blocked in epoll_wait.
Notified(l) ==
    LET polling == {w \in Owners(l) : pc[w] \notin Stopped \cup {"boot"}}
        blocked == {w \in polling : pc[w] = "wait" /\ ready[w] = {}}
    IN  IF config.policy = "lifo" /\ blocked # {}
        THEN {S \in SUBSET polling : Cardinality(S \cap blocked) = 1}
        ELSE {polling}

\* A handshake completes and the connection is queued.
Arrive(hash) ==
    /\ arrivals < config.maxArrivals
    /\ arrivals' = arrivals + 1
    /\ \E l \in Targets(hash) : \E S \in Notified(l) :
          /\ backlog' = [backlog EXCEPT ![l] = @ + 1]
          /\ gaveUp' = gaveUp \ {l}
          /\ ready' = [w \in Workers |-> IF w \in S THEN ready[w] \cup {Listen} ELSE ready[w]]
    /\ UNCHANGED <<clock, wst, map, conns, pc, events, pass, rest, faults>>

\* A client sends on, or closes, an open connection.
ClientActs(w, fd) ==
    /\ fd \in conns[w] \ ready[w]
    /\ ready' = [ready EXCEPT ![w] = @ \cup {fd}]
    /\ UNCHANGED <<clock, wst, map, queues, conns, pc, events, pass, rest, faults>>

\* SIGTERM or SIGINT reaches a worker.
Signal(w) ==
    /\ w \notin shutdown /\ Fault("signal")
    /\ shutdown' = shutdown \cup {w}
    /\ UNCHANGED <<clock, wst, map, kernel, conns, pc, events, pass, config, hang>>
-----------------------------------------------------------------------------
\* The steps a running worker takes by itself.
Progress(w) == \/ Boot(w) \/ LoopTop(w) \/ Stamp(w) \/ Wake(w) \/ EpollWait(w)
               \/ CountEvents(w) \/ NextEvent(w) \/ Accept(w) \/ CountConn(w)
               \/ Register(w) \/ AcceptDone(w) \/ HandleConn(w) \/ UncountConn(w)
               \/ Retire(w) \/ EndBatch(w) \/ LoadField(w) \/ Publish(w) \/ Tick(w)

Failure(w) == \/ BootFails(w) \/ WorkerFails(w) \/ RegisterFails(w)
              \/ AcceptFails(w) \/ PublishFails(w)

Environment == \/ Elapse
               \/ \E h \in Hash : Arrive(h)
               \/ \E w \in Workers : Signal(w) \/ \E fd \in Fds : ClientActs(w, fd)

Next == (\E w \in Workers : Progress(w) \/ Failure(w)) \/ Environment

Spec == Init /\ [][Next]_vars

\* Every worker is scheduled by the operating system and blocks for a bounded
\* time only; the clock runs.  The kernel's ready list is first-in first-out, so
\* a listener that stays ready is returned although connections keep the list
\* full.  Nothing is assumed of clients, signals and failures.
Fairness == /\ WF_vars(Elapse)
            /\ \A w \in Workers : /\ WF_vars(Progress(w))
                                  /\ SF_vars(EpollWait(w) /\ Listen \in batch'[w])

FairSpec == Spec /\ Fairness
-----------------------------------------------------------------------------
Pcs == {"boot", "top", "stamp", "asleep", "wait", "count", "next", "accept",
        "accepted", "register", "handle", "closed", "retire", "load", "publish",
        "tick"} \cup Stopped

TypeOK ==
    /\ config \in Configs
    /\ clock \in Nat \ {0}
    /\ lle \in [Workers -> Nat]
    /\ pending \in [Workers -> Nat] /\ acc \in [Workers -> Nat]
    /\ m_sel \subseteq Workers /\ selNow \in Nat /\ selNew \subseteq Workers
    /\ backlog \in [Workers -> Nat] /\ gaveUp \subseteq Workers
    /\ ready \in [Workers -> SUBSET (Fds \cup {Listen})]
    /\ conns \in [Workers -> SUBSET Fds]
    /\ pc \in [Workers -> Pcs]
    /\ batch \in [Workers -> SUBSET (Fds \cup {Listen})]
    /\ cur \in [Workers -> Fds \cup {Listen, NoEvent}]
    /\ now \in [Workers -> Nat]
    /\ snap \in [Workers -> [lle : [Workers -> Nat],
                             pending : [Workers -> Nat], acc : [Workers -> Nat]]]
    /\ loads \in [Workers -> 0 .. 3 * NumWorkers]
    /\ hang \subseteq Workers /\ shutdown \subseteq Workers
    /\ faults \in Nat /\ arrivals \in Nat

\* The counters other workers schedule by are what the worker really holds,
\* through every failure path and but for the one it is about to count: the
\* connection count is its open connections, and the busy count its unfinished
\* events, also after it has stopped.
Accounting ==
    \A w \in Workers :
        /\ Alive(w) => acc[w] = Cardinality(conns[w])
                                  + (IF pc[w] \in {"register", "closed"} THEN 1 ELSE 0)
        /\ pending[w] = IF pc[w] = "count" THEN 0
                        ELSE Cardinality(batch[w]) + (IF cur[w] = NoEvent THEN 0 ELSE 1)

\* An event is handled for a connection that is still in the table, although
\* descriptors are reused as soon as they are closed: otherwise the bytes read
\* would be dropped and the connection count taken down twice.
NoStaleEvent ==
    \A w \in Workers :
        /\ batch[w] \ {Listen} \subseteq conns[w]
        /\ pc[w] = "handle" => cur[w] \in conns[w]

\* Edge triggering misses nothing: while a connection waits in a queue, some
\* worker that accepts from it has been or will be told, whatever arrived in
\* between (accept_all runs until EAGAIN).  The exceptions are a worker that has
\* stopped and a queue accept_all has left on an error.
NoLostWakeup ==
    \A l \in Workers : backlog[l] > 0 =>
        \/ l \in gaveUp
        \/ \E w \in Owners(l) :
              \/ ~Alive(w)
              \/ pc[w] \in {"boot", "accept", "accepted", "register"}
              \/ Listen \in ready[w] \cup batch[w]

\* No worker that was already hung when the published pass read the clock is a
\* candidate, although the table is read without locks while it changes and a
\* stamp may be old when it is stored.  The exception is a slot the pass found
\* never stamped: its worker may have read the clock long before.
PublishedFresh ==
    selNow > 0 => \A w \in m_sel : w \in selNew \/ LooksAlive(selNow, lle[w])

\* A worker in its injected hang that the published pass has evicted stays out
\* until it recovers: it is not readmitted before it enters its loop again.
ReadmitOnlyAfterRecovery ==
    [][\A w \in m_sel' \ m_sel :
          pc[w] = "asleep" => LooksAlive(selNow, lle[w])]_vars

AllStopped == \A v \in Workers : ~Alive(v)

\* The bit of a worker that dies in its loop leaves M_Sel for good, as long as
\* another worker runs: nobody restarts it, and no late publication sets the bit
\* again.  (Its listener stays in the reuseport group all the same, and with one
\* candidate or none left the kernel falls back to the whole group.)
DeadEvicted ==
    <>[](AllStopped \/ \A w \in m_sel :
            ~(pc[w] = "dead" /\ lle[w] > 0 /\ lle[w] + HangThreshold <= config.maxClock))

\* A hermes server with no connections recovers from an injected hang, a
\* left-over bitmap or a failed map write by itself: in the end every worker is a
\* candidate, unless one of them has stopped.
AllReadmitted ==
    <>[](\/ m_sel = Workers
         \/ config.policy # "hermes"
         \/ \E w \in Workers : acc[w] > 0 \/ ~Alive(w))

\* A queued connection is accepted while the workers of its listener run and
\* accept4 does not fail on it.
ConnsAccepted ==
    \A l \in Workers :
        []<>(backlog[l] = 0 \/ l \in gaveUp \/ \E w \in Owners(l) : ~Alive(w))

\* accept_all's promise without the second exception: "Accept until EAGAIN", so
\* that no queued connection is missed, whatever accept4 returns.
AcceptedUntilEagain ==
    \A l \in Workers : []<>(backlog[l] = 0 \/ \E w \in Owners(l) : ~Alive(w))

\* A worker that is told to stop does, from wherever it is in its loop.
ShutdownCompletes == <>[](\A w \in shutdown : ~Alive(w))

=============================================================================
