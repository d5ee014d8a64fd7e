------------------------------- MODULE Bench -------------------------------
(***************************************************************************)
(* The load generator hermes-bench against a running load balancer: main   *)
(* paces the connections, one task per connection (client.rs) talks to the *)
(* balancer and reports what became of each request, and a collector       *)
(* writes the reports to the CSV file and sums them up.                    *)
(*                                                                         *)
(* The clock ticks in units of the arrival interval.  It may advance       *)
(* between any two steps, so a task may wake late and a response take      *)
(* arbitrarily long.  The balancer is reduced to what a client sees of it: *)
(* a listener per worker, which the supervisor keeps open when its worker  *)
(* dies, and workers that accept and answer.                               *)
(***************************************************************************)
EXTENDS Workload, Sequences, FiniteSets

CONSTANTS Configs,      \* the profiles a run may have, in ticks
          Grace,        \* GRACE, in ticks
          Workers,      \* the balancer's workers
          Faults,       \* the kinds of failure that may happen
          MaxFaults     \* bound: failures in one behaviour

ASSUME ConfigsAssumption ==
    \A c \in Configs : /\ c.duration \in Nat \ {0} /\ c.lifetime \in Nat
                       /\ c.burst \in Nat \cup {NoBurst}
ASSUME BoundsAssumption == Grace \in Nat /\ MaxFaults \in Nat /\ Workers # {}

VARIABLES
    config, clock,      \* the profile of this run; ticks since gen_start
    gpc, spawned,       \* main, and how many connections it has spawned
    task, fired,        \* each connection's task; burst_fired
    chan,               \* rows sent to the collector and not received
    cpc, csv, summary,  \* the collector, the rows of its file, its counts
    link, owner,        \* each connection at the balancer; whose listener it is
    req, resp,          \* a request is unanswered; a response is unread
    up, dead,           \* the balancer listens; its workers that have died
    faults              \* what the bound counts

mainv    == <<gpc, spawned>>
tasks    == <<task, fired>>
collectv == <<cpc, csv, summary>>
lb       == <<link, owner, req, resp, up, dead>>
vars     == <<config, clock, mainv, tasks, chan, collectv, lb, faults>>

\* One connection per tick of the duration.
Conns == UNION {0 .. c.duration - 1 : c \in Configs}
NoOwner == "none"

Fault(kind) == /\ kind \in Faults /\ faults < MaxFaults
               /\ faults' = faults + 1

TGoto(c, l) == task' = [task EXCEPT ![c] = l]

\* When every connection closes.
CloseAt == IF config.lifetime < config.duration + Grace
           THEN config.lifetime ELSE config.duration + Grace

\* A task reports; nobody minds when the collector is gone.
Report(c, kind) == chan' = IF cpc = "failed" THEN chan ELSE Append(chan, [conn |-> c, kind |-> kind])
-----------------------------------------------------------------------------
Init == /\ config \in Configs /\ clock = 0
        /\ gpc = "gen" /\ spawned = 0
        /\ task = [c \in Conns |-> "none"] /\ fired = [c \in Conns |-> FALSE]
        /\ chan = <<>> /\ cpc = "recv" /\ csv = <<>>
        /\ summary = [completed |-> 0, errors |-> 0, drops |-> 0]
        /\ link = [c \in Conns |-> "none"] /\ owner = [c \in Conns |-> NoOwner]
        /\ req = [c \in Conns |-> FALSE] /\ resp = [c \in Conns |-> FALSE]
        /\ up = TRUE /\ dead = {}
        /\ faults = 0

(* main *)

\* Mutation of Spawn: the loop runs once more.
SpawnOneMore ==
    /\ gpc = "gen" /\ spawned <= config.duration /\ clock >= spawned
    /\ spawned' = spawned + 1
    /\ TGoto(spawned, "connect")
    /\ UNCHANGED <<config, clock, gpc, fired, chan, collectv, lb, faults>>

\* The next arrival is due: its task is spawned, with a clone of the sender.
Spawn ==
    /\ gpc = "gen" /\ spawned < config.duration /\ clock >= spawned
    /\ spawned' = spawned + 1
    /\ TGoto(spawned, "connect")
    /\ UNCHANGED <<config, clock, gpc, fired, chan, collectv, lb, faults>>

\* The duration is over: main drops its own sender and waits for the collector.
EndGenerate ==
    /\ gpc = "gen" /\ spawned = config.duration
    /\ gpc' = "drain"
    /\ UNCHANGED <<config, clock, spawned, tasks, chan, collectv, lb, faults>>

\* The collector has returned and main does: with the summary, or with the
\* error, in which case the runtime cancels the tasks that are left.
Return ==
    /\ gpc = "drain" /\ cpc \in {"done", "failed"}
    /\ gpc' = IF cpc = "done" THEN "ok" ELSE "err"
    /\ task' = [c \in Conns |-> IF task[c] = "none" THEN "none" ELSE "gone"]
    /\ link' = [c \in Conns |-> "none"]
    /\ UNCHANGED <<config, clock, spawned, fired, chan, collectv, owner, req, resp, up, dead, faults>>
-----------------------------------------------------------------------------
(* A connection's task *)

\* The handshake completes with some worker's listener, a dead one's included.
Connect(c) ==
    /\ task[c] = "connect" /\ up
    /\ \E w \in Workers : owner' = [owner EXCEPT ![c] = w]
    /\ link' = [link EXCEPT ![c] = "queued"]
    /\ TGoto(c, "write")
    /\ UNCHANGED <<config, clock, mainv, fired, chan, collectv, req, resp, up, dead, faults>>

\* connect fails: nobody listens, or the client is out of resources.
ConnectFails(c) ==
    /\ task[c] = "connect"
    /\ \/ ~up /\ UNCHANGED faults
       \/ Fault("connect")
    /\ Report(c, "drop")
    /\ TGoto(c, "gone")
    /\ UNCHANGED <<config, clock, mainv, fired, collectv, lb>>

\* The request is written.  Towards a connection the peer has closed this may
\* still succeed.
Send(c) ==
    /\ task[c] = "write"
    /\ req' = [req EXCEPT ![c] = TRUE]
    /\ TGoto(c, "read")
    /\ UNCHANGED <<config, clock, mainv, fired, chan, collectv, link, owner, resp, up, dead, faults>>

\* write_all or read_exact fails on a connection the balancer has closed.
RequestFails(c) ==
    /\ task[c] \in {"write", "read"} /\ link[c] = "reset"
    /\ Report(c, "error")
    /\ TGoto(c, "gone")
    /\ UNCHANGED <<config, clock, mainv, fired, collectv, lb, faults>>

\* The response is read and reported.
Receive(c) ==
    /\ task[c] = "read" /\ resp[c]
    /\ resp' = [resp EXCEPT ![c] = FALSE]
    /\ Report(c, IF fired[c] THEN "burst" ELSE "accept")
    /\ TGoto(c, "hold")
    /\ UNCHANGED <<config, clock, mainv, fired, collectv, link, owner, req, up, dead, faults>>

\* select!, the close branch: the deadline has passed.
Close(c) ==
    /\ task[c] = "hold" /\ clock >= CloseAt
    /\ link' = [link EXCEPT ![c] = "none"]
    /\ TGoto(c, "gone")
    /\ UNCHANGED <<config, clock, mainv, fired, chan, collectv, owner, req, resp, up, dead, faults>>

\* Mutation of Burst: the flag is not set.
BurstAgain(c) ==
    /\ task[c] = "hold" /\ config.burst # NoBurst /\ clock >= config.burst
    /\ TGoto(c, "write")
    /\ UNCHANGED <<config, clock, mainv, fired, chan, collectv, lb, faults>>

\* select!, the burst branch, which is there until it has fired once.  When both
\* branches are ready either may be taken.
Burst(c) ==
    /\ task[c] = "hold" /\ ~fired[c]
    /\ config.burst # NoBurst /\ clock >= config.burst
    /\ fired' = [fired EXCEPT ![c] = TRUE]
    /\ TGoto(c, "write")
    /\ UNCHANGED <<config, clock, mainv, chan, collectv, lb, faults>>
-----------------------------------------------------------------------------
(* The collector *)

\* A row is written and counted by its kind.
RecvRow ==
    /\ cpc = "recv" /\ chan # <<>>
    /\ chan' = Tail(chan)
    /\ LET row == Head(chan)
       IN  /\ csv' = Append(csv, row)
           /\ summary' = CASE row.kind = "drop"  -> [summary EXCEPT !.drops = @ + 1]
                           [] row.kind = "error" -> [summary EXCEPT !.errors = @ + 1]
                           [] OTHER              -> [summary EXCEPT !.completed = @ + 1]
    /\ UNCHANGED <<config, clock, mainv, tasks, cpc, lb, faults>>

\* Every sender has been dropped: main's, and the clone of each task.
SendersGone == gpc # "gen" /\ \A c \in Conns : task[c] \in {"none", "gone"}

\* Mutations of RecvEnd: an empty channel is taken for a closed one; main's own
\* sender is never dropped.
RecvEndWhenEmpty ==
    /\ cpc = "recv" /\ chan = <<>> /\ gpc # "gen"
    /\ cpc' = "done"
    /\ UNCHANGED <<config, clock, mainv, tasks, chan, csv, summary, lb, faults>>


\* recv returns None: the channel is empty and has no sender left.
RecvEnd ==
    /\ cpc = "recv" /\ chan = <<>> /\ SendersGone
    /\ cpc' = "done"
    /\ UNCHANGED <<config, clock, mainv, tasks, chan, csv, summary, lb, faults>>

\* The file cannot be created, written or flushed: the receiver is dropped with
\* all it holds.
CollectFails ==
    /\ cpc = "recv" /\ Fault("file")
    /\ cpc' = "failed" /\ chan' = <<>>
    /\ UNCHANGED <<config, clock, mainv, tasks, csv, summary, lb>>
-----------------------------------------------------------------------------
(* The environment: time and the balancer *)

\* Past the last deadline nothing depends on the clock.
Elapse ==
    /\ clock < CloseAt \/ clock < config.burst \/ clock < config.duration
    /\ clock' = clock + 1
    /\ UNCHANGED <<config, mainv, tasks, chan, collectv, lb, faults>>

\* The owner of the listener accepts ...
LbAccepts(c) ==
    /\ link[c] = "queued" /\ owner[c] \notin dead
    /\ link' = [link EXCEPT ![c] = "held"]
    /\ UNCHANGED <<config, clock, mainv, tasks, chan, collectv, owner, req, resp, up, dead, faults>>

\* ... and answers.
LbAnswers(c) ==
    /\ link[c] = "held" /\ req[c]
    /\ req' = [req EXCEPT ![c] = FALSE] /\ resp' = [resp EXCEPT ![c] = TRUE]
    /\ UNCHANGED <<config, clock, mainv, tasks, chan, collectv, link, owner, up, dead, faults>>

\* A worker dies: what it had accepted is reset, what is queued stays queued.
WorkerDies(w) ==
    /\ w \notin dead /\ up /\ Fault("worker")
    /\ dead' = dead \cup {w}
    /\ link' = [c \in Conns |-> IF link[c] = "held" /\ owner[c] = w THEN "reset" ELSE link[c]]
    /\ UNCHANGED <<config, clock, mainv, tasks, chan, collectv, owner, req, resp, up>>

\* The balancer stops and the kernel resets whatever it had.
LbStops ==
    /\ up /\ Fault("stop")
    /\ up' = FALSE /\ dead' = Workers
    /\ link' = [c \in Conns |-> IF link[c] \in {"queued", "held"} THEN "reset" ELSE link[c]]
    /\ UNCHANGED <<config, clock, mainv, tasks, chan, collectv, owner, req, resp>>
-----------------------------------------------------------------------------
Main == Spawn \/ EndGenerate \/ Return

Task(c) == \/ Connect(c) \/ ConnectFails(c) \/ Send(c) \/ RequestFails(c) \/ Receive(c)
           \/ Close(c) \/ Burst(c)

Collector == RecvRow \/ RecvEnd

Next == \/ Main \/ Collector \/ CollectFails \/ Elapse \/ LbStops
        \/ \E c \in Conns : Task(c) \/ LbAccepts(c) \/ LbAnswers(c)
        \/ \E w \in Workers : WorkerDies(w)

Spec == Init /\ [][Next]_vars

\* The runtime polls every task that can go on, time passes, and a worker that is
\* alive accepts and answers (ConnsAccepted, EveryRequestAnswered).
FairSpec == /\ Spec
            /\ WF_vars(Main) /\ WF_vars(Collector) /\ WF_vars(Elapse)
            /\ \A c \in Conns : WF_vars(Task(c)) /\ WF_vars(LbAccepts(c)) /\ WF_vars(LbAnswers(c))
-----------------------------------------------------------------------------
Kinds == {"accept", "burst", "error", "drop"}

TypeOK ==
    /\ config \in Configs /\ clock \in Nat
    /\ gpc \in {"gen", "drain", "ok", "err"} /\ spawned \in 0 .. config.duration
    /\ task \in [Conns -> {"none", "connect", "write", "read", "hold", "gone"}]
    /\ fired \in [Conns -> BOOLEAN]
    /\ chan \in Seq([conn : Conns, kind : Kinds]) /\ csv \in Seq([conn : Conns, kind : Kinds])
    /\ cpc \in {"recv", "done", "failed"}
    /\ summary \in [completed : Nat, errors : Nat, drops : Nat]
    /\ link \in [Conns -> {"none", "queued", "held", "reset"}]
    /\ owner \in [Conns -> Workers \cup {NoOwner}]
    /\ req \in [Conns -> BOOLEAN] /\ resp \in [Conns -> BOOLEAN]
    /\ up \in BOOLEAN /\ dead \subseteq Workers /\ faults \in 0 .. MaxFaults

\* The reports of all connections in their order, written or still in the channel.
Reports == csv \o chan

ReportsOf(c) == {i \in 1 .. Len(Reports) : Reports[i].conn = c}

\* A connection reports once per request, in order, and stops at the first failure:
\* a burst only after an answered first request and at most once, whatever resets
\* and deadlines it meets; and a task that is over has reported how its first
\* request went, so no connection ends unseen (run_connection, fire_request).
ReportsFollowProtocol ==
    cpc # "failed" => \A c \in Conns :
        /\ \A i, j \in ReportsOf(c) : i < j =>
              /\ config.burst # NoBurst /\ Reports[i].kind = "accept"
              /\ Reports[j].kind \in {"burst", "error"}
        /\ \A j \in ReportsOf(c) : Reports[j].kind = "burst" => \E i \in ReportsOf(c) : i < j
        /\ task[c] = "gone" => ReportsOf(c) # {}
        /\ task[c] = "hold" => \E j \in ReportsOf(c) :
              /\ Reports[j].kind = IF fired[c] THEN "burst" ELSE "accept"
              /\ \A i \in ReportsOf(c) : i <= j

RowsOf(c) == {i \in 1 .. Len(csv) : csv[i].conn = c}

\* When main reports success the file accounts for every connection it generated,
\* although the tasks are detached and outlive the generator, and the summary
\* agrees with the file (drop(tx), collect, generated= ... of main).
RunAccounted ==
    gpc = "ok" =>
        /\ \A c \in Conns : RowsOf(c) # {} <=> c < spawned
        /\ summary.drops = Cardinality({c \in Conns : \E i \in RowsOf(c) : csv[i].kind = "drop"})
        /\ summary.completed + summary.errors + summary.drops
             = spawned + Cardinality({c \in Conns : \E i, j \in RowsOf(c) : i # j})

\* The benchmark has returned, with or without success.
Ended == gpc \in {"ok", "err"}

\* What the comment on the detached tasks says of waiting for the collector:
\* "collect() only returns once every task's tx clone has dropped, and a panicking
\* task still drops its clone during unwind, so this can't hang".
BenchEnds == <>Ended

\* A request waits in the queue of a worker that has died.
Stranded == \E c \in Conns : task[c] = "read" /\ link[c] = "queued" /\ owner[c] \in dead


=============================================================================
