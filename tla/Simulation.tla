----------------------------- MODULE Simulation -----------------------------
(***************************************************************************)
(* The userspace simulation: a generator process that dispatches synthetic *)
(* connections into the workers' accept queues, and the worker processes   *)
(* that drain them (generator.rs, worker.rs, main.rs of                    *)
(* userspace_simulation).                                                  *)
(*                                                                         *)
(* A queue is the bounded fifo that the ring buffer implements (ConnQueue).*)
(* Time is left out: a lifetime may end, a burst may fire, a poll may time *)
(* out whenever a worker looks, and a scheduling pass, whose outcome       *)
(* depends on time, may publish any bitmap.  An injected hang is a worker  *)
(* that rests at the top of its loop.  The shard of a worker is the number *)
(* of its rows that reached the file.                                      *)
(***************************************************************************)
EXTENDS Dispatcher, Workload, FiniteSetsExt, Sequences

CONSTANTS Configs,      \* what the program may be started with, and on
          QueueCap,     \* QUEUE_CAP
          MaxEvents,    \* MAX_EVENTS of one simulated epoll_wait
          MaxConns      \* bound: connections generated

\* weak: the machine may reorder relaxed loads.  fails: fork and file operations may
\* fail.
ASSUME ConfigsAssumption ==
    Configs \subseteq [policy : {"hermes", "reuseport", "lifo"}, case : Cases,
                       weak : BOOLEAN, fails : BOOLEAN]
ASSUME BoundsAssumption == /\ QueueCap \in Nat \ {0} /\ MaxEvents \in Nat \ {0}
                           /\ MaxConns \in Nat

VARIABLES
    config,             \* the member of Configs this run is
    gpc, target,        \* the parent, and the worker it forks, looks at or settled on
    depth,              \* the queue depths it has read
    generated,          \* connections so far; the next one's id
    dispatched, drops,  \* per worker: connections sent its way, refused
    queue,              \* the accept queues
    msel, shutdown,     \* the simulated M_Sel map; all traffic has been sent
    pending, acc,       \* the worker status table
    wpc, batch, cur,    \* the workers: place, events in hand, event in service
    open,               \* the connections each worker holds open
    due, backlog,       \* workers whose burst is to come; follow-ups to serve
    sawEmpty,           \* what a worker's early load of its queue showed
    served, bursts,     \* the rows each worker records: accepts, follow-ups
    shard,              \* how many of them are in the worker's shard file
    lost,               \* history: some shard was cut short, or not merged
    completed           \* completed_per_worker of the run summary

generator == <<gpc, target, depth, generated, dispatched, drops, shutdown>>
table     == <<pending, acc>>
conns     == <<open, due, backlog>>
rows      == <<served, bursts>>
files     == <<shard, lost>>
vars == <<config, generator, queue, msel, table, wpc, batch, cur, conns, sawEmpty, rows, files, completed>>

Ids == 0 .. MaxConns - 1
NoConn == -1

WGoto(w, l) == wpc' = [wpc EXCEPT ![w] = l]

\* The profile has a burst; its connections outlive the run.
Bursts == BaseCase[config.case].burst # NoBurst
LongLived == BaseCase[config.case].lifetime > BaseCase[config.case].duration

AtMost(n) == IF n <= MaxEvents THEN n ELSE MaxEvents
-----------------------------------------------------------------------------
Init == /\ config \in Configs
        /\ gpc = "fork" /\ target = 0 /\ generated = 0
        /\ depth = [w \in Workers |-> 0]
        /\ dispatched = [w \in Workers |-> 0] /\ drops = [w \in Workers |-> 0]
        /\ queue = [w \in Workers |-> <<>>]
        /\ msel = {} /\ shutdown = FALSE
        /\ pending = [w \in Workers |-> 0] /\ acc = [w \in Workers |-> 0]
        /\ wpc = [w \in Workers |-> "none"] /\ batch = [w \in Workers |-> {}]
        /\ cur = [w \in Workers |-> NoConn]
        /\ open = [w \in Workers |-> {}]
        /\ due = (IF Bursts THEN Workers ELSE {})
        /\ backlog = [w \in Workers |-> {}]
        /\ sawEmpty = [w \in Workers |-> FALSE]
        /\ served = [w \in Workers |-> {}] /\ bursts = [w \in Workers |-> 0]
        /\ shard = [w \in Workers |-> 0] /\ lost = FALSE
        /\ completed = [w \in Workers |-> 0]

(* The parent. *)

\* The next worker is forked and starts at once; traffic waits for all of them.
Fork ==
    /\ gpc = "fork"
    /\ WGoto(target, "top")
    /\ IF target < NumWorkers - 1 THEN gpc' = "fork" /\ target' = target + 1
                                  ELSE gpc' = "gen" /\ target' = 0
    /\ UNCHANGED <<depth, generated, dispatched, drops, shutdown, queue, msel, table,
                   batch, cur, conns, sawEmpty, rows, files, completed>>

\* fork fails and the parent panics; nobody stops the workers that are there.
ForkFails ==
    /\ gpc = "fork" /\ config.fails
    /\ gpc' = "panicked"
    /\ UNCHANGED <<target, depth, generated, dispatched, drops, shutdown, queue, msel, table,
                   wpc, batch, cur, conns, sawEmpty, rows, files, completed>>

\* A connection arrives and dispatch picks its worker; epoll exclusive scans.
Dispatch(hash) ==
    /\ gpc = "gen" /\ generated < MaxConns
    /\ \/ /\ config.policy = "hermes"
          /\ gpc' = "push" /\ target' = DispatchHermes(msel, hash)
       \/ /\ config.policy = "reuseport"
          /\ gpc' = "push" /\ target' = ReuseportHash(hash)
       \/ /\ config.policy = "lifo"
          /\ gpc' = "scan" /\ target' = NumWorkers - 1
    /\ UNCHANGED <<depth, generated, dispatched, drops, shutdown, queue, msel, table,
                   wpc, batch, cur, conns, sawEmpty, rows, files, completed>>

\* Not this worker: on down the wait queue.
ScanOn == IF target = 0 THEN gpc' = "fallback" /\ UNCHANGED target
                        ELSE gpc' = "scan" /\ target' = target - 1

\* Down the wait queue, the first idle worker is woken: its queue is looked at ...
ScanIdle ==
    /\ gpc = "scan"
    /\ \/ /\ queue[target] = <<>>
          /\ gpc' = "scanBusy" /\ UNCHANGED target
       \/ queue[target] # <<>> /\ ScanOn
    /\ UNCHANGED <<depth, generated, dispatched, drops, shutdown, queue, msel, table,
                   wpc, batch, cur, conns, sawEmpty, rows, files, completed>>

\* ... and then its busy count.
ScanBusy ==
    /\ gpc = "scanBusy"
    /\ \/ /\ pending[target] = 0
          /\ gpc' = "push" /\ UNCHANGED target
       \/ pending[target] # 0 /\ ScanOn
    /\ UNCHANGED <<depth, generated, dispatched, drops, shutdown, queue, msel, table,
                   wpc, batch, cur, conns, sawEmpty, rows, files, completed>>

\* Nobody is idle: the depths are read, one per step, and the shortest wins.
Fallback ==
    /\ gpc = "fallback"
    /\ LET read == [depth EXCEPT ![target] = Len(queue[target])]
       IN  IF target < NumWorkers - 1
           THEN /\ gpc' = "fallback" /\ target' = target + 1
                /\ depth' = read
           ELSE /\ gpc' = "push" /\ target' = ShortestBacklog(read)
                /\ depth' = [w \in Workers |-> 0]
    /\ UNCHANGED <<generated, dispatched, drops, shutdown, queue, msel, table,
                   wpc, batch, cur, conns, sawEmpty, rows, files, completed>>

\* Mutations of Push: no overflow; an overflow counted in the total only.
PushUnbounded ==
    /\ gpc = "push"
    /\ dispatched' = [dispatched EXCEPT ![target] = @ + 1]
    /\ queue' = [queue EXCEPT ![target] = Append(@, generated)]
    /\ generated' = generated + 1 /\ gpc' = "gen"
    /\ UNCHANGED <<target, depth, drops, shutdown, msel, table, wpc, batch, cur, conns,
                   sawEmpty, rows, files, completed>>

PushDropUncounted ==
    /\ gpc = "push"
    /\ dispatched' = [dispatched EXCEPT ![target] = @ + 1]
    /\ queue' = IF Len(queue[target]) < QueueCap
                THEN [queue EXCEPT ![target] = Append(@, generated)] ELSE queue
    /\ generated' = generated + 1 /\ gpc' = "gen"
    /\ UNCHANGED <<target, depth, drops, shutdown, msel, table, wpc, batch, cur, conns,
                   sawEmpty, rows, files, completed>>

\* The connection is queued, or dropped when the queue is full.
Push ==
    /\ gpc = "push"
    /\ dispatched' = [dispatched EXCEPT ![target] = @ + 1]
    /\ \/ /\ Len(queue[target]) < QueueCap
          /\ queue' = [queue EXCEPT ![target] = Append(@, generated)]
          /\ UNCHANGED drops
       \/ /\ Len(queue[target]) >= QueueCap
          /\ drops' = [drops EXCEPT ![target] = @ + 1]
          /\ UNCHANGED queue
    /\ generated' = generated + 1 /\ gpc' = "gen"
    /\ UNCHANGED <<target, depth, shutdown, msel, table, wpc, batch, cur, conns,
                   sawEmpty, rows, files, completed>>

\* The run's duration is over.
RequestShutdown ==
    /\ gpc = "gen" /\ generated > 0
    /\ shutdown' = TRUE /\ gpc' = "wait"
    /\ UNCHANGED <<target, depth, generated, dispatched, drops, queue, msel, table,
                   wpc, batch, cur, conns, sawEmpty, rows, files, completed>>

\* completed_per_worker: the rows of the shards that can be opened, merged and
\* counted; the others are skipped.
CompletedPerWorker(opened) == [w \in Workers |-> IF w \in opened THEN shard[w] ELSE 0]

\* Mutation of Summarize: the first child only is waited for.
SummarizeFirstReaped ==
    /\ gpc = "wait" /\ wpc[0] = "exited"
    /\ gpc' = "done"
    /\ completed' = CompletedPerWorker(Workers)
    /\ UNCHANGED <<target, depth, generated, dispatched, drops, shutdown, queue, msel, table,
                   wpc, batch, cur, conns, sawEmpty, rows, files>>

Reaped == \A w \in Workers : wpc[w] = "exited"

\* waitpid for every child, then the shards are merged and the merged rows
\* counted per worker.
Summarize ==
    /\ gpc = "wait" /\ Reaped
    /\ gpc' = "done"
    /\ completed' = CompletedPerWorker(Workers)
    /\ UNCHANGED <<target, depth, generated, dispatched, drops, shutdown, queue, msel, table,
                   wpc, batch, cur, conns, sawEmpty, rows, files>>

\* Some shards cannot be opened; or one cannot be read, or the merged file not be
\* written, and the summary is made from no rows at all.
MergeFails ==
    /\ gpc = "wait" /\ Reaped /\ config.fails
    /\ \E opened \in SUBSET Workers : completed' = CompletedPerWorker(opened)
    /\ gpc' = "done" /\ lost' = TRUE
    /\ UNCHANGED <<target, depth, generated, dispatched, drops, shutdown, queue, msel, table,
                   wpc, batch, cur, conns, sawEmpty, rows, shard>>
-----------------------------------------------------------------------------
(* A worker. *)

\* Mutation of LoopTop: a connection that expires is not counted off.
LoopTopNoUncount(w) ==
    /\ wpc[w] = "top"
    /\ \E closed \in SUBSET open[w] : open' = [open EXCEPT ![w] = @ \ closed]
    /\ WGoto(w, "poll")
    /\ UNCHANGED <<generator, queue, msel, table, batch, cur, due, backlog, sawEmpty,
                   rows, files, completed>>

\* The top of the loop: expired connections close, the burst may fire, and ready
\* follow-ups go before the accept queue.
LoopTop(w) ==
    /\ wpc[w] = "top"
    /\ \E closed \in IF LongLived THEN {{}} ELSE SUBSET open[w] :
          /\ open' = [open EXCEPT ![w] = @ \ closed]
          /\ acc' = [acc EXCEPT ![w] = @ - Cardinality(closed)]
    /\ \/ UNCHANGED <<due, backlog>>
       \/ /\ w \in due
          /\ due' = due \ {w}
          /\ backlog' = [backlog EXCEPT ![w] = open'[w]]
    /\ WGoto(w, IF backlog'[w] # {} THEN "burst" ELSE "poll")
    /\ UNCHANGED <<generator, queue, msel, pending, batch, cur, sawEmpty, rows, files, completed>>

\* A batch of follow-ups.
TakeBurst(w) ==
    /\ wpc[w] = "burst"
    /\ \E ids \in kSubset(AtMost(Cardinality(backlog[w])), backlog[w]) :
          /\ batch' = [batch EXCEPT ![w] = ids]
          /\ backlog' = [backlog EXCEPT ![w] = @ \ ids]
          /\ pending' = [pending EXCEPT ![w] = @ + Cardinality(ids)]
    /\ WGoto(w, "follow")
    /\ UNCHANGED <<generator, queue, msel, acc, cur, open, due, sawEmpty, rows, files, completed>>

\* A follow-up has been served.
ServeBurst(w) ==
    /\ wpc[w] = "follow"
    /\ \E id \in batch[w] : batch' = [batch EXCEPT ![w] = @ \ {id}]
    /\ pending' = [pending EXCEPT ![w] = @ - 1]
    /\ bursts' = [bursts EXCEPT ![w] = @ + 1]
    /\ UNCHANGED <<generator, queue, msel, acc, wpc, cur, conns, sawEmpty, served, files, completed>>

\* poll_accept_queue: pop while there is something and the batch is not full.
Pop(w) ==
    /\ wpc[w] = "poll" /\ queue[w] # <<>> /\ Cardinality(batch[w]) < MaxEvents
    /\ batch' = [batch EXCEPT ![w] = @ \cup {Head(queue[w])}]
    /\ queue' = [queue EXCEPT ![w] = Tail(@)]
    /\ UNCHANGED <<generator, msel, table, wpc, cur, conns, sawEmpty, rows, files, completed>>

\* A full batch, or pop returned None and the batch is not empty, the timeout
\* has passed or shutdown was requested.
EndPoll(w) ==
    /\ wpc[w] = "poll" /\ (queue[w] = <<>> \/ Cardinality(batch[w]) = MaxEvents)
    /\ pending' = [pending EXCEPT ![w] = @ + Cardinality(batch[w])]
    /\ WGoto(w, "accept")
    /\ UNCHANGED <<generator, queue, msel, acc, batch, cur, conns, sawEmpty, rows, files, completed>>

\* The connection is counted and its work begins ...
BeginConn(w) ==
    /\ wpc[w] = "accept"
    /\ \E id \in batch[w] : /\ cur' = [cur EXCEPT ![w] = id]
                            /\ batch' = [batch EXCEPT ![w] = @ \ {id}]
    /\ acc' = [acc EXCEPT ![w] = @ + 1]
    /\ WGoto(w, "serve")
    /\ UNCHANGED <<generator, queue, msel, pending, conns, sawEmpty, rows, files, completed>>

\* ... and ends: one event less, one connection held open, one row.
FinishConn(w) ==
    /\ wpc[w] = "serve"
    /\ pending' = [pending EXCEPT ![w] = @ - 1]
    /\ open' = [open EXCEPT ![w] = @ \cup {cur[w]}]
    /\ served' = [served EXCEPT ![w] = @ \cup {cur[w]}]
    /\ cur' = [cur EXCEPT ![w] = NoConn]
    /\ WGoto(w, "accept")
    /\ UNCHANGED <<generator, queue, msel, acc, batch, due, backlog, sawEmpty, bursts, files, completed>>

EndBatch(w) ==
    /\ wpc[w] \in {"accept", "follow"} /\ batch[w] = {}
    /\ WGoto(w, IF config.policy = "hermes" THEN "publish" ELSE "check")
    /\ UNCHANGED <<generator, queue, msel, table, batch, cur, conns, sawEmpty, rows, files, completed>>

\* schedule() and the store of its bitmap.
Publish(w) ==
    /\ wpc[w] = "publish"
    /\ msel' \in SUBSET Workers
    /\ WGoto(w, "check")
    /\ UNCHANGED <<generator, queue, table, batch, cur, conns, sawEmpty, rows, files, completed>>

\* Mutations of Check: an exit that ignores the follow-ups; one that waits until
\* the connections have closed.
CheckForgetsBurst(w) ==
    /\ wpc[w] = "check"
    /\ WGoto(w, IF shutdown /\ queue[w] = <<>> THEN "flush" ELSE "top")
    /\ UNCHANGED <<generator, queue, msel, table, batch, cur, conns, sawEmpty, rows, files, completed>>

CheckWaitsForClose(w) ==
    /\ wpc[w] = "check"
    /\ WGoto(w, IF shutdown /\ queue[w] = <<>> /\ open[w] = {} THEN "flush" ELSE "top")
    /\ UNCHANGED <<generator, queue, msel, table, batch, cur, conns, sawEmpty, rows, files, completed>>

\* Leave when shutdown was requested and nothing is left to serve, else loop.
Check(w) ==
    /\ wpc[w] = "check"
    /\ WGoto(w, IF shutdown /\ queue[w] = <<>> /\ backlog[w] = {} THEN "flush" ELSE "top")
    /\ UNCHANGED <<generator, queue, msel, table, batch, cur, conns, sawEmpty, rows, files, completed>>

\* The same check where relaxed loads may be reordered: the queue is looked at
\* before the shutdown flag is.
LoadEarly(w) ==
    /\ config.weak
    /\ wpc[w] = "check"
    /\ sawEmpty' = [sawEmpty EXCEPT ![w] = queue[w] = <<>>]
    /\ WGoto(w, "checkLate")
    /\ UNCHANGED <<generator, queue, msel, table, batch, cur, conns, rows, files, completed>>

CheckLate(w) ==
    /\ wpc[w] = "checkLate"
    /\ WGoto(w, IF shutdown /\ sawEmpty[w] /\ backlog[w] = {} THEN "flush" ELSE "top")
    /\ sawEmpty' = [sawEmpty EXCEPT ![w] = FALSE]
    /\ UNCHANGED <<generator, queue, msel, table, batch, cur, conns, rows, files, completed>>

Rows(w) == Cardinality(served[w]) + bursts[w]

\* After the loop the rows are written to the shard files and the process exits.
WriteShards(w) ==
    /\ wpc[w] = "flush"
    /\ shard' = [shard EXCEPT ![w] = Rows(w)]
    /\ WGoto(w, "exited")
    /\ UNCHANGED <<generator, queue, msel, table, batch, cur, conns, sawEmpty, rows, lost, completed>>

\* The tick shard or the connection shard fails, at any row: a message, and the
\* worker exits as if nothing had happened.
WriteShardsFails(w) ==
    /\ config.fails
    /\ wpc[w] = "flush"
    /\ \E n \in 0 .. Rows(w) : shard' = [shard EXCEPT ![w] = n]
    /\ lost' = TRUE
    /\ WGoto(w, "exited")
    /\ UNCHANGED <<generator, queue, msel, table, batch, cur, conns, sawEmpty, rows, completed>>

Generator == \/ Fork \/ ForkFails
             \/ \E h \in Hash64 : Dispatch(h)
             \/ ScanIdle \/ ScanBusy \/ Fallback \/ Push \/ RequestShutdown \/ Summarize \/ MergeFails

Worker(w) == \/ LoopTop(w) \/ TakeBurst(w) \/ ServeBurst(w) \/ Pop(w) \/ EndPoll(w)
             \/ BeginConn(w) \/ FinishConn(w) \/ EndBatch(w) \/ Publish(w)
             \/ Check(w) \/ LoadEarly(w) \/ CheckLate(w)
             \/ WriteShards(w) \/ WriteShardsFails(w)

Next == UNCHANGED config /\ (Generator \/ \E w \in Workers : Worker(w))

Spec == Init /\ [][Next]_vars

\* Every process is scheduled, and sleeps for a bounded time only.
FairSpec == /\ Spec
            /\ WF_vars(UNCHANGED config /\ Generator)
            /\ \A w \in Workers : WF_vars(UNCHANGED config /\ Worker(w))
-----------------------------------------------------------------------------
WPcs == {"none", "top", "burst", "follow", "poll", "accept", "serve", "publish", "check",
         "checkLate", "flush", "exited"}

TypeOK ==
    /\ config \in Configs
    /\ gpc \in {"fork", "panicked", "gen", "scan", "scanBusy", "fallback", "push", "wait", "done"}
    /\ target \in Workers
    /\ depth \in [Workers -> 0 .. QueueCap] /\ generated \in 0 .. MaxConns
    /\ dispatched \in [Workers -> Nat] /\ drops \in [Workers -> Nat]
    /\ \A w \in Workers : queue[w] \in Seq(Ids) /\ Len(queue[w]) <= QueueCap
    /\ msel \subseteq Workers /\ shutdown \in BOOLEAN
    /\ pending \in [Workers -> Nat] /\ acc \in [Workers -> Nat]
    /\ wpc \in [Workers -> WPcs] /\ batch \in [Workers -> SUBSET Ids]
    /\ cur \in [Workers -> Ids \cup {NoConn}]
    /\ open \in [Workers -> SUBSET Ids] /\ due \subseteq Workers
    /\ backlog \in [Workers -> SUBSET Ids] /\ sawEmpty \in [Workers -> BOOLEAN]
    /\ served \in [Workers -> SUBSET Ids] /\ bursts \in [Workers -> Nat]
    /\ shard \in [Workers -> Nat] /\ lost \in BOOLEAN
    /\ completed \in [Workers -> Nat]

\* Connections a worker has popped and not finished.
InHand(w) == IF wpc[w] \in {"poll", "accept", "serve"}
             THEN batch[w] \cup ({cur[w]} \ {NoConn}) ELSE {}

\* No connection is lost or made up on its way: every one sent to a worker is
\* dropped, queued, in its hands or served, also when its queue overflows.
Conserved ==
    \A w \in Workers :
        dispatched[w] = drops[w] + Len(queue[w]) + Cardinality(InHand(w))
                          + Cardinality(served[w])

\* The counters of the table are what the worker holds: the connections open or
\* in service, and the events of its batch once they are counted.
Accounting ==
    \A w \in Workers :
        /\ acc[w] = Cardinality(open[w]) + (IF cur[w] = NoConn THEN 0 ELSE 1)
        /\ pending[w] = IF wpc[w] = "poll" THEN 0
                        ELSE Cardinality(batch[w]) + (IF cur[w] = NoConn THEN 0 ELSE 1)

\* A worker leaves only when nothing will ever be queued for it again: what is
\* pushed before the shutdown request, and every follow-up of its burst, has been
\* served.  The queue is safe only where loads keep their order: the exit check
\* reads the flag and the queue relaxed.
ExitedDrained ==
    \A w \in Workers : wpc[w] \in {"flush", "exited"} =>
        backlog[w] = {} /\ (config.weak \/ queue[w] = <<>>)

\* The run summary's per-worker counts reconcile with the generator's totals
\* (TESTING_SUMMARY.md) where loads keep their order and every file was written:
\* what was dispatched to a worker is dropped or completed.
SummaryReconciles ==
    gpc = "done" /\ ~config.weak /\ ~lost =>
        \A w \in Workers : completed[w] + drops[w] = dispatched[w]

\* What summarize_conns counts is the rows of the merged shards, those of a
\* burst's follow-ups included, which nobody dispatched.  So the counts do
\* reconcile for a profile without a burst; with one they exceed the totals by
\* the follow-ups served; and a run that lost rows counts less, never more, with
\* nothing in the summary to say so.
SummaryCounts ==
    gpc = "done" => \A w \in Workers :
        LET followUps == IF Bursts THEN bursts[w] ELSE 0
        IN  /\ completed[w] + drops[w] <= dispatched[w] + followUps
            /\ ~config.weak /\ ~lost => completed[w] + drops[w] = dispatched[w] + followUps

\* Every run ends with a summary: the traffic does, and then every worker drains,
\* exits and is reaped, whatever else is going on.  The exception is a fork that
\* fails: the workers already there poll for ever, since nobody else requests the
\* shutdown (main, worker_loop).
RunEnds == <>(gpc \in {"done", "panicked"})

=============================================================================
