-------------------------- MODULE SimulationProofs --------------------------
(***************************************************************************)
(* The simulation loses and invents no connection, keeps its counters      *)
(* exact and lets no worker leave with work to do, for every number of     *)
(* connections, every queue and batch size, every policy and profile and   *)
(* whatever fails.                                                         *)
(***************************************************************************)
EXTENDS Simulation, FiniteSetTheorems, SequenceTheorems, TLAPS

\* The generator: a connection under way has a number left, the flag is set when
\* the traffic is over, and the fork loop has not yet come to the workers ahead.
Parent == /\ gpc \in {"scan", "scanBusy", "fallback", "push"} => generated < MaxConns
          /\ shutdown <=> gpc \in {"wait", "done"}
          /\ gpc = "fork" => \A w \in Workers : target <= w => wpc[w] = "none"

\* A worker has events in hand, and a connection in service, only where its loop
\* deals with them, and leaves only after the traffic.
Place(w) == /\ cur[w] # NoConn <=> wpc[w] = "serve"
            /\ cur[w] \notin batch[w]
            /\ batch[w] # {} => wpc[w] \in {"poll", "accept", "serve", "follow"}
            /\ wpc[w] = "checkLate" => config.weak
            /\ wpc[w] \in {"flush", "exited"} => shutdown

\* A connection has one number and is in one place.
OnePlace(w) ==
    /\ \A i, j \in 1 .. Len(queue[w]) : i # j => queue[w][i] # queue[w][j]
    /\ \A i \in 1 .. Len(queue[w]) : /\ queue[w][i] \notin InHand(w) \cup served[w]
                                     /\ queue[w][i] < generated
    /\ InHand(w) \cap served[w] = {}
    /\ \A id \in InHand(w) \cup served[w] : id < generated
    /\ open[w] \subseteq served[w]

ConservedAt(w) ==
    dispatched[w] = drops[w] + Len(queue[w]) + Cardinality(InHand(w)) + Cardinality(served[w])

AccountingAt(w) ==
    /\ acc[w] = Cardinality(open[w]) + (IF cur[w] = NoConn THEN 0 ELSE 1)
    /\ pending[w] = IF wpc[w] = "poll" THEN 0
                    ELSE Cardinality(batch[w]) + (IF cur[w] = NoConn THEN 0 ELSE 1)

DrainedAt(w) == wpc[w] \in {"flush", "exited"} =>
                   backlog[w] = {} /\ (config.weak \/ queue[w] = <<>>)

\* A shard holds the worker's rows, or fewer of them in a run that lost some.
ShardAt(w) == wpc[w] = "exited" => shard[w] <= Rows(w) /\ (~lost => shard[w] = Rows(w))

\* The summary is made of shards that are written.
Summary == gpc = "done" => \A w \in Workers :
              /\ wpc[w] = "exited"
              /\ completed[w] <= shard[w] /\ (~lost => completed[w] = shard[w])

WorkerInv(w) == Place(w) /\ OnePlace(w) /\ ConservedAt(w) /\ AccountingAt(w)
                  /\ DrainedAt(w) /\ ShardAt(w)

IInv == /\ TypeOK /\ queue \in [Workers -> Seq(Ids)]
        /\ Parent /\ Summary
        /\ \A w \in Workers : WorkerInv(w)

-----------------------------------------------------------------------------
(***************************************************************************)
(* Connections are counted as sets of their numbers.                       *)
(***************************************************************************)

\* Every set of connections can be counted.
LEMMA IdsFinite ==
    ASSUME NEW S \in SUBSET Ids
    PROVE  IsFiniteSet(S) /\ Cardinality(S) \in Nat
  <1>1. IsFiniteSet(Ids)
    BY BoundsAssumption, FS_Interval DEF Ids
  <1>2. IsFiniteSet(S)
    BY <1>1, FS_Subset
  <1> QED
    BY <1>2, FS_CardinalityType

\* NoConn is not the number of a connection.
LEMMA NoConnNotId == NoConn \notin Ids /\ Ids \subseteq Nat
  BY DEF NoConn, Ids

\* One connection more.
LEMMA AddId ==
    ASSUME NEW S \in SUBSET Ids, NEW id \in Ids, id \notin S
    PROVE  Cardinality(S \cup {id}) = Cardinality(S) + 1
  BY IdsFinite, FS_AddElement

\* One connection less.
LEMMA RemoveId ==
    ASSUME NEW S \in SUBSET Ids, NEW id \in S
    PROVE  /\ Cardinality(S) = Cardinality(S \ {id}) + 1
           /\ Cardinality(S) \in Nat /\ Cardinality(S \ {id}) \in Nat
  <1>1. IsFiniteSet(S) /\ Cardinality(S) \in Nat /\ Cardinality(S \ {id}) \in Nat
    BY IdsFinite
  <1>2. Cardinality(S \ {id}) = Cardinality(S) - 1
    BY <1>1, FS_RemoveElement
  <1> QED
    BY <1>1, <1>2

\* Several connections less.
LEMMA RemoveIds ==
    ASSUME NEW S \in SUBSET Ids, NEW T \in SUBSET S
    PROVE  /\ Cardinality(S \ T) = Cardinality(S) - Cardinality(T)
           /\ Cardinality(S \ T) \in Nat
  <1>1. IsFiniteSet(S) /\ Cardinality(S \ T) \in Nat
    BY IdsFinite
  <1>2. S \cap T = T
    OBVIOUS
  <1> QED
    BY <1>1, <1>2, FS_Difference

\* The types of a worker's entries.
LEMMA Entries ==
    ASSUME IInv, NEW w \in Workers
    PROVE  /\ queue[w] \in Seq(Ids) /\ Len(queue[w]) \in Nat
           /\ batch[w] \in SUBSET Ids /\ Cardinality(batch[w]) \in Nat
           /\ open[w] \in SUBSET Ids /\ Cardinality(open[w]) \in Nat
           /\ served[w] \in SUBSET Ids /\ Cardinality(served[w]) \in Nat
           /\ backlog[w] \in SUBSET Ids
           /\ cur[w] \in Ids \cup {NoConn}
           /\ dispatched[w] \in Nat /\ drops[w] \in Nat
           /\ acc[w] \in Nat /\ pending[w] \in Nat
           /\ bursts[w] \in Nat /\ shard[w] \in Nat
           /\ generated \in Nat /\ lost \in BOOLEAN /\ shutdown \in BOOLEAN
  <1>1. /\ queue[w] \in Seq(Ids) /\ batch[w] \in SUBSET Ids /\ open[w] \in SUBSET Ids
        /\ served[w] \in SUBSET Ids /\ backlog[w] \in SUBSET Ids
        /\ cur[w] \in Ids \cup {NoConn}
        /\ dispatched[w] \in Nat /\ drops[w] \in Nat
        /\ acc[w] \in Nat /\ pending[w] \in Nat /\ bursts[w] \in Nat /\ shard[w] \in Nat
        /\ generated \in Nat /\ lost \in BOOLEAN /\ shutdown \in BOOLEAN
    <2>1. /\ queue \in [Workers -> Seq(Ids)] /\ batch \in [Workers -> SUBSET Ids]
          /\ open \in [Workers -> SUBSET Ids] /\ served \in [Workers -> SUBSET Ids]
          /\ backlog \in [Workers -> SUBSET Ids] /\ cur \in [Workers -> Ids \cup {NoConn}]
      BY DEF IInv, TypeOK
    <2>2. /\ dispatched \in [Workers -> Nat] /\ drops \in [Workers -> Nat]
          /\ acc \in [Workers -> Nat] /\ pending \in [Workers -> Nat]
          /\ bursts \in [Workers -> Nat] /\ shard \in [Workers -> Nat]
          /\ generated \in 0 .. MaxConns /\ lost \in BOOLEAN /\ shutdown \in BOOLEAN
      BY DEF IInv, TypeOK
    <2>3. generated \in Nat
      BY <2>2, BoundsAssumption
    <2> QED
      BY <2>1, <2>2, <2>3
  <1> QED
    BY <1>1, IdsFinite

\* A connection that moves from one place to the next leaves the sum as it is.
LEMMA MoveOne ==
    \A d, l, n, s \in Nat : /\ d + l + n + s = d + (l - 1) + (n + 1) + s
                            /\ d + l + (n + 1) + s = d + l + n + (s + 1)
  OBVIOUS
-----------------------------------------------------------------------------
\* The connections a worker has been given and has not refused.
Held(w) == {queue[w][i] : i \in 1 .. Len(queue[w])} \cup InHand(w) \cup served[w]

\* What the invariant says of a worker depends on these.
Entry(w) == <<queue[w], batch[w], cur[w], open[w], backlog[w], served[w], bursts[w], shard[w],
              dispatched[w], drops[w], acc[w], pending[w]>>

\* What the others do does not disturb a worker.
LEMMA Frame ==
    ASSUME IInv, NEW w \in Workers, UNCHANGED Entry(w), wpc'[w] = wpc[w],
           config' = config, generated' \in Nat, generated <= generated',
           shutdown => shutdown', lost => lost'
    PROVE  WorkerInv(w)'
  <1>1. WorkerInv(w)
    BY DEF IInv
  <1>2. /\ queue'[w] = queue[w] /\ batch'[w] = batch[w] /\ cur'[w] = cur[w]
        /\ open'[w] = open[w] /\ backlog'[w] = backlog[w] /\ served'[w] = served[w]
        /\ bursts'[w] = bursts[w] /\ shard'[w] = shard[w] /\ dispatched'[w] = dispatched[w]
        /\ drops'[w] = drops[w] /\ acc'[w] = acc[w] /\ pending'[w] = pending[w]
    BY DEF Entry
  <1>3. InHand(w)' = InHand(w) /\ Rows(w)' = Rows(w)
    BY <1>2 DEF InHand, Rows
  <1>4. Place(w)'
    BY <1>1, <1>2 DEF WorkerInv, Place
  <1>5. OnePlace(w)'
    <2>1. generated \in Nat /\ queue[w] \in Seq(Ids) /\ served[w] \in SUBSET Ids
          /\ batch[w] \in SUBSET Ids /\ cur[w] \in Ids \cup {NoConn}
      BY Entries
    <2>2. InHand(w) \cup served[w] \subseteq Nat
      BY <2>1, NoConnNotId DEF InHand
    <2>3. \A i \in 1 .. Len(queue[w]) : queue[w][i] \in Nat
      BY <2>1, NoConnNotId, ElementOfSeq
    <2>4. \A n \in Nat : n < generated => n < generated'
      BY <2>1
    <2> QED
      BY <1>1, <1>2, <1>3, <2>2, <2>3, <2>4 DEF WorkerInv, OnePlace
  <1>6. ConservedAt(w)' /\ AccountingAt(w)'
    BY <1>1, <1>2, <1>3 DEF WorkerInv, ConservedAt, AccountingAt
  <1>7. DrainedAt(w)' /\ ShardAt(w)'
    BY <1>1, <1>2, <1>3 DEF WorkerInv, DrainedAt, ShardAt
  <1> QED
    BY <1>4, <1>5, <1>6, <1>7 DEF WorkerInv

\* A worker without anything in hand may go where it needs nothing.
LEMMA EmptyHanded ==
    ASSUME IInv, NEW w \in Workers, UNCHANGED Entry(w),
           UNCHANGED <<config, generated, shutdown, lost>>,
           batch[w] = {}, wpc[w] # "serve", wpc'[w] \notin {"serve", "exited"},
           wpc'[w] = "checkLate" => config.weak,
           wpc'[w] = "flush" => /\ shutdown /\ backlog[w] = {}
                                /\ config.weak \/ queue[w] = <<>>
    PROVE  /\ WorkerInv(w)'
           /\ Held(w)' \subseteq Held(w)
  <1>1. WorkerInv(w)
    BY DEF IInv
  <1>2. /\ queue'[w] = queue[w] /\ batch'[w] = batch[w] /\ cur'[w] = cur[w]
        /\ open'[w] = open[w] /\ backlog'[w] = backlog[w] /\ served'[w] = served[w]
        /\ dispatched'[w] = dispatched[w]
        /\ drops'[w] = drops[w] /\ acc'[w] = acc[w] /\ pending'[w] = pending[w]
    BY DEF Entry
  <1>3. cur[w] = NoConn
    BY <1>1 DEF WorkerInv, Place
  <1>4. Cardinality(batch[w]) = 0
    BY FS_EmptySet
  <1>5. InHand(w) = {} /\ InHand(w)' = {}
    BY <1>2, <1>3 DEF InHand
  <1>6. Place(w)'
    BY <1>1, <1>2, <1>3 DEF Place, WorkerInv
  <1>7. OnePlace(w)'
    BY <1>1, <1>2, <1>5 DEF OnePlace, WorkerInv
  <1>8. ConservedAt(w)'
    BY <1>1, <1>2, <1>5 DEF ConservedAt, WorkerInv
  <1>9. AccountingAt(w)'
    BY <1>1, <1>2, <1>3, <1>4 DEF AccountingAt, WorkerInv
  <1>10. DrainedAt(w)' /\ ShardAt(w)'
    BY <1>2 DEF DrainedAt, ShardAt
  <1>h. Held(w)' \subseteq Held(w)
    BY <1>2, <1>5 DEF Held
  <1> QED
    BY <1>h, <1>6, <1>7, <1>8, <1>9, <1>10 DEF WorkerInv

-----------------------------------------------------------------------------
(***************************************************************************)
(* A worker's steps, and what the invariant says of that worker.           *)
(***************************************************************************)

\* Connections that close are counted off; the worker has nothing in hand.
LEMMA LoopTopSelf ==
    ASSUME IInv, NEW w \in Workers, LoopTop(w), UNCHANGED config
    PROVE  /\ WorkerInv(w)' /\ acc'[w] \in Nat
           /\ Held(w)' \subseteq Held(w)
  <1>1. WorkerInv(w) /\ wpc[w] = "top"
    BY DEF IInv, LoopTop
  <1>2. PICK closed \in SUBSET open[w] : /\ open'[w] = open[w] \ closed
                                         /\ acc'[w] = acc[w] - Cardinality(closed)
    <2>1. open \in [Workers -> SUBSET Ids] /\ acc \in [Workers -> Nat]
      BY DEF IInv, TypeOK
    <2>2. PICK closed \in SUBSET open[w] :
            /\ open' = [open EXCEPT ![w] = @ \ closed]
            /\ acc' = [acc EXCEPT ![w] = @ - Cardinality(closed)]
      BY DEF LoopTop
    <2> QED
      BY <2>1, <2>2
  <1>3. wpc'[w] \in {"burst", "poll"}
    BY DEF LoopTop, WGoto, IInv, TypeOK
  <1>4. /\ queue'[w] = queue[w] /\ batch'[w] = batch[w] /\ cur'[w] = cur[w]
        /\ served'[w] = served[w] /\ dispatched'[w] = dispatched[w] /\ drops'[w] = drops[w]
        /\ pending'[w] = pending[w] /\ generated' = generated
    BY DEF LoopTop, generator, rows
  <1>5. cur[w] = NoConn /\ batch[w] = {} /\ Cardinality(batch[w]) = 0
    BY <1>1, FS_EmptySet DEF WorkerInv, Place
  <1>6. InHand(w) = {} /\ InHand(w)' = {}
    BY <1>1, <1>3, <1>4, <1>5 DEF InHand
  <1>7. /\ Cardinality(open[w] \ closed) = Cardinality(open[w]) - Cardinality(closed)
        /\ Cardinality(open[w] \ closed) \in Nat
    BY Entries, RemoveIds
  <1>8. acc[w] = Cardinality(open[w]) /\ pending[w] = 0
    BY <1>1, <1>5, Entries DEF WorkerInv, AccountingAt
  <1>9. acc'[w] = Cardinality(open'[w]) /\ acc'[w] \in Nat
    BY <1>2, <1>7, <1>8
  <1>10. Place(w)'
    BY <1>3, <1>4, <1>5 DEF Place
  <1>11. OnePlace(w)'
    BY <1>1, <1>2, <1>4, <1>6 DEF OnePlace, WorkerInv
  <1>12. ConservedAt(w)'
    BY <1>1, <1>4, <1>6 DEF ConservedAt, WorkerInv
  <1>13. AccountingAt(w)'
    BY <1>4, <1>5, <1>8, <1>9, Entries DEF AccountingAt
  <1>14. DrainedAt(w)' /\ ShardAt(w)'
    BY <1>3 DEF DrainedAt, ShardAt
  <1>h. Held(w)' \subseteq Held(w)
    BY <1>4, <1>6 DEF Held
  <1> QED
    BY <1>h, <1>9, <1>10, <1>11, <1>12, <1>13, <1>14 DEF WorkerInv

\* Follow-ups are events of the batch; they are no connections of their own.
LEMMA TakeBurstSelf ==
    ASSUME IInv, NEW w \in Workers, TakeBurst(w), UNCHANGED config
    PROVE  /\ WorkerInv(w)' /\ pending'[w] \in Nat /\ batch'[w] \in SUBSET Ids
           /\ Held(w)' \subseteq Held(w)
  <1>1. WorkerInv(w) /\ wpc[w] = "burst"
    BY DEF IInv, TakeBurst
  <1>2. PICK ids \in SUBSET backlog[w] : /\ batch'[w] = ids
                                         /\ pending'[w] = pending[w] + Cardinality(ids)
    BY DEF TakeBurst, kSubset, IInv, TypeOK
  <1>3. wpc'[w] = "follow"
    BY DEF TakeBurst, WGoto, IInv, TypeOK
  <1>4. /\ queue'[w] = queue[w] /\ cur'[w] = cur[w] /\ open'[w] = open[w]
        /\ served'[w] = served[w] /\ dispatched'[w] = dispatched[w] /\ drops'[w] = drops[w]
        /\ acc'[w] = acc[w] /\ generated' = generated
    BY DEF TakeBurst, generator, rows
  <1>5. cur[w] = NoConn /\ batch[w] = {} /\ Cardinality(batch[w]) = 0
    BY <1>1, FS_EmptySet DEF WorkerInv, Place
  <1>6. InHand(w) = {} /\ InHand(w)' = {}
    BY <1>1, <1>3 DEF InHand
  <1>7. ids \in SUBSET Ids /\ Cardinality(ids) \in Nat
    BY Entries, IdsFinite
  <1>8. pending'[w] = Cardinality(batch'[w]) /\ pending'[w] \in Nat
    BY <1>1, <1>2, <1>5, <1>7 DEF WorkerInv, AccountingAt
  <1>9. Place(w)'
    BY <1>2, <1>3, <1>4, <1>5, <1>7, NoConnNotId DEF Place
  <1>10. OnePlace(w)'
    BY <1>1, <1>4, <1>6 DEF OnePlace, WorkerInv
  <1>11. ConservedAt(w)'
    BY <1>1, <1>4, <1>6 DEF ConservedAt, WorkerInv
  <1>12. AccountingAt(w)'
    BY <1>1, <1>3, <1>4, <1>5, <1>8 DEF AccountingAt, WorkerInv
  <1>13. DrainedAt(w)' /\ ShardAt(w)'
    BY <1>3 DEF DrainedAt, ShardAt
  <1>h. Held(w)' \subseteq Held(w)
    BY <1>4, <1>6 DEF Held
  <1> QED
    BY <1>h, <1>2, <1>7, <1>8, <1>9, <1>10, <1>11, <1>12, <1>13 DEF WorkerInv

\* A follow-up is served: one event less.
LEMMA ServeBurstSelf ==
    ASSUME IInv, NEW w \in Workers, ServeBurst(w), UNCHANGED config
    PROVE  /\ WorkerInv(w)' /\ pending'[w] \in Nat
           /\ Held(w)' \subseteq Held(w)
  <1>1. WorkerInv(w) /\ wpc[w] = "follow" /\ wpc'[w] = "follow"
    BY DEF IInv, ServeBurst
  <1>2. PICK id \in batch[w] : batch'[w] = batch[w] \ {id}
    BY DEF ServeBurst, IInv, TypeOK
  <1>3. pending'[w] = pending[w] - 1
    BY DEF ServeBurst, IInv, TypeOK
  <1>4. /\ queue'[w] = queue[w] /\ cur'[w] = cur[w] /\ open'[w] = open[w]
        /\ served'[w] = served[w] /\ dispatched'[w] = dispatched[w] /\ drops'[w] = drops[w]
        /\ acc'[w] = acc[w] /\ generated' = generated
    BY DEF ServeBurst, generator, conns
  <1>5. cur[w] = NoConn
    BY <1>1 DEF WorkerInv, Place
  <1>6. InHand(w) = {} /\ InHand(w)' = {}
    BY <1>1 DEF InHand
  <1>7. /\ Cardinality(batch[w]) = Cardinality(batch[w] \ {id}) + 1
        /\ Cardinality(batch[w] \ {id}) \in Nat
    BY Entries, RemoveId
  <1>8. pending'[w] = Cardinality(batch'[w]) /\ pending'[w] \in Nat
    BY <1>1, <1>2, <1>3, <1>5, <1>7 DEF WorkerInv, AccountingAt
  <1>9. Place(w)'
    BY <1>1, <1>2, <1>4, <1>5 DEF Place, WorkerInv
  <1>10. OnePlace(w)'
    BY <1>1, <1>4, <1>6 DEF OnePlace, WorkerInv
  <1>11. ConservedAt(w)'
    BY <1>1, <1>4, <1>6 DEF ConservedAt, WorkerInv
  <1>12. AccountingAt(w)'
    BY <1>1, <1>4, <1>5, <1>8 DEF AccountingAt, WorkerInv
  <1>13. DrainedAt(w)' /\ ShardAt(w)'
    BY <1>1 DEF DrainedAt, ShardAt
  <1>h. Held(w)' \subseteq Held(w)
    BY <1>4, <1>6 DEF Held
  <1> QED
    BY <1>h, <1>8, <1>9, <1>10, <1>11, <1>12, <1>13 DEF WorkerInv

\* A connection moves from the queue into the batch.
LEMMA PopSelf ==
    ASSUME IInv, NEW w \in Workers, Pop(w), UNCHANGED config
    PROVE  /\ Held(w)' \subseteq Held(w)
           /\ WorkerInv(w)' /\ batch'[w] \in SUBSET Ids
           /\ queue'[w] \in Seq(Ids) /\ Len(queue'[w]) <= Len(queue[w])
  <1> DEFINE q == queue[w]
             h == Head(queue[w])
  <1>1. WorkerInv(w) /\ wpc[w] = "poll" /\ wpc'[w] = "poll" /\ q # <<>>
    BY DEF IInv, Pop
  <1>2. batch'[w] = batch[w] \cup {h} /\ queue'[w] = Tail(q)
    BY DEF Pop, IInv, TypeOK
  <1>3. /\ cur'[w] = cur[w] /\ open'[w] = open[w] /\ generated' = generated
        /\ served'[w] = served[w] /\ dispatched'[w] = dispatched[w] /\ drops'[w] = drops[w]
        /\ acc'[w] = acc[w] /\ pending'[w] = pending[w]
    BY DEF Pop, generator, conns, rows, table
  <1>4. cur[w] = NoConn
    BY <1>1 DEF WorkerInv, Place
  <1>5. q \in Seq(Ids) /\ batch[w] \in SUBSET Ids
    BY Entries
  <1>6. h = q[1] /\ h \in Ids /\ Len(q) \in Nat \ {0}
    BY <1>1, <1>5, EmptySeq, ElementOfSeq
  <1>7. /\ Tail(q) \in Seq(Ids) /\ Len(Tail(q)) = Len(q) - 1
        /\ \A k \in 1 .. Len(q) - 1 : Tail(q)[k] = q[k + 1]
    BY <1>1, <1>5, HeadTailProperties
  <1>8. InHand(w) = batch[w] /\ InHand(w)' = batch[w] \cup {h}
    BY <1>1, <1>2, <1>3, <1>4 DEF InHand
  <1>9. /\ \A k, l \in 1 .. Len(q) : k # l => q[k] # q[l]
        /\ \A k \in 1 .. Len(q) : q[k] \notin batch[w] \cup served[w] /\ q[k] < generated
        /\ batch[w] \cap served[w] = {}
        /\ \A id \in batch[w] \cup served[w] : id < generated
        /\ open[w] \subseteq served[w]
    BY <1>1, <1>8 DEF WorkerInv, OnePlace
  <1>10. 1 \in 1 .. Len(q) /\ \A k \in 1 .. Len(q) - 1 : k + 1 \in 1 .. Len(q) /\ k + 1 # 1
    BY <1>6
  <1>11. h \notin batch[w] /\ h \notin served[w] /\ h < generated
    BY <1>6, <1>9, <1>10
  <1> HIDE DEF q, h
  <1>12. Place(w)'
    BY <1>1, <1>2, <1>3, <1>4, <1>5, <1>6, NoConnNotId DEF Place
  <1>13. OnePlace(w)'
    <2>1. \A k, l \in 1 .. Len(q) - 1 : k # l => Tail(q)[k] # Tail(q)[l]
      <3> TAKE k, l \in 1 .. Len(q) - 1
      <3>1. k # l => k + 1 # l + 1
        OBVIOUS
      <3> QED
        BY <1>7, <1>9, <1>10, <3>1
    <2>2. \A k \in 1 .. Len(q) - 1 :
             Tail(q)[k] \notin (batch[w] \cup {h}) \cup served[w] /\ Tail(q)[k] < generated
      BY <1>6, <1>7, <1>9, <1>10
    <2>3. (batch[w] \cup {h}) \cap served[w] = {}
      BY <1>9, <1>11
    <2>4. \A id \in (batch[w] \cup {h}) \cup served[w] : id < generated
      BY <1>9, <1>11
    <2> QED
      BY <1>2, <1>3, <1>7, <1>8, <1>9, <2>1, <2>2, <2>3, <2>4 DEF OnePlace
  <1>14. ConservedAt(w)'
    <2>1. Cardinality(batch[w] \cup {h}) = Cardinality(batch[w]) + 1
      BY <1>5, <1>6, <1>11, AddId
    <2>2. dispatched[w] = drops[w] + Len(q) + Cardinality(batch[w]) + Cardinality(served[w])
      BY <1>1, <1>8 DEF WorkerInv, ConservedAt, q
    <2>3. dispatched[w] = drops[w] + (Len(q) - 1) + (Cardinality(batch[w]) + 1)
                            + Cardinality(served[w])
      <3>1. /\ drops[w] \in Nat /\ Len(q) \in Nat
            /\ Cardinality(batch[w]) \in Nat /\ Cardinality(served[w]) \in Nat
        BY <1>6, Entries
      <3>2. drops[w] + Len(q) + Cardinality(batch[w]) + Cardinality(served[w])
              = drops[w] + (Len(q) - 1) + (Cardinality(batch[w]) + 1) + Cardinality(served[w])
        BY <3>1, MoveOne
      <3> QED
        BY <2>2, <3>2, Zenon
    <2> QED
      BY <1>2, <1>3, <1>7, <1>8, <2>1, <2>3 DEF ConservedAt
  <1>15. AccountingAt(w)'
    BY <1>1, <1>3, <1>4 DEF AccountingAt, WorkerInv
  <1>16. DrainedAt(w)' /\ ShardAt(w)'
    BY <1>1 DEF DrainedAt, ShardAt
  <1>17. Len(queue'[w]) <= Len(queue[w])
    BY <1>2, <1>6, <1>7 DEF q
  <1>h. Held(w)' \subseteq Held(w)
    <2>1. \A k \in 1 .. Len(q) - 1 : Tail(q)[k] \in {q[i] : i \in 1 .. Len(q)}
      BY <1>7, <1>10
    <2>2. h \in {q[i] : i \in 1 .. Len(q)}
      BY <1>6, <1>10
    <2>3. Held(w) = {q[i] : i \in 1 .. Len(q)} \cup batch[w] \cup served[w]
      BY <1>8 DEF Held, q
    <2>4. Held(w)' = {Tail(q)[k] : k \in 1 .. Len(q) - 1} \cup (batch[w] \cup {h}) \cup served[w]
      BY <1>2, <1>3, <1>7, <1>8 DEF Held
    <2> QED
      BY <2>1, <2>2, <2>3, <2>4
  <1> QED
    BY <1>h, <1>2, <1>5, <1>6, <1>7, <1>12, <1>13, <1>14, <1>15, <1>16, <1>17 DEF WorkerInv

\* The batch is counted when the poll ends.
LEMMA EndPollSelf ==
    ASSUME IInv, NEW w \in Workers, EndPoll(w), UNCHANGED config
    PROVE  /\ WorkerInv(w)' /\ pending'[w] \in Nat
           /\ Held(w)' \subseteq Held(w)
  <1>1. WorkerInv(w) /\ wpc[w] = "poll"
    BY DEF IInv, EndPoll
  <1>2. pending'[w] = pending[w] + Cardinality(batch[w]) /\ wpc'[w] = "accept"
    BY DEF EndPoll, WGoto, IInv, TypeOK
  <1>3. /\ queue'[w] = queue[w] /\ batch'[w] = batch[w] /\ cur'[w] = cur[w]
        /\ open'[w] = open[w] /\ generated' = generated
        /\ served'[w] = served[w] /\ dispatched'[w] = dispatched[w] /\ drops'[w] = drops[w]
        /\ acc'[w] = acc[w]
    BY DEF EndPoll, generator, conns, rows
  <1>4. cur[w] = NoConn /\ InHand(w) = batch[w] /\ InHand(w)' = batch[w]
    BY <1>1, <1>2, <1>3 DEF WorkerInv, Place, InHand
  <1>5. pending'[w] = Cardinality(batch[w]) /\ pending'[w] \in Nat
    BY <1>1, <1>2, Entries DEF WorkerInv, AccountingAt
  <1>6. Place(w)'
    BY <1>1, <1>2, <1>3, <1>4 DEF Place, WorkerInv
  <1>7. OnePlace(w)' /\ ConservedAt(w)'
    BY <1>1, <1>3, <1>4 DEF OnePlace, ConservedAt, WorkerInv
  <1>8. AccountingAt(w)'
    BY <1>1, <1>2, <1>3, <1>4, <1>5, Entries DEF AccountingAt, WorkerInv
  <1>9. DrainedAt(w)' /\ ShardAt(w)'
    BY <1>2 DEF DrainedAt, ShardAt
  <1>h. Held(w)' \subseteq Held(w)
    BY <1>3, <1>4 DEF Held
  <1> QED
    BY <1>h, <1>5, <1>6, <1>7, <1>8, <1>9 DEF WorkerInv

\* A connection goes from the batch into service: it stays in hand.
LEMMA BeginConnSelf ==
    ASSUME IInv, NEW w \in Workers, BeginConn(w), UNCHANGED config
    PROVE  /\ Held(w)' \subseteq Held(w)
           /\ WorkerInv(w)' /\ acc'[w] \in Nat
           /\ cur'[w] \in Ids /\ batch'[w] \in SUBSET Ids
  <1>1. WorkerInv(w) /\ wpc[w] = "accept"
    BY DEF IInv, BeginConn
  <1>2. PICK id \in batch[w] : cur'[w] = id /\ batch'[w] = batch[w] \ {id}
    BY DEF BeginConn, IInv, TypeOK
  <1>3. acc'[w] = acc[w] + 1 /\ wpc'[w] = "serve"
    BY DEF BeginConn, WGoto, IInv, TypeOK
  <1>4. /\ queue'[w] = queue[w] /\ open'[w] = open[w] /\ generated' = generated
        /\ served'[w] = served[w] /\ dispatched'[w] = dispatched[w] /\ drops'[w] = drops[w]
        /\ pending'[w] = pending[w]
    BY DEF BeginConn, generator, conns, rows
  <1>5. id \in Ids /\ id # NoConn /\ batch[w] \in SUBSET Ids
    BY Entries, NoConnNotId
  <1>6. cur[w] = NoConn /\ InHand(w) = batch[w] /\ InHand(w)' = batch[w]
    <2>1. cur[w] = NoConn
      BY <1>1 DEF WorkerInv, Place
    <2>2. (batch[w] \ {id}) \cup ({id} \ {NoConn}) = batch[w]
      BY <1>5
    <2> QED
      BY <1>1, <1>2, <1>3, <2>1, <2>2 DEF InHand
  <1>7. Cardinality(batch[w]) = Cardinality(batch'[w]) + 1 /\ Cardinality(batch'[w]) \in Nat
    BY <1>2, <1>5, RemoveId
  <1>8. Place(w)'
    BY <1>2, <1>3, <1>5 DEF Place
  <1>9. OnePlace(w)' /\ ConservedAt(w)'
    BY <1>1, <1>4, <1>6 DEF OnePlace, ConservedAt, WorkerInv
  <1>10. AccountingAt(w)'
    <2>1. acc[w] = Cardinality(open[w]) + 0 /\ pending[w] = Cardinality(batch[w]) + 0
      BY <1>1, <1>6 DEF AccountingAt, WorkerInv
    <2>2. acc'[w] = Cardinality(open[w]) + 1 /\ pending[w] = Cardinality(batch'[w]) + 1
      BY <1>3, <1>7, <2>1, Entries
    <2> QED
      BY <1>2, <1>3, <1>4, <1>5, <2>2 DEF AccountingAt
  <1>11. DrainedAt(w)' /\ ShardAt(w)'
    BY <1>3 DEF DrainedAt, ShardAt
  <1>h. Held(w)' \subseteq Held(w)
    BY <1>4, <1>6 DEF Held
  <1> QED
    BY <1>h, <1>2, <1>3, <1>5, <1>8, <1>9, <1>10, <1>11, Entries DEF WorkerInv

\* A connection leaves the worker's hands, served and open.
LEMMA FinishConnSelf ==
    ASSUME IInv, NEW w \in Workers, FinishConn(w), UNCHANGED config
    PROVE  /\ Held(w)' \subseteq Held(w)
           /\ WorkerInv(w)' /\ pending'[w] \in Nat
           /\ open'[w] \in SUBSET Ids /\ served'[w] \in SUBSET Ids
  <1> DEFINE c == cur[w]
  <1>1. WorkerInv(w) /\ wpc[w] = "serve"
    BY DEF IInv, FinishConn
  <1>2. /\ pending'[w] = pending[w] - 1 /\ wpc'[w] = "accept" /\ cur'[w] = NoConn
        /\ open'[w] = open[w] \cup {c} /\ served'[w] = served[w] \cup {c}
    BY DEF FinishConn, WGoto, IInv, TypeOK
  <1>3. /\ queue'[w] = queue[w] /\ batch'[w] = batch[w] /\ generated' = generated
        /\ dispatched'[w] = dispatched[w] /\ drops'[w] = drops[w] /\ acc'[w] = acc[w]
    BY DEF FinishConn, generator
  <1>4. c \in Ids /\ c # NoConn /\ c \notin batch[w]
    BY <1>1, Entries DEF WorkerInv, Place
  <1>5. InHand(w) = batch[w] \cup {c} /\ InHand(w)' = batch[w]
    BY <1>1, <1>2, <1>3, <1>4 DEF InHand
  <1>6. /\ \A k, l \in 1 .. Len(queue[w]) : k # l => queue[w][k] # queue[w][l]
        /\ \A k \in 1 .. Len(queue[w]) :
              queue[w][k] \notin (batch[w] \cup {c}) \cup served[w] /\ queue[w][k] < generated
        /\ (batch[w] \cup {c}) \cap served[w] = {}
        /\ \A id \in (batch[w] \cup {c}) \cup served[w] : id < generated
        /\ open[w] \subseteq served[w]
    BY <1>1, <1>5 DEF WorkerInv, OnePlace
  <1>7. c \notin served[w] /\ c \notin open[w]
    BY <1>6
  <1>8. /\ batch[w] \in SUBSET Ids /\ open[w] \in SUBSET Ids /\ served[w] \in SUBSET Ids
    BY Entries
  <1> HIDE DEF c
  <1>9. /\ Cardinality(batch[w] \cup {c}) = Cardinality(batch[w]) + 1
        /\ Cardinality(open[w] \cup {c}) = Cardinality(open[w]) + 1
        /\ Cardinality(served[w] \cup {c}) = Cardinality(served[w]) + 1
    BY <1>4, <1>7, <1>8, AddId
  <1>10. Place(w)'
    BY <1>2, <1>3, <1>8, NoConnNotId DEF Place
  <1>11. OnePlace(w)'
    <2>1. batch[w] \cap (served[w] \cup {c}) = {}
      BY <1>4, <1>6
    <2>2. batch[w] \cup (served[w] \cup {c}) = (batch[w] \cup {c}) \cup served[w]
      OBVIOUS
    <2>3. open[w] \cup {c} \subseteq served[w] \cup {c}
      BY <1>6
    <2> QED
      BY <1>2, <1>3, <1>5, <1>6, <2>1, <2>2, <2>3 DEF OnePlace
  <1>12. ConservedAt(w)'
    <2>1. /\ dispatched[w] \in Nat /\ drops[w] \in Nat /\ Len(queue[w]) \in Nat
          /\ Cardinality(batch[w]) \in Nat /\ Cardinality(served[w]) \in Nat
      BY Entries
    <2>2. dispatched[w] = drops[w] + Len(queue[w]) + (Cardinality(batch[w]) + 1)
                            + Cardinality(served[w])
      BY <1>1, <1>5, <1>9 DEF WorkerInv, ConservedAt
    <2>3. dispatched[w] = drops[w] + Len(queue[w]) + Cardinality(batch[w])
                            + (Cardinality(served[w]) + 1)
      <3> DEFINE l == Len(queue[w])
                 n == Cardinality(batch[w])
                 s == Cardinality(served[w])
      <3>1. drops[w] \in Nat /\ l \in Nat /\ n \in Nat /\ s \in Nat
        BY <2>1
      <3> HIDE DEF l, n, s
      <3>2. drops[w] + l + (n + 1) + s = drops[w] + l + n + (s + 1)
        BY <3>1, MoveOne
      <3> QED
        BY <2>2, <3>2, Zenon DEF l, n, s
    <2> QED
      BY <1>2, <1>3, <1>5, <1>9, <2>3 DEF ConservedAt
  <1>13. AccountingAt(w)' /\ pending'[w] \in Nat
    <2>1. acc[w] = Cardinality(open[w]) + 1 /\ pending[w] = Cardinality(batch[w]) + 1
      BY <1>1, <1>4 DEF AccountingAt, WorkerInv, c
    <2>2. /\ acc[w] = (Cardinality(open[w]) + 1) + 0
          /\ pending'[w] = Cardinality(batch[w]) + 0 /\ pending'[w] \in Nat
      BY <1>2, <2>1, Entries
    <2> QED
      BY <1>2, <1>3, <1>9, <2>2 DEF AccountingAt
  <1>14. DrainedAt(w)' /\ ShardAt(w)'
    BY <1>2 DEF DrainedAt, ShardAt
  <1>h. Held(w)' \subseteq Held(w)
    BY <1>2, <1>3, <1>5 DEF Held
  <1> QED
    BY <1>h, <1>2, <1>4, <1>8, <1>10, <1>11, <1>12, <1>13, <1>14 DEF WorkerInv

\* The rows reach the shard, all of them or, where the run has lost some, fewer.
LEMMA WriteShardsSelf ==
    ASSUME IInv, NEW w \in Workers, WriteShards(w) \/ WriteShardsFails(w), UNCHANGED config
    PROVE  /\ WorkerInv(w)' /\ shard'[w] \in Nat
           /\ Held(w)' \subseteq Held(w)
  <1>1. WorkerInv(w) /\ wpc[w] = "flush"
    BY DEF IInv, WriteShards, WriteShardsFails
  <1>2. Rows(w) \in Nat
    BY Entries DEF Rows
  <1>3. wpc'[w] = "exited"
    BY DEF WriteShards, WriteShardsFails, WGoto, IInv, TypeOK
  <1>4. /\ shard'[w] \in 0 .. Rows(w)
        /\ ~lost' => shard'[w] = Rows(w)
    <2>1. shard \in [Workers -> Nat]
      BY DEF IInv, TypeOK
    <2>2. CASE WriteShards(w)
      <3>1. shard'[w] = Rows(w)
        BY <2>1, <2>2 DEF WriteShards
      <3> QED
        BY <1>2, <3>1
    <2>3. CASE WriteShardsFails(w)
      <3>1. PICK n \in 0 .. Rows(w) : shard' = [shard EXCEPT ![w] = n]
        BY <2>3 DEF WriteShardsFails
      <3>2. lost'
        BY <2>3 DEF WriteShardsFails
      <3> QED
        BY <2>1, <3>1, <3>2
    <2> QED
      BY <2>2, <2>3
  <1>5. /\ queue'[w] = queue[w] /\ batch'[w] = batch[w] /\ cur'[w] = cur[w]
        /\ open'[w] = open[w] /\ backlog'[w] = backlog[w] /\ served'[w] = served[w]
        /\ bursts'[w] = bursts[w] /\ dispatched'[w] = dispatched[w]
        /\ drops'[w] = drops[w] /\ acc'[w] = acc[w] /\ pending'[w] = pending[w]
        /\ generated' = generated /\ shutdown' = shutdown
    BY DEF WriteShards, WriteShardsFails, generator, table, conns, rows
  <1>6. InHand(w) = {} /\ InHand(w)' = {} /\ Rows(w)' = Rows(w)
    BY <1>1, <1>3, <1>5 DEF InHand, Rows
  <1>7. Place(w)' /\ OnePlace(w)' /\ ConservedAt(w)'
    BY <1>1, <1>3, <1>5, <1>6 DEF WorkerInv, Place, OnePlace, ConservedAt
  <1>8. AccountingAt(w)' /\ DrainedAt(w)'
    BY <1>1, <1>3, <1>5 DEF WorkerInv, AccountingAt, DrainedAt
  <1>9. ShardAt(w)'
    BY <1>2, <1>4, <1>6 DEF ShardAt
  <1>h. Held(w)' \subseteq Held(w)
    BY <1>5, <1>6 DEF Held
  <1> QED
    BY <1>h, <1>2, <1>4, <1>7, <1>8, <1>9 DEF WorkerInv

\* The steps that only move a worker on.
LEMMA MoveOnSelf ==
    ASSUME IInv, NEW w \in Workers, UNCHANGED config,
           EndBatch(w) \/ Publish(w) \/ Check(w) \/ LoadEarly(w) \/ CheckLate(w)
    PROVE  WorkerInv(w)' /\ Held(w)' \subseteq Held(w)
  <1>1. WorkerInv(w) /\ wpc \in [Workers -> WPcs]
    BY DEF IInv, TypeOK
  <1>2. UNCHANGED Entry(w) /\ UNCHANGED <<config, generated, shutdown, lost>>
    BY DEF EndBatch, Publish, Check, LoadEarly, CheckLate, Entry, generator, table, conns,
           rows, files
  <1>3. CASE EndBatch(w)
    <2>1. batch[w] = {} /\ wpc[w] # "serve" /\ wpc'[w] \in {"publish", "check"}
      BY <1>1, <1>3 DEF EndBatch, WGoto
    <2> QED
      BY <1>2, <2>1, EmptyHanded
  <1>4. CASE Publish(w)
    <2>1. batch[w] = {} /\ wpc[w] # "serve" /\ wpc'[w] = "check"
      BY <1>1, <1>4 DEF Publish, WGoto, WorkerInv, Place
    <2> QED
      BY <1>2, <2>1, EmptyHanded
  <1>5. CASE Check(w)
    <2>1. batch[w] = {} /\ wpc[w] # "serve"
      BY <1>1, <1>5 DEF Check, WorkerInv, Place
    <2>2. \/ wpc'[w] = "top"
          \/ wpc'[w] = "flush" /\ shutdown /\ queue[w] = <<>> /\ backlog[w] = {}
      BY <1>1, <1>5 DEF Check, WGoto
    <2> QED
      BY <1>2, <2>1, <2>2, EmptyHanded
  <1>6. CASE LoadEarly(w)
    <2>1. batch[w] = {} /\ wpc[w] # "serve" /\ wpc'[w] = "checkLate" /\ config.weak
      BY <1>1, <1>6 DEF LoadEarly, WGoto, WorkerInv, Place
    <2> QED
      BY <1>2, <2>1, EmptyHanded
  <1>7. CASE CheckLate(w)
    <2>1. batch[w] = {} /\ wpc[w] # "serve" /\ config.weak
      BY <1>1, <1>7 DEF CheckLate, WorkerInv, Place
    <2>2. wpc'[w] = "top" \/ (wpc'[w] = "flush" /\ shutdown /\ backlog[w] = {})
      BY <1>1, <1>7 DEF CheckLate, WGoto
    <2> QED
      BY <1>2, <2>1, <2>2, EmptyHanded
  <1> QED
    BY <1>3, <1>4, <1>5, <1>6, <1>7

\* A new connection is queued or dropped; the target has not left, as the traffic
\* is not over.
LEMMA PushTarget ==
    ASSUME IInv, Push, UNCHANGED config, NEW w \in Workers, w = target
    PROVE  /\ WorkerInv(w)' /\ queue'[w] \in Seq(Ids) /\ Len(queue'[w]) <= QueueCap
           /\ Held(w)' \subseteq Held(w) \cup {generated}
  <1> DEFINE q == queue[w]
             g == generated
  <1>1. WorkerInv(w) /\ gpc = "push"
    BY DEF IInv, TypeOK, Push
  <1>2. g \in Ids /\ g \in Nat
    BY <1>1, BoundsAssumption DEF IInv, TypeOK, Parent, Ids
  <1>3. wpc[w] \notin {"flush", "exited"}
    BY <1>1 DEF IInv, Parent, WorkerInv, Place
  <1>4. /\ batch'[w] = batch[w] /\ cur'[w] = cur[w] /\ wpc' = wpc
        /\ open'[w] = open[w] /\ served'[w] = served[w] /\ acc'[w] = acc[w]
        /\ pending'[w] = pending[w] /\ generated' = g + 1
    BY DEF Push, table, conns, rows
  <1>5. InHand(w)' = InHand(w)
    BY <1>4 DEF InHand
  <1>6. /\ Place(w)' /\ AccountingAt(w)' /\ DrainedAt(w)' /\ ShardAt(w)'
    BY <1>1, <1>3, <1>4 DEF WorkerInv, Place, AccountingAt, DrainedAt, ShardAt
  <1>7. /\ q \in Seq(Ids) /\ Len(q) \in Nat /\ served[w] \in SUBSET Ids
        /\ Len(q) <= QueueCap /\ QueueCap \in Nat
        /\ dispatched \in [Workers -> Nat] /\ drops \in [Workers -> Nat]
        /\ queue \in [Workers -> Seq(Ids)]
    BY <1>1, Entries, BoundsAssumption DEF IInv, TypeOK
  <1>8. dispatched'[w] = dispatched[w] + 1
    BY <1>1, <1>7 DEF Push
  <1> DEFINE n == Cardinality(InHand(w))
             s == Cardinality(served[w])
  <1>9. InHand(w) \in SUBSET Ids /\ n \in Nat /\ s \in Nat
    <2>1. InHand(w) \in SUBSET Ids
      BY <1>1, Entries DEF InHand
    <2> QED
      BY <1>1, <2>1, IdsFinite, Entries
  <1>10. /\ \A k, l \in 1 .. Len(q) : k # l => q[k] # q[l]
         /\ \A k \in 1 .. Len(q) : q[k] \notin InHand(w) \cup served[w] /\ q[k] < g
         /\ InHand(w) \cap served[w] = {}
         /\ \A id \in InHand(w) \cup served[w] : id < g
         /\ open[w] \subseteq served[w]
    BY <1>1 DEF WorkerInv, OnePlace
  <1>11. dispatched[w] = drops[w] + Len(q) + n + s
    BY <1>1 DEF WorkerInv, ConservedAt
  <1>12. /\ g \notin InHand(w) /\ g \notin served[w]
         /\ \A i \in InHand(w) \cup served[w] : i < g + 1
         /\ \A k \in 1 .. Len(q) : q[k] # g /\ q[k] < g + 1
    <2>1. \A i \in Ids : i < g => i # g /\ i < g + 1
      BY <1>2, NoConnNotId
    <2>2. \A k \in 1 .. Len(q) : q[k] \in Ids
      BY <1>7, ElementOfSeq
    <2> QED
      BY <1>7, <1>9, <1>10, <2>1, <2>2
  <1>13. CASE Len(q) < QueueCap /\ queue' = [queue EXCEPT ![w] = Append(q, g)] /\ UNCHANGED drops
    <2> DEFINE a == Append(q, g)
    <2>1. queue'[w] = a /\ drops'[w] = drops[w]
      BY <1>1, <1>7, <1>13
    <2> HIDE DEF q, n, s
    <2>2. /\ a \in Seq(Ids) /\ Len(a) = Len(q) + 1 /\ a[Len(q) + 1] = g
          /\ \A k \in 1 .. Len(q) : a[k] = q[k]
      BY <1>2, <1>7, AppendProperties
    <2> HIDE DEF a
    <2>3. \A k \in 1 .. Len(a) : k \in 1 .. Len(q) \/ k = Len(q) + 1
      BY <1>7, <2>2
    <2>4. \A k, l \in 1 .. Len(a) : k # l => a[k] # a[l]
      BY <1>10, <1>12, <2>2, <2>3
    <2>5. \A k \in 1 .. Len(a) : a[k] \notin InHand(w) \cup served[w] /\ a[k] < g + 1
      <3>1. g < g + 1
        BY <1>2
      <3> QED
        BY <1>10, <1>12, <2>2, <2>3, <3>1
    <2>6. OnePlace(w)'
      BY <1>4, <1>5, <1>10, <1>12, <2>1, <2>4, <2>5 DEF OnePlace
    <2>7. ConservedAt(w)'
      <3>1. dispatched[w] + 1 = drops[w] + (Len(q) + 1) + n + s
        BY <1>1, <1>7, <1>9, <1>11
      <3> QED
        BY <1>4, <1>5, <1>8, <2>1, <2>2, <3>1 DEF ConservedAt, n, s
    <2>8. Len(a) <= QueueCap
      BY <1>7, <1>13, <2>2
    <2>9. Held(w)' \subseteq Held(w) \cup {g}
      <3>1. \A k \in 1 .. Len(a) : a[k] \in {q[i] : i \in 1 .. Len(q)} \cup {g}
        BY <2>2, <2>3
      <3> QED
        BY <1>4, <1>5, <2>1, <3>1 DEF Held, q
    <2> QED
      BY <1>6, <2>1, <2>2, <2>6, <2>7, <2>8, <2>9 DEF WorkerInv
  <1>14. CASE UNCHANGED queue /\ drops' = [drops EXCEPT ![w] = drops[w] + 1]
    <2>1. queue'[w] = q /\ drops'[w] = drops[w] + 1
      BY <1>1, <1>7, <1>14
    <2>2. OnePlace(w)'
      BY <1>4, <1>5, <1>10, <1>12, <2>1 DEF OnePlace
    <2>3. ConservedAt(w)'
      <3> HIDE DEF q, n, s
      <3>1. drops[w] \in Nat
        BY <1>1, <1>7
      <3>2. dispatched[w] + 1 = (drops[w] + 1) + Len(q) + n + s
        BY <1>7, <1>9, <1>11, <3>1
      <3> QED
        BY <1>4, <1>5, <1>8, <2>1, <3>2 DEF ConservedAt, n, s
    <2>4. Held(w)' \subseteq Held(w) \cup {g}
      BY <1>4, <1>5, <2>1 DEF Held
    <2> QED
      BY <1>6, <1>7, <2>1, <2>2, <2>3, <2>4 DEF WorkerInv
  <1> QED
    BY <1>13, <1>14 DEF Push
-----------------------------------------------------------------------------
(***************************************************************************)
(* Every step and every worker.                                            *)
(***************************************************************************)

\* A worker's step touches no other worker's entries.
LEMMA Others ==
    ASSUME IInv, NEW v \in Workers, Worker(v), NEW w \in Workers, w # v
    PROVE  UNCHANGED Entry(w) /\ wpc'[w] = wpc[w]
  <1> DEFINE Same == UNCHANGED Entry(w) /\ wpc'[w] = wpc[w]
  <1>0. /\ wpc \in [Workers -> WPcs] /\ open \in [Workers -> SUBSET Ids]
        /\ acc \in [Workers -> Nat] /\ pending \in [Workers -> Nat]
        /\ backlog \in [Workers -> SUBSET Ids] /\ batch \in [Workers -> SUBSET Ids]
        /\ bursts \in [Workers -> Nat] /\ shard \in [Workers -> Nat]
        /\ queue \in [Workers -> Seq(Ids)] /\ served \in [Workers -> SUBSET Ids]
        /\ cur \in [Workers -> Ids \cup {NoConn}]
    BY DEF IInv, TypeOK
  <1>1. CASE LoopTop(v)
    <2>1. wpc'[w] = wpc[w] /\ backlog'[w] = backlog[w]
      BY <1>0, <1>1 DEF LoopTop, WGoto
    <2>2. open'[w] = open[w] /\ acc'[w] = acc[w]
      BY <1>0, <1>1 DEF LoopTop
    <2> QED
      BY <1>1, <2>1, <2>2 DEF LoopTop, Entry, generator, rows, files
  <1>2. CASE TakeBurst(v)
    <2>1. wpc'[w] = wpc[w] /\ backlog'[w] = backlog[w] /\ batch'[w] = batch[w]
          /\ pending'[w] = pending[w]
      BY <1>0, <1>2 DEF TakeBurst, WGoto
    <2> QED
      BY <1>2, <2>1 DEF TakeBurst, Entry, generator, rows, files
  <1>3. CASE ServeBurst(v)
    <2>1. batch'[w] = batch[w] /\ pending'[w] = pending[w] /\ bursts'[w] = bursts[w]
      BY <1>0, <1>3 DEF ServeBurst
    <2> QED
      BY <1>3, <2>1 DEF ServeBurst, Entry, generator, conns, files
  <1>4. CASE Pop(v)
    <2>1. batch'[w] = batch[w] /\ queue'[w] = queue[w]
      BY <1>0, <1>4 DEF Pop
    <2> QED
      BY <1>4, <2>1 DEF Pop, Entry, generator, table, conns, rows, files
  <1>5. CASE EndPoll(v)
    <2>1. pending'[w] = pending[w] /\ wpc'[w] = wpc[w]
      BY <1>0, <1>5 DEF EndPoll, WGoto
    <2> QED
      BY <1>5, <2>1 DEF EndPoll, Entry, generator, conns, rows, files
  <1>6. CASE BeginConn(v)
    <2>1. cur'[w] = cur[w] /\ batch'[w] = batch[w] /\ acc'[w] = acc[w] /\ wpc'[w] = wpc[w]
      BY <1>0, <1>6 DEF BeginConn, WGoto
    <2> QED
      BY <1>6, <2>1 DEF BeginConn, Entry, generator, conns, rows, files
  <1>7. CASE FinishConn(v)
    <2>1. pending'[w] = pending[w] /\ open'[w] = open[w] /\ served'[w] = served[w]
          /\ cur'[w] = cur[w] /\ wpc'[w] = wpc[w]
      BY <1>0, <1>7 DEF FinishConn, WGoto
    <2> QED
      BY <1>7, <2>1 DEF FinishConn, Entry, generator, files
  <1>8. CASE EndBatch(v) \/ Publish(v) \/ Check(v) \/ LoadEarly(v) \/ CheckLate(v)
    <2>1. wpc'[w] = wpc[w]
      BY <1>0, <1>8 DEF EndBatch, Publish, Check, LoadEarly, CheckLate, WGoto
    <2> QED
      BY <1>8, <2>1 DEF EndBatch, Publish, Check, LoadEarly, CheckLate, Entry, generator,
         table, conns, rows, files
  <1>9. CASE WriteShards(v) \/ WriteShardsFails(v)
    <2>1. wpc'[w] = wpc[w] /\ shard'[w] = shard[w]
      BY <1>0, <1>9 DEF WriteShards, WriteShardsFails, WGoto
    <2> QED
      BY <1>9, <2>1 DEF WriteShards, WriteShardsFails, Entry, generator, table, conns, rows
  <1> QED
    BY <1>1, <1>2, <1>3, <1>4, <1>5, <1>6, <1>7, <1>8, <1>9 DEF Worker

\* A worker's step leaves the generator alone, and a lost row stays lost.
LEMMA WorkerLeaves ==
    ASSUME IInv, NEW v \in Workers, Worker(v)
    PROVE  UNCHANGED <<generator, completed>> /\ (lost => lost')
  <1>1. CASE LoopTop(v) \/ TakeBurst(v) \/ ServeBurst(v) \/ Pop(v) \/ EndPoll(v)
               \/ BeginConn(v) \/ FinishConn(v)
    BY <1>1 DEF LoopTop, TakeBurst, ServeBurst, Pop, EndPoll, BeginConn, FinishConn, files
  <1>2. CASE EndBatch(v) \/ Publish(v) \/ Check(v) \/ LoadEarly(v) \/ CheckLate(v)
               \/ WriteShards(v) \/ WriteShardsFails(v)
    BY <1>2 DEF EndBatch, Publish, Check, LoadEarly, CheckLate, WriteShards,
       WriteShardsFails, files
  <1> QED
    BY <1>1, <1>2 DEF Worker

\* Whatever step a worker takes, the invariant holds for it afterwards, and it has
\* no connection that it did not have.
LEMMA WorkerSelf ==
    ASSUME IInv, NEW w \in Workers, Worker(w), UNCHANGED config
    PROVE  WorkerInv(w)' /\ Held(w)' \subseteq Held(w)
  BY LoopTopSelf, TakeBurstSelf, ServeBurstSelf, PopSelf, EndPollSelf, BeginConnSelf,
     FinishConnSelf, WriteShardsSelf, MoveOnSelf DEF Worker

\* Nor does the generator touch a worker, but for the one it forks or pushes to.
LEMMA GeneratorOthers ==
    ASSUME IInv, Generator, NEW w \in Workers, ~Fork \/ w # target, ~Push \/ w # target
    PROVE  UNCHANGED Entry(w) /\ wpc'[w] = wpc[w]
  <1>0. /\ wpc \in [Workers -> WPcs] /\ queue \in [Workers -> Seq(Ids)]
        /\ dispatched \in [Workers -> Nat] /\ drops \in [Workers -> Nat]
        /\ target \in Workers
    BY DEF IInv, TypeOK
  <1>1. CASE Fork
    <2>1. wpc'[w] = wpc[w]
      BY <1>0, <1>1 DEF Fork, WGoto
    <2> QED
      BY <1>1, <2>1 DEF Fork, Entry, table, conns, rows, files
  <1>2. CASE Push
    <2>1. queue'[w] = queue[w] /\ dispatched'[w] = dispatched[w] /\ drops'[w] = drops[w]
      BY <1>0, <1>2 DEF Push
    <2> QED
      BY <1>2, <2>1 DEF Push, Entry, table, conns, rows, files
  <1>3. CASE \/ ForkFails \/ (\E h \in Hash64 : Dispatch(h)) \/ ScanIdle \/ ScanBusy
            \/ Fallback \/ RequestShutdown
    BY <1>3 DEF ForkFails, Dispatch, ScanIdle, ScanBusy, Fallback, RequestShutdown, Entry, table,
       conns, rows, files
  <1>4. CASE Summarize \/ MergeFails
    BY <1>4 DEF Summarize, MergeFails, Entry, table, conns, rows, files
  <1> QED
    BY <1>1, <1>2, <1>3, <1>4 DEF Generator

\* The generator's counters only grow, and its flags are not taken back.
LEMMA GeneratorGrows ==
    ASSUME IInv, Generator
    PROVE  /\ generated' \in Nat /\ generated <= generated'
           /\ (shutdown => shutdown') /\ (lost => lost')
  <1>0. generated \in Nat
    BY DEF IInv, TypeOK
  <1>1. CASE Push
    BY <1>0, <1>1 DEF Push, files
  <1>2. CASE Fork \/ ForkFails \/ (\E h \in Hash64 : Dispatch(h))
            \/ ScanIdle \/ ScanBusy \/ Fallback
    BY <1>0, <1>2 DEF Fork, ForkFails, Dispatch, ScanIdle, ScanBusy, Fallback, files
  <1>3. CASE RequestShutdown \/ Summarize \/ MergeFails
    BY <1>0, <1>3 DEF RequestShutdown, Summarize, MergeFails, files
  <1> QED
    BY <1>1, <1>2, <1>3 DEF Generator

\* The invariant holds for every worker after every step.
LEMMA WorkersStep ==
    ASSUME IInv, Next, NEW w \in Workers
    PROVE  WorkerInv(w)'
  <1>0. UNCHANGED config /\ generated \in Nat /\ generated <= generated
    BY DEF Next, IInv, TypeOK
  <1>1. ASSUME NEW v \in Workers, Worker(v) PROVE WorkerInv(w)'
    <2>1. CASE v = w
      BY <1>0, <1>1, <2>1, WorkerSelf
    <2>2. CASE v # w
      <3>1. UNCHANGED <<generated, shutdown>> /\ (lost => lost')
        BY <1>1, WorkerLeaves DEF generator
      <3>2. UNCHANGED Entry(w) /\ wpc'[w] = wpc[w]
        BY <1>1, <2>2, Others
      <3> QED
        BY <1>0, <3>1, <3>2, Frame
    <2> QED
      BY <2>1, <2>2
  <1>2. CASE Push /\ w = target
    BY <1>0, <1>2, PushTarget
  <1>3. CASE Fork /\ w = target
    <2>1. wpc[w] = "none" /\ batch[w] = {}
      <3>1. wpc[w] = "none"
        BY <1>3 DEF Fork, IInv, Parent, Workers
      <3> QED
        BY <3>1 DEF IInv, WorkerInv, Place
    <2>2. wpc'[w] = "top"
      BY <1>3 DEF Fork, WGoto, IInv, TypeOK
    <2>3. UNCHANGED Entry(w) /\ UNCHANGED <<generated, shutdown, lost>>
      BY <1>3 DEF Fork, Entry, table, conns, rows, files
    <2> QED
      BY <1>0, <2>1, <2>2, <2>3, EmptyHanded
  <1>4. CASE Generator /\ (~Fork \/ w # target) /\ (~Push \/ w # target)
    <2>1. UNCHANGED Entry(w) /\ wpc'[w] = wpc[w]
      BY <1>4, GeneratorOthers
    <2>2. /\ generated' \in Nat /\ generated <= generated'
          /\ (shutdown => shutdown') /\ (lost => lost')
      BY <1>4, GeneratorGrows
    <2> QED
      BY <1>0, <2>1, <2>2, Frame
  <1> QED
    BY <1>1, <1>2, <1>3, <1>4 DEF Next
-----------------------------------------------------------------------------
(***************************************************************************)
(* The generator and the summary.                                          *)
(***************************************************************************)

\* A worker that is not there, or has left, takes no step.
LEMMA OnlyTheLiving ==
    ASSUME NEW w \in Workers, Worker(w)
    PROVE  wpc[w] \notin {"none", "exited"}
  BY DEF Worker, LoopTop, TakeBurst, ServeBurst, Pop, EndPoll, BeginConn, FinishConn,
     EndBatch, Publish, Check, LoadEarly, CheckLate, WriteShards, WriteShardsFails

\* The generator's own invariant.
LEMMA ParentStep ==
    ASSUME IInv, Next
    PROVE  Parent'
  <1>0. /\ Parent /\ wpc \in [Workers -> WPcs] /\ target \in Workers
        /\ generated \in Nat /\ MaxConns \in Nat
    BY BoundsAssumption DEF IInv, TypeOK
  <1>1. ASSUME NEW v \in Workers, Worker(v) PROVE Parent'
    <2>1. UNCHANGED <<gpc, target, generated, shutdown>>
      BY <1>1, WorkerLeaves DEF generator
    <2>2. ASSUME gpc = "fork", NEW w \in Workers, target <= w PROVE wpc'[w] = "none"
      <3>1. wpc[w] = "none"
        BY <1>0, <2>2 DEF Parent
      <3>2. w # v
        BY <1>1, <3>1, OnlyTheLiving
      <3> QED
        BY <1>1, <3>1, <3>2, Others
    <2> QED
      BY <1>0, <2>1, <2>2 DEF Parent
  <1>2. CASE Fork
    <2>1. gpc' # "fork" \/ target' = target + 1
      BY <1>2 DEF Fork
    <2>2. ASSUME gpc' = "fork", NEW w \in Workers, target' <= w PROVE wpc'[w] = "none"
      <3>1. w # target /\ target <= w
        BY <1>0, <2>1, <2>2 DEF Workers
      <3> QED
        BY <1>0, <1>2, <3>1 DEF Fork, WGoto, Parent
    <2> QED
      BY <1>0, <1>2, <2>2 DEF Fork, Parent
  <1>3. CASE ForkFails \/ ScanIdle \/ ScanBusy \/ Fallback
    <2>1. CASE ForkFails
      BY <1>0, <2>1 DEF ForkFails, Parent
    <2>2. CASE ScanIdle
      BY <1>0, <2>2 DEF ScanIdle, ScanOn, Parent
    <2>3. CASE ScanBusy
      BY <1>0, <2>3 DEF ScanBusy, ScanOn, Parent
    <2>4. CASE Fallback
      BY <1>0, <2>4 DEF Fallback, Parent
    <2> QED
      BY <1>3, <2>1, <2>2, <2>3, <2>4
  <1>4. CASE \E h \in Hash64 : Dispatch(h)
    BY <1>0, <1>4 DEF Dispatch, Parent
  <1>5. CASE Push \/ RequestShutdown
    BY <1>0, <1>5 DEF Push, RequestShutdown, Parent
  <1>6. CASE Summarize \/ MergeFails
    BY <1>0, <1>6 DEF Summarize, MergeFails, Parent
  <1> QED
    BY <1>1, <1>2, <1>3, <1>4, <1>5, <1>6 DEF Next, Generator

\* The summary is made when every worker has left, and nothing changes then.
LEMMA SummaryStep ==
    ASSUME IInv, Next
    PROVE  Summary'
  <1>0. Summary /\ shard \in [Workers -> Nat] /\ 0 < NumWorkers /\ NumWorkers \in Nat
    BY NumWorkersAssumption DEF IInv, TypeOK
  <1>1. ASSUME NEW v \in Workers, Worker(v) PROVE Summary'
    <2>1. gpc # "done"
      BY <1>0, <1>1, OnlyTheLiving DEF Summary
    <2>2. gpc' = gpc
      BY <1>1, WorkerLeaves DEF generator
    <2> QED
      BY <2>1, <2>2 DEF Summary
  <1>2. CASE Summarize
    <2>1. \A w \in Workers : completed'[w] = shard[w] /\ shard'[w] = shard[w] /\ wpc'[w] = "exited"
      BY <1>2 DEF Summarize, CompletedPerWorker, Reaped, files
    <2> QED
      BY <1>0, <2>1 DEF Summary
  <1>3. CASE MergeFails
    <2>1. PICK opened \in SUBSET Workers : completed' = CompletedPerWorker(opened)
      BY <1>3 DEF MergeFails
    <2>2. \A w \in Workers : completed'[w] <= shard[w]
      BY <1>0, <2>1 DEF CompletedPerWorker
    <2>3. lost' /\ shard' = shard /\ \A w \in Workers : wpc'[w] = "exited"
      BY <1>3 DEF MergeFails, Reaped
    <2> QED
      BY <2>2, <2>3 DEF Summary
  <1>4. CASE Fork \/ ForkFails \/ (\E h \in Hash64 : Dispatch(h)) \/ ScanIdle \/ ScanBusy
               \/ Fallback \/ Push \/ RequestShutdown
    <2>1. gpc' # "done"
      BY <1>4 DEF Fork, ForkFails, Dispatch, ScanIdle, ScanBusy, ScanOn, Fallback, Push,
                  RequestShutdown
    <2> QED
      BY <2>1 DEF Summary
  <1> QED
    BY <1>1, <1>2, <1>3, <1>4 DEF Next, Generator
-----------------------------------------------------------------------------
(***************************************************************************)
(* Types.                                                                  *)
(***************************************************************************)

\* A scaled hash is the index of one of n workers.
LEMMA ScaleInRange ==
    ASSUME NEW h \in Hash, NEW n \in 1 .. 4
    PROVE  ReciprocalScale(h, n) \in 0 .. n - 1
  <1>1. HashRange \in Nat /\ HashRange > 0 /\ h \in Nat /\ h < HashRange
    BY HashRangeAssumption DEF Hash
  <1> DEFINE m == h * n
  <1>2. m \in Nat /\ m < HashRange * n
    BY <1>1
  <1> HIDE DEF m
  <1>3. m \div HashRange \in Int /\ m \div HashRange >= 0
    BY <1>1, <1>2
  <1>4. m \div HashRange < n
    BY <1>1, <1>2
  <1> QED
    BY <1>3, <1>4 DEF ReciprocalScale, m

\* Some worker has the shortest backlog, and the highest id among those.
LEMMA ShortestExists ==
    ASSUME NEW len \in [Workers -> Nat]
    PROVE  ShortestBacklog(len) \in Workers
  <1> DEFINE Best(i) == \A j \in Workers : len[i] < len[j] \/ (len[i] = len[j] /\ j <= i)
  <1>1. \E i \in Workers : Best(i)
    <2>1. CASE NumWorkers = 1
      <3>1. Workers = {0}
        BY <2>1 DEF Workers
      <3> QED
        BY <3>1
    <2>2. CASE NumWorkers = 2
      <3>1. Workers = {0, 1}
        BY <2>2 DEF Workers
      <3>2. len[0] \in Nat /\ len[1] \in Nat
        BY <3>1
      <3> QED
        BY <3>1, <3>2
    <2>3. CASE NumWorkers = 3
      <3>1. Workers = {0, 1, 2}
        BY <2>3 DEF Workers
      <3>2. len[0] \in Nat /\ len[1] \in Nat /\ len[2] \in Nat
        BY <3>1
      <3>3. Best(0) \/ Best(1) \/ Best(2)
        BY <3>1, <3>2
      <3> QED
        BY <3>1, <3>3
    <2>4. CASE NumWorkers = 4
      <3>1. Workers = {0, 1, 2, 3}
        BY <2>4 DEF Workers
      <3>2. len[0] \in Nat /\ len[1] \in Nat /\ len[2] \in Nat /\ len[3] \in Nat
        BY <3>1
      <3>3. Best(0) \/ Best(1) \/ Best(2) \/ Best(3)
        BY <3>1, <3>2
      <3> QED
        BY <3>1, <3>3
    <2> QED
      BY <2>1, <2>2, <2>3, <2>4, NumWorkersAssumption
  <1> QED
    BY <1>1 DEF ShortestBacklog

\* The worker that dispatch settles on is one of the workers, whatever the policy,
\* the bitmap and the hash.
LEMMA DispatchInRange ==
    ASSUME NEW hash \in Hash64, NEW bitmap
    PROVE  DispatchHermes(bitmap, hash) \in Workers /\ ReuseportHash(hash) \in Workers
  <1>0. AsU32(hash) \in Hash
    <2>1. HashRange \in Nat \ {0} /\ hash \in Int
      BY HashRangeAssumption DEF Hash64
    <2> QED
      BY <2>1 DEF AsU32, Hash
  <1>1. ReuseportHash(hash) \in Workers
    BY <1>0, NumWorkersAssumption, ScaleInRange DEF ReuseportHash, Workers
  <1>2. NumWorkers - 1 \in Workers
    BY NumWorkersAssumption DEF Workers
  <1>3. ASSUME NEW nth PROVE FindNthSetBit(bitmap, nth, NumWorkers - 1) \in Workers
    <2>1. NthSetBits(bitmap, nth) \subseteq Workers
      BY DEF NthSetBits
    <2> QED
      BY <1>2, <2>1 DEF FindNthSetBit
  <1> QED
    BY <1>1, <1>3 DEF DispatchHermes

\* The entries of the queues, as one function and one by one.
Queues == /\ queue \in [Workers -> Seq(Ids)]
          /\ \A w \in Workers : Len(queue[w]) <= QueueCap

\* The types of everything but the queues.
TypeRest ==
    /\ config \in Configs
    /\ gpc \in {"fork", "panicked", "gen", "scan", "scanBusy", "fallback", "push", "wait", "done"}
    /\ target \in Workers
    /\ depth \in [Workers -> 0 .. QueueCap] /\ generated \in 0 .. MaxConns
    /\ dispatched \in [Workers -> Nat] /\ drops \in [Workers -> Nat]
    /\ msel \subseteq Workers /\ shutdown \in BOOLEAN
    /\ pending \in [Workers -> Nat] /\ acc \in [Workers -> Nat]
    /\ wpc \in [Workers -> WPcs] /\ batch \in [Workers -> SUBSET Ids]
    /\ cur \in [Workers -> Ids \cup {NoConn}]
    /\ open \in [Workers -> SUBSET Ids] /\ due \subseteq Workers
    /\ backlog \in [Workers -> SUBSET Ids] /\ sawEmpty \in [Workers -> BOOLEAN]
    /\ served \in [Workers -> SUBSET Ids] /\ bursts \in [Workers -> Nat]
    /\ shard \in [Workers -> Nat] /\ lost \in BOOLEAN
    /\ completed \in [Workers -> Nat]

\* The type invariant in two parts.
LEMMA TypeParts == /\ TypeOK /\ queue \in [Workers -> Seq(Ids)] <=> TypeRest /\ Queues
                   /\ IInv => TypeRest /\ Queues
  <1>1. TypeOK /\ queue \in [Workers -> Seq(Ids)] <=> TypeRest /\ Queues
    BY DEF TypeOK, TypeRest, Queues
  <1> QED
    BY <1>1 DEF IInv

\* A worker's step keeps the types.
LEMMA WorkerTypes ==
    ASSUME IInv, NEW w \in Workers, Worker(w), UNCHANGED config
    PROVE  TypeRest' /\ Queues'
  <1>0. TypeRest /\ Queues
    BY TypeParts
  <1>g. /\ gpc' \in {"fork", "panicked", "gen", "scan", "scanBusy", "fallback", "push", "wait", "done"}
        /\ target' \in Workers /\ config' \in Configs
        /\ depth' \in [Workers -> 0 .. QueueCap] /\ generated' \in 0 .. MaxConns
        /\ dispatched' \in [Workers -> Nat] /\ drops' \in [Workers -> Nat]
        /\ shutdown' \in BOOLEAN /\ completed' \in [Workers -> Nat]
    BY <1>0, WorkerLeaves DEF TypeRest, generator
  <1>1. CASE LoopTop(w)
    <2>1. acc'[w] \in Nat
      BY <1>1, LoopTopSelf
    <2>2. PICK closed \in SUBSET open[w] :
             /\ open' = [open EXCEPT ![w] = open[w] \ closed]
             /\ acc' = [acc EXCEPT ![w] = acc[w] - Cardinality(closed)]
      BY <1>1 DEF LoopTop
    <2>3. acc' \in [Workers -> Nat] /\ open' \in [Workers -> SUBSET Ids]
      BY <1>0, <2>1, <2>2 DEF TypeRest
    <2>4. \/ UNCHANGED <<due, backlog>>
          \/ due' = due \ {w} /\ backlog' = [backlog EXCEPT ![w] = open'[w]]
      BY <1>1 DEF LoopTop
    <2>5. due' \subseteq Workers /\ backlog' \in [Workers -> SUBSET Ids]
      BY <1>0, <2>3, <2>4 DEF TypeRest
    <2>6. wpc' \in [Workers -> WPcs]
      BY <1>0, <1>1 DEF LoopTop, WGoto, TypeRest, WPcs
    <2> QED
      BY <1>0, <1>1, <1>g, <2>3, <2>5, <2>6 DEF LoopTop, rows, files, TypeRest, Queues
  <1>2. CASE TakeBurst(w)
    <2>1. pending'[w] \in Nat /\ batch'[w] \in SUBSET Ids
      BY <1>2, TakeBurstSelf
    <2>2. PICK ids : /\ batch' = [batch EXCEPT ![w] = ids]
                     /\ backlog' = [backlog EXCEPT ![w] = backlog[w] \ ids]
                     /\ pending' = [pending EXCEPT ![w] = pending[w] + Cardinality(ids)]
      BY <1>2 DEF TakeBurst
    <2>3. /\ batch' \in [Workers -> SUBSET Ids] /\ backlog' \in [Workers -> SUBSET Ids]
          /\ pending' \in [Workers -> Nat]
      BY <1>0, <2>1, <2>2 DEF TypeRest
    <2>4. wpc' \in [Workers -> WPcs]
      BY <1>0, <1>2 DEF TakeBurst, WGoto, TypeRest, WPcs
    <2> QED
      BY <1>0, <1>2, <1>g, <2>3, <2>4 DEF TakeBurst, rows, files, TypeRest, Queues
  <1>3. CASE ServeBurst(w)
    <2>1. pending'[w] \in Nat
      BY <1>3, ServeBurstSelf
    <2>2. /\ batch' \in [Workers -> SUBSET Ids] /\ pending' \in [Workers -> Nat]
          /\ bursts' \in [Workers -> Nat]
      BY <1>0, <1>3, <2>1 DEF ServeBurst, TypeRest
    <2> QED
      BY <1>0, <1>3, <1>g, <2>2 DEF ServeBurst, conns, files, TypeRest, Queues
  <1>4. CASE Pop(w)
    <2>1. batch'[w] \in SUBSET Ids /\ queue'[w] \in Seq(Ids) /\ Len(queue'[w]) <= Len(queue[w])
      BY <1>4, PopSelf
    <2>2. batch' \in [Workers -> SUBSET Ids]
      BY <1>0, <1>4, <2>1 DEF Pop, TypeRest
    <2>3. queue' \in [Workers -> Seq(Ids)] /\ \A v \in Workers : v # w => queue'[v] = queue[v]
      BY <1>0, <1>4, <2>1 DEF Pop, Queues
    <2>4. Queues'
      <3>1. Len(queue[w]) <= QueueCap /\ QueueCap \in Nat
            /\ Len(queue[w]) \in Nat /\ Len(queue'[w]) \in Nat
        BY <1>0, <2>1, BoundsAssumption DEF Queues
      <3>2. Len(queue'[w]) <= QueueCap
        <4> DEFINE a == Len(queue[w])
                   b == Len(queue'[w])
        <4>1. a <= QueueCap /\ b <= a /\ a \in Nat /\ b \in Nat /\ QueueCap \in Nat
          BY <2>1, <3>1
        <4> HIDE DEF a, b
        <4>2. b <= QueueCap
          BY <4>1
        <4> QED
          BY <4>2 DEF b
      <3> QED
        BY <1>0, <2>3, <3>2 DEF Queues
    <2> QED
      BY <1>0, <1>4, <1>g, <2>2, <2>4 DEF Pop, table, conns, rows, files, TypeRest
  <1>5. CASE EndPoll(w)
    <2>1. pending'[w] \in Nat
      BY <1>5, EndPollSelf
    <2>2. pending' \in [Workers -> Nat] /\ wpc' \in [Workers -> WPcs]
      BY <1>0, <1>5, <2>1 DEF EndPoll, WGoto, TypeRest, WPcs
    <2> QED
      BY <1>0, <1>5, <1>g, <2>2 DEF EndPoll, conns, rows, files, TypeRest, Queues
  <1>6. CASE BeginConn(w)
    <2>1. acc'[w] \in Nat /\ cur'[w] \in Ids /\ batch'[w] \in SUBSET Ids
      BY <1>6, BeginConnSelf
    <2>2. /\ acc' \in [Workers -> Nat] /\ wpc' \in [Workers -> WPcs]
          /\ cur' \in [Workers -> Ids \cup {NoConn}] /\ batch' \in [Workers -> SUBSET Ids]
      BY <1>0, <1>6, <2>1 DEF BeginConn, WGoto, TypeRest, WPcs
    <2> QED
      BY <1>0, <1>6, <1>g, <2>2 DEF BeginConn, conns, rows, files, TypeRest, Queues
  <1>7. CASE FinishConn(w)
    <2>1. pending'[w] \in Nat /\ open'[w] \in SUBSET Ids /\ served'[w] \in SUBSET Ids
      BY <1>7, FinishConnSelf
    <2>2. /\ pending' \in [Workers -> Nat] /\ wpc' \in [Workers -> WPcs]
          /\ cur' \in [Workers -> Ids \cup {NoConn}]
      BY <1>0, <1>7, <2>1 DEF FinishConn, WGoto, TypeRest, WPcs
    <2>3. open' \in [Workers -> SUBSET Ids] /\ served' \in [Workers -> SUBSET Ids]
      BY <1>0, <1>7, <2>1 DEF FinishConn, TypeRest
    <2> QED
      BY <1>0, <1>7, <1>g, <2>2, <2>3 DEF FinishConn, files, TypeRest, Queues
  <1>8. CASE EndBatch(w) \/ Publish(w) \/ Check(w) \/ LoadEarly(w) \/ CheckLate(w)
    <2>1. wpc' \in [Workers -> WPcs]
      BY <1>0, <1>8 DEF EndBatch, Publish, Check, LoadEarly, CheckLate, WGoto, TypeRest, WPcs
    <2>2. sawEmpty' \in [Workers -> BOOLEAN] /\ msel' \subseteq Workers
      BY <1>0, <1>8 DEF EndBatch, Publish, Check, LoadEarly, CheckLate, TypeRest
    <2>3. UNCHANGED <<queue, table, batch, cur, conns, rows, files>>
      BY <1>8 DEF EndBatch, Publish, Check, LoadEarly, CheckLate
    <2> QED
      BY <1>0, <1>g, <2>1, <2>2, <2>3 DEF table, conns, rows, files, TypeRest, Queues
  <1>9. CASE WriteShards(w) \/ WriteShardsFails(w)
    <2>1. shard'[w] \in Nat
      BY <1>9, WriteShardsSelf
    <2>2. wpc' \in [Workers -> WPcs] /\ lost' \in BOOLEAN
      BY <1>0, <1>9 DEF WriteShards, WriteShardsFails, WGoto, TypeRest, WPcs
    <2>3. PICK n : shard' = [shard EXCEPT ![w] = n]
      BY <1>9 DEF WriteShards, WriteShardsFails
    <2>4. shard' \in [Workers -> Nat]
      BY <1>0, <2>1, <2>3 DEF TypeRest
    <2>5. UNCHANGED <<queue, msel, table, batch, cur, conns, sawEmpty, rows>>
      BY <1>9 DEF WriteShards, WriteShardsFails
    <2> QED
      BY <1>0, <1>g, <2>2, <2>4, <2>5 DEF table, conns, rows, TypeRest, Queues
  <1> QED
    BY <1>1, <1>2, <1>3, <1>4, <1>5, <1>6, <1>7, <1>8, <1>9 DEF Worker

\* So does a step of the generator.
LEMMA GeneratorTypes ==
    ASSUME IInv, Generator, UNCHANGED config
    PROVE  TypeRest' /\ Queues'
  <1>0. /\ TypeRest /\ Queues /\ NumWorkers \in 1 .. 4 /\ QueueCap \in Nat
        /\ 0 \in Workers /\ NumWorkers - 1 \in Workers
    BY TypeParts, NumWorkersAssumption, BoundsAssumption DEF Workers
  <1>1. CASE Fork
    <2>1. target' \in Workers
      <3>1. target \in Workers /\ (target' = 0 \/ (target' = target + 1 /\ target < NumWorkers - 1))
        BY <1>0, <1>1 DEF Fork, TypeRest
      <3> QED
        BY <1>0, <3>1 DEF Workers
    <2>2. wpc' \in [Workers -> WPcs]
      BY <1>0, <1>1 DEF Fork, WGoto, TypeRest, WPcs
    <2> QED
      BY <1>0, <1>1, <2>1, <2>2 DEF Fork, table, conns, rows, files, TypeRest, Queues
  <1>2. CASE \E h \in Hash64 : Dispatch(h)
    <2>1. PICK h \in Hash64 : Dispatch(h)
      BY <1>2
    <2>2. target' \in Workers /\ gpc' \in {"push", "scan"}
      BY <1>0, <2>1, DispatchInRange DEF Dispatch
    <2> QED
      BY <1>0, <2>1, <2>2 DEF Dispatch, table, conns, rows, files, TypeRest, Queues
  <1>3. CASE ScanIdle \/ ScanBusy
    <2>1. target' \in Workers /\ gpc' \in {"push", "scan", "scanBusy", "fallback"}
      <3>1. /\ target \in Workers /\ gpc' \in {"push", "scan", "scanBusy", "fallback"}
            /\ target' = target \/ (target' = target - 1 /\ target # 0)
        BY <1>0, <1>3 DEF ScanIdle, ScanBusy, ScanOn, TypeRest
      <3> QED
        BY <1>0, <3>1 DEF Workers
    <2> QED
      BY <1>0, <1>3, <2>1 DEF ScanIdle, ScanBusy, table, conns, rows, files, TypeRest, Queues
  <1>4. CASE Fallback
    <2> DEFINE read == [depth EXCEPT ![target] = Len(queue[target])]
    <2>1. target \in Workers /\ Len(queue[target]) \in 0 .. QueueCap
      BY <1>0 DEF TypeRest, Queues
    <2>2. read \in [Workers -> 0 .. QueueCap]
      BY <1>0, <2>1 DEF TypeRest
    <2>3. \/ target' = target + 1 /\ target < NumWorkers - 1 /\ depth' = read
          \/ target' = ShortestBacklog(read) /\ depth' = [w \in Workers |-> 0]
      BY <1>4 DEF Fallback
    <2>4. read \in [Workers -> Nat]
      BY <1>0, <2>2
    <2> HIDE DEF read
    <2>5. target' \in Workers
      <3>1. ShortestBacklog(read) \in Workers
        BY <2>4, ShortestExists
      <3>2. target < NumWorkers - 1 => target + 1 \in Workers
        BY <1>0, <2>1 DEF Workers
      <3> QED
        BY <2>3, <3>1, <3>2
    <2>6. depth' \in [Workers -> 0 .. QueueCap]
      <3>1. 0 \in 0 .. QueueCap
        BY <1>0
      <3> QED
        BY <2>2, <2>3, <3>1
    <2>7. gpc' \in {"push", "fallback"}
      BY <1>4 DEF Fallback
    <2> QED
      BY <1>0, <1>4, <2>5, <2>6, <2>7 DEF Fallback, table, conns, rows, files, TypeRest, Queues
  <1>5. CASE Push
    <2>1. target \in Workers /\ queue'[target] \in Seq(Ids) /\ Len(queue'[target]) <= QueueCap
      <3>1. target \in Workers
        BY <1>0 DEF TypeRest
      <3> QED
        BY <1>5, <3>1, PushTarget
    <2>2. queue' = [queue EXCEPT ![target] = Append(queue[target], generated)] \/ queue' = queue
      BY <1>5 DEF Push
    <2>3. drops' = [drops EXCEPT ![target] = drops[target] + 1] \/ drops' = drops
      BY <1>5 DEF Push
    <2>4. drops' \in [Workers -> Nat] /\ dispatched' \in [Workers -> Nat]
      <3>1. drops \in [Workers -> Nat] /\ dispatched \in [Workers -> Nat]
        BY <1>0 DEF TypeRest
      <3>2. dispatched' = [dispatched EXCEPT ![target] = dispatched[target] + 1]
        BY <1>5 DEF Push
      <3>3. drops[target] + 1 \in Nat /\ dispatched[target] + 1 \in Nat
        BY <2>1, <3>1
      <3> QED
        BY <2>3, <3>1, <3>2, <3>3
    <2>5. Queues'
      <3>1. \A w \in Workers : w # target => queue'[w] = queue[w]
        BY <1>0, <2>2 DEF Queues
      <3>2. queue' \in [Workers -> Seq(Ids)]
        BY <1>0, <2>1, <2>2 DEF Queues
      <3> QED
        BY <1>0, <2>1, <3>1, <3>2 DEF Queues
    <2>6. generated' \in 0 .. MaxConns
      BY <1>5, BoundsAssumption DEF Push, IInv, TypeOK, Parent
    <2> QED
      BY <1>0, <1>5, <2>4, <2>5, <2>6 DEF Push, table, conns, rows, files, TypeRest
  <1>6. CASE ForkFails \/ RequestShutdown
    BY <1>0, <1>6 DEF ForkFails, RequestShutdown, table, conns, rows, files, TypeRest, Queues
  <1>7. CASE Summarize \/ MergeFails
    <2>1. ASSUME NEW opened \in SUBSET Workers PROVE CompletedPerWorker(opened) \in [Workers -> Nat]
      BY <1>0 DEF CompletedPerWorker, TypeRest
    <2>2. completed' \in [Workers -> Nat]
      BY <1>7, <2>1 DEF Summarize, MergeFails
    <2>3. /\ lost' \in BOOLEAN /\ gpc' = "done"
          /\ UNCHANGED <<target, depth, generated, dispatched, drops, shutdown, queue, msel,
                         table, wpc, batch, cur, conns, sawEmpty, rows, shard>>
      BY <1>0, <1>7 DEF Summarize, MergeFails, files, TypeRest
    <2> QED
      BY <1>0, <2>2, <2>3 DEF table, conns, rows, TypeRest, Queues
  <1> QED
    BY <1>1, <1>2, <1>3, <1>4, <1>5, <1>6, <1>7 DEF Generator

\* Nothing has been generated when the program starts.
LEMMA InitIInv == Init => IInv
  <1> SUFFICES ASSUME Init PROVE IInv
    OBVIOUS
  <1>1. TypeRest
    BY NumWorkersAssumption, BoundsAssumption DEF Init, TypeRest, Workers, WPcs
  <1>2. Queues
    BY BoundsAssumption DEF Init, Queues
  <1>3. Parent /\ Summary
    BY DEF Init, Parent, Summary
  <1>4. ASSUME NEW w \in Workers PROVE WorkerInv(w)
    <2>1. /\ queue[w] = <<>> /\ batch[w] = {} /\ cur[w] = NoConn /\ open[w] = {}
          /\ served[w] = {} /\ wpc[w] = "none" /\ dispatched[w] = 0 /\ drops[w] = 0
          /\ acc[w] = 0 /\ pending[w] = 0
      BY DEF Init
    <2>2. InHand(w) = {} /\ Cardinality({}) = 0 /\ Len(queue[w]) = 0
      BY <2>1, FS_EmptySet DEF InHand
    <2>3. Place(w) /\ OnePlace(w) /\ DrainedAt(w) /\ ShardAt(w)
      BY <2>1, <2>2 DEF Place, OnePlace, DrainedAt, ShardAt
    <2>4. ConservedAt(w) /\ AccountingAt(w)
      BY <2>1, <2>2 DEF ConservedAt, AccountingAt
    <2> QED
      BY <2>3, <2>4 DEF WorkerInv
  <1> QED
    BY <1>1, <1>2, <1>3, <1>4, TypeParts DEF IInv

\* The invariant is inductive.
THEOREM InductiveInvariant == Spec => []IInv
  <1>1. IInv /\ [Next]_vars => IInv'
    <2> SUFFICES ASSUME IInv, [Next]_vars PROVE IInv'
      OBVIOUS
    <2>1. CASE Next
      <3>1. TypeRest' /\ Queues'
        BY <2>1, WorkerTypes, GeneratorTypes DEF Next
      <3>2. TypeOK' /\ queue' \in [Workers -> Seq(Ids)]
        BY <3>1 DEF TypeOK, TypeRest, Queues
      <3> QED
        BY <2>1, <3>2, ParentStep, SummaryStep, WorkersStep DEF IInv
    <2>2. CASE UNCHANGED vars
      <3>1. ASSUME NEW w \in Workers PROVE WorkerInv(w)'
        <4>1. generated \in Nat /\ generated <= generated
          BY DEF IInv, TypeOK
        <4>2. UNCHANGED Entry(w) /\ UNCHANGED <<config, generated, shutdown, lost, wpc>>
          BY <2>2 DEF vars, generator, table, conns, rows, files, Entry
        <4> QED
          BY <4>1, <4>2, Frame
      <3>2. TypeOK' /\ queue' \in [Workers -> Seq(Ids)]
        BY <2>2 DEF IInv, TypeOK, vars, generator, table, conns, rows, files
      <3>3. Parent' /\ Summary'
        BY <2>2 DEF IInv, Parent, Summary, vars, generator, files
      <3> QED
        BY <3>1, <3>2, <3>3 DEF IInv
    <2> QED
      BY <2>1, <2>2
  <1> QED
    BY InitIInv, <1>1, PTL DEF Spec
-----------------------------------------------------------------------------
\* The simulation's variables have their types: dispatch always picks one of the
\* workers, a queue never exceeds QUEUE_CAP and no counter goes below zero.
THEOREM TypeCorrect == Spec => []TypeOK
  BY InductiveInvariant, PTL DEF IInv

\* No connection is lost or made up between the generator and the served rows, for
\* every number of connections, queue and batch size (generator, poll_accept_queue).
THEOREM NothingIsLost == Spec => []Conserved
  <1>1. IInv => Conserved
    BY DEF IInv, WorkerInv, ConservedAt, Conserved
  <1> QED
    BY <1>1, InductiveInvariant, PTL

\* The counters in the status table are what the worker holds, whatever is closed,
\* burst or drained between two updates (worker_loop).
THEOREM CountersAreExact == Spec => []Accounting
  <1>1. IInv => Accounting
    BY DEF IInv, WorkerInv, AccountingAt, Accounting
  <1> QED
    BY <1>1, InductiveInvariant, PTL

\* A worker leaves with every follow-up served and, where loads keep their order,
\* every connection: nothing is queued after the shutdown request (worker_loop).
THEOREM LeavesDrained == Spec => []ExitedDrained
  <1>1. IInv => ExitedDrained
    BY DEF IInv, WorkerInv, DrainedAt, ExitedDrained
  <1> QED
    BY <1>1, InductiveInvariant, PTL

\* Without a burst in the profile nothing is ever followed up.
NoFollowUps ==
    Bursts \/ /\ due = {}
              /\ \A w \in Workers : /\ backlog[w] = {} /\ bursts[w] = 0
                                     /\ wpc[w] \notin {"burst", "follow"}

\* Follow-ups come from a burst that is due, and none becomes due (worker_loop).
LEMMA NoFollowUpsStep == ASSUME IInv, NoFollowUps, Next PROVE NoFollowUps'
  <1>0. /\ wpc \in [Workers -> WPcs] /\ backlog \in [Workers -> SUBSET Ids]
        /\ bursts \in [Workers -> Nat]
    BY DEF IInv, TypeOK
  <1>1. Bursts' = Bursts
    BY DEF Next, Bursts
  <1> SUFFICES ASSUME ~Bursts
               PROVE  /\ due' = {}
                      /\ \A w \in Workers : /\ backlog'[w] = {} /\ bursts'[w] = 0
                                             /\ wpc'[w] \notin {"burst", "follow"}
    BY <1>1 DEF NoFollowUps
  <1>2. /\ due = {}
        /\ \A w \in Workers : /\ backlog[w] = {} /\ bursts[w] = 0
                               /\ wpc[w] \notin {"burst", "follow"}
    BY DEF NoFollowUps
  <1>3. ASSUME NEW v \in Workers, LoopTop(v)
        PROVE  UNCHANGED <<due, backlog, bursts>> /\ wpc' = [wpc EXCEPT ![v] = "poll"]
    BY <1>2, <1>3 DEF LoopTop, WGoto, rows
  <1>4. ASSUME NEW v \in Workers, TakeBurst(v) \/ ServeBurst(v) PROVE FALSE
    BY <1>2, <1>4 DEF TakeBurst, ServeBurst
  <1>5. ASSUME NEW v \in Workers, Worker(v), ~LoopTop(v)
        PROVE  /\ UNCHANGED <<due, backlog, bursts>>
               /\ \E l \in WPcs \ {"burst", "follow"} : wpc' = [wpc EXCEPT ![v] = l]
    <2>1. CASE Pop(v) \/ EndPoll(v) \/ BeginConn(v)
      BY <1>0, <1>2, <2>1 DEF Pop, EndPoll, BeginConn, WGoto, conns, rows, WPcs
    <2>2. CASE FinishConn(v) \/ EndBatch(v) \/ Publish(v)
      BY <2>2 DEF FinishConn, EndBatch, Publish, WGoto, conns, rows, WPcs
    <2>3. CASE Check(v) \/ LoadEarly(v) \/ CheckLate(v)
      BY <2>3 DEF Check, LoadEarly, CheckLate, WGoto, conns, rows, WPcs
    <2>4. CASE WriteShards(v) \/ WriteShardsFails(v)
      BY <2>4 DEF WriteShards, WriteShardsFails, WGoto, conns, rows, WPcs
    <2> QED
      BY <1>4, <1>5, <2>1, <2>2, <2>3, <2>4 DEF Worker
  <1>6. ASSUME Generator
        PROVE  /\ UNCHANGED <<due, backlog, bursts>>
               /\ wpc' = wpc \/ wpc' = [wpc EXCEPT ![target] = "top"]
    BY <1>6 DEF Generator, Fork, ForkFails, Dispatch, ScanIdle, ScanBusy, Fallback, Push,
                RequestShutdown, Summarize, MergeFails, WGoto, conns, rows
  <1>7. CASE Generator
    BY <1>0, <1>2, <1>6, <1>7
  <1>8. ASSUME NEW v \in Workers, Worker(v)
        PROVE  /\ due' = {}
               /\ \A w \in Workers : /\ backlog'[w] = {} /\ bursts'[w] = 0
                                      /\ wpc'[w] \notin {"burst", "follow"}
    BY <1>0, <1>2, <1>3, <1>5, <1>8
  <1> QED
    BY <1>7, <1>8 DEF Next

\* What the run summary's counts are (summarize_conns, main): without a burst in
\* the profile never more than was dispatched and not dropped, with one never
\* more than that and the follow-ups served, and exactly so many when no row was
\* lost and loads kept their order.
THEOREM SummaryIsTrue == Spec => []SummaryCounts
  <1>1. IInv /\ NoFollowUps => SummaryCounts
    <2> SUFFICES ASSUME IInv, NoFollowUps, gpc = "done", NEW w \in Workers
                 PROVE  LET f == IF Bursts THEN bursts[w] ELSE 0
                        IN  /\ completed[w] + drops[w] <= dispatched[w] + f
                            /\ ~config.weak /\ ~lost
                                 => completed[w] + drops[w] = dispatched[w] + f
      BY DEF SummaryCounts
    <2>0. (IF Bursts THEN bursts[w] ELSE 0) = bursts[w]
      BY DEF NoFollowUps
    <2>1. /\ wpc[w] = "exited" /\ WorkerInv(w)
          /\ completed[w] <= shard[w] /\ (~lost => completed[w] = shard[w])
      BY DEF IInv, Summary
    <2>2. shard[w] <= Rows(w) /\ (~lost => shard[w] = Rows(w))
      BY <2>1 DEF WorkerInv, ShardAt
    <2>3. InHand(w) = {} /\ Cardinality(InHand(w)) = 0
      BY <2>1, FS_EmptySet DEF InHand
    <2> DEFINE l == Len(queue[w])
               s == Cardinality(served[w])
    <2>4. dispatched[w] = drops[w] + l + 0 + s /\ Rows(w) = s + bursts[w]
      BY <2>1, <2>3 DEF WorkerInv, ConservedAt, Rows
    <2>5. ~config.weak => l = 0
      BY <2>1 DEF WorkerInv, DrainedAt
    <2>6. /\ l \in Nat /\ s \in Nat /\ drops[w] \in Nat /\ bursts[w] \in Nat
          /\ shard[w] \in Nat /\ completed[w] \in Nat
      BY Entries DEF IInv, TypeOK
    <2> HIDE DEF l, s
    <2> QED
      BY <2>0, <2>1, <2>2, <2>4, <2>5, <2>6
  <1>2. Init => NoFollowUps
    BY DEF Init, NoFollowUps
  <1>3. IInv /\ NoFollowUps /\ [Next]_vars => NoFollowUps'
    <2>1. NoFollowUps /\ UNCHANGED vars => NoFollowUps'
      BY DEF NoFollowUps, Bursts, vars, conns, rows
    <2> QED
      BY <2>1, NoFollowUpsStep
  <1> QED
    BY <1>1, <1>2, <1>3, InductiveInvariant, PTL DEF Spec
-----------------------------------------------------------------------------
(***************************************************************************)
(* Workers do not share connections.                                       *)
(***************************************************************************)

\* No connection is queued for, in the hands of or served by two workers.
OneWorker == \A v, w \in Workers : v # w => Held(v) \cap Held(w) = {}

\* Only a push gives a worker a connection, and that one is new.
LEMMA HeldStep ==
    ASSUME IInv, Next, NEW w \in Workers
    PROVE  Held(w)' \subseteq Held(w) \cup (IF Push /\ w = target THEN {generated} ELSE {})
  <1>0. UNCHANGED config
    BY DEF Next
  <1>1. UNCHANGED Entry(w) /\ wpc'[w] = wpc[w] => Held(w)' = Held(w)
    BY DEF Entry, Held, InHand
  <1>2. ASSUME NEW v \in Workers, Worker(v) PROVE Held(w)' \subseteq Held(w)
    <2>1. CASE v = w
      BY <1>0, <1>2, <2>1, WorkerSelf
    <2>2. CASE v # w
      BY <1>1, <1>2, <2>2, Others
    <2> QED
      BY <2>1, <2>2
  <1>3. CASE Push /\ w = target
    BY <1>0, <1>3, PushTarget
  <1>4. CASE Fork /\ w = target
    <2>1. wpc[w] = "none" /\ wpc'[w] = "top"
      BY <1>4 DEF Fork, WGoto, IInv, TypeOK, Parent, Workers
    <2>2. InHand(w) = {} /\ InHand(w)' = {} /\ queue' = queue /\ served' = served
      BY <1>4, <2>1 DEF InHand, Fork, rows
    <2> QED
      BY <2>2 DEF Held
  <1>5. CASE Generator /\ (~Fork \/ w # target) /\ (~Push \/ w # target)
    BY <1>1, <1>5, GeneratorOthers
  <1> QED
    BY <1>2, <1>3, <1>4, <1>5 DEF Next

\* A connection goes to one worker only: what a worker queues, has in hand or has
\* served, nobody else does, in whatever order workers and generator run.
THEOREM HandledOnce == Spec => []OneWorker
  <1>1. Init => OneWorker
    BY DEF Init, OneWorker, Held, InHand
  <1>2. IInv /\ OneWorker /\ [Next]_vars => OneWorker'
    <2> SUFFICES ASSUME IInv, OneWorker, [Next]_vars PROVE OneWorker'
      OBVIOUS
    <2>1. CASE Next
      <3> SUFFICES ASSUME NEW v \in Workers, NEW w \in Workers, v # w,
                          NEW id \in Held(v)', id \in Held(w)'
                   PROVE  FALSE
        BY DEF OneWorker
      <3>1. \A u \in Workers : generated \notin Held(u)
        <4>1. generated \in Nat
          BY DEF IInv, TypeOK
        <4>2. ~(generated < generated)
          BY <4>1
        <4> QED
          BY <4>2 DEF IInv, WorkerInv, OnePlace, Held
      <3>2. id \in Held(v) \/ (id = generated /\ v = target)
        BY <2>1, HeldStep
      <3>3. id \in Held(w) \/ (id = generated /\ w = target)
        BY <2>1, HeldStep
      <3> QED
        BY <3>1, <3>2, <3>3 DEF OneWorker
    <2>2. CASE UNCHANGED vars
      BY <2>2 DEF OneWorker, Held, InHand, vars, rows
    <2> QED
      BY <2>1, <2>2
  <1> QED
    BY <1>1, <1>2, InductiveInvariant, PTL DEF Spec

=============================================================================
