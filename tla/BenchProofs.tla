---------------------------- MODULE BenchProofs ----------------------------
(***************************************************************************)
(* What the load generator writes accounts for what it generated, for any  *)
(* number of connections, any profile and any number of failures.          *)
(***************************************************************************)
EXTENDS Bench, FiniteSetTheorems, SequenceTheorems, TLAPS

Row == [conn : Conns, kind : Kinds]

\* The last thing a connection has reported.
LastIs(c, k) == \E j \in ReportsOf(c) : /\ Reports[j].kind = k
                                        /\ \A i \in ReportsOf(c) : i <= j

\* Two reports are an answer and what became of the burst; a burst is a second report.
InPairs(c) ==
    /\ \A i, j \in ReportsOf(c) : i < j => /\ config.burst # NoBurst
                                           /\ Reports[i].kind = "accept"
                                           /\ Reports[j].kind \in {"burst", "error"}
    /\ \A j \in ReportsOf(c) : Reports[j].kind = "burst" => \E i \in ReportsOf(c) : i < j

\* What a connection has reported by the place of its task.
ToldAt(c) ==
    /\ InPairs(c)
    /\ task[c] \in {"none", "connect"} => ReportsOf(c) = {}
    /\ task[c] \in {"write", "read"} => IF fired[c] THEN LastIs(c, "accept")
                                                    ELSE ReportsOf(c) = {}
    /\ task[c] = "hold" => LastIs(c, IF fired[c] THEN "burst" ELSE "accept")
    /\ task[c] = "gone" => ReportsOf(c) # {}

\* A collector that failed has lost reports; nothing is promised then.
Told(c) == /\ task[c] \in {"none", "connect"} => ~fired[c]
           /\ fired[c] => config.burst # NoBurst
           /\ cpc # "failed" => ToldAt(c)

\* Tasks are spawned in order; the collector ends when all have, and main after it.
Ending == /\ \A c \in Conns : task[c] = "none" <=> c >= spawned
          /\ cpc = "done" => chan = <<>> /\ SendersGone
          /\ gpc = "ok" => cpc = "done"

Seen == {c \in Conns : RowsOf(c) # {}}
Twice == {c \in Conns : \E i, j \in RowsOf(c) : i # j}
Dropped == {c \in Conns : \E i \in RowsOf(c) : csv[i].kind = "drop"}

\* The summary counts the rows of the file.
Sums == /\ IsFiniteSet(Seen)
        /\ summary.drops = Cardinality(Dropped)
        /\ summary.completed + summary.errors + summary.drops
             = Cardinality(Seen) + Cardinality(Twice)

IInv == TypeOK /\ Ending /\ (\A c \in Conns : Told(c)) /\ Sums
-----------------------------------------------------------------------------
(***************************************************************************)
(* Reports.                                                                *)
(***************************************************************************)

\* A profile lasts at least one tick, and its connections are numbered from 0.
LEMMA ConfigType ==
    ASSUME TypeOK
    PROVE  /\ config.duration \in Nat \ {0} /\ Conns \subseteq Nat
           /\ 0 .. config.duration - 1 \subseteq Conns
  BY ConfigsAssumption DEF TypeOK, Conns

\* The reports are rows.
LEMMA ReportsType ==
    ASSUME csv \in Seq(Row), chan \in Seq(Row)
    PROVE  /\ Reports \in Seq(Row) /\ Len(Reports) = Len(csv) + Len(chan)
           /\ \A i \in 1 .. Len(csv) : Reports[i] = csv[i]
           /\ \A i \in 1 .. Len(chan) : Reports[Len(csv) + i] = chan[i]
  <1>1. /\ csv \o chan \in Seq(Row) /\ Len(csv \o chan) = Len(csv) + Len(chan)
        /\ \A i \in 1 .. Len(csv) + Len(chan) :
              (csv \o chan)[i] = IF i <= Len(csv) THEN csv[i] ELSE chan[i - Len(csv)]
    BY ConcatProperties
  <1>2. Len(csv) \in Nat /\ Len(chan) \in Nat
    OBVIOUS
  <1> DEFINE l == Len(csv)
             m == Len(chan)
  <1>3. /\ \A i \in 1 .. l : i \in 1 .. l + m /\ i <= l
        /\ \A i \in 1 .. m : l + i \in 1 .. l + m /\ ~(l + i <= l) /\ (l + i) - l = i
    <2> HIDE DEF l, m
    <2>1. l \in Nat /\ m \in Nat
      BY <1>2 DEF l, m
    <2> QED
      BY <2>1
  <1> QED
    BY <1>1, <1>2, <1>3 DEF Reports

\* A row that is sent is the last report.
LEMMA SendAppends ==
    ASSUME csv \in Seq(Row), chan \in Seq(Row), NEW r \in Row,
           csv' = csv, chan' = Append(chan, r)
    PROVE  Reports' = Append(Reports, r)
  BY DEF Reports

\* A row that is received moves to the file.
LEMMA ReceiveKeeps ==
    ASSUME csv \in Seq(Row), chan \in Seq(Row), chan # <<>>,
           csv' = Append(csv, Head(chan)), chan' = Tail(chan)
    PROVE  Reports' = Reports
  BY DEF Reports

\* One report more: the others are as they were.
LEMMA AddReport ==
    ASSUME csv \in Seq(Row), chan \in Seq(Row), NEW c \in Conns, NEW k \in Kinds,
           Reports' = Append(Reports, [conn |-> c, kind |-> k]), NEW b \in Conns
    PROVE  /\ b # c => ReportsOf(b)' = ReportsOf(b)
           /\ b = c => ReportsOf(b)' = ReportsOf(b) \cup {Len(Reports) + 1}
           /\ \A i \in ReportsOf(b) : i < Len(Reports) + 1 /\ Reports'[i] = Reports[i]
           /\ Reports'[Len(Reports) + 1] = [conn |-> c, kind |-> k]
           /\ Len(Reports) + 1 \in Nat
  <1> DEFINE r == [conn |-> c, kind |-> k]
             n == Len(Reports) + 1
  <1>1. Reports \in Seq(Row) /\ r \in Row
    BY ReportsType DEF Row
  <1>2. /\ Len(Reports') = n /\ Reports'[n] = r
        /\ \A i \in 1 .. Len(Reports) : Reports'[i] = Reports[i]
    <2> HIDE DEF r
    <2> QED
      BY <1>1, AppendProperties DEF r
  <1>3. Len(Reports) \in Nat /\ n \in Nat /\ 1 .. n = (1 .. Len(Reports)) \cup {n}
        /\ \A i \in 1 .. Len(Reports) : i < n
    BY <1>1
  <1>4. r.conn = c
    OBVIOUS
  <1> HIDE DEF n, r
  <1> QED
    BY <1>2, <1>3, <1>4 DEF ReportsOf, n, r

-----------------------------------------------------------------------------
(***************************************************************************)
(* A connection and its task.                                              *)
(***************************************************************************)

\* What a connection has reported does not change.
Silent(c) == /\ ReportsOf(c)' = ReportsOf(c)
             /\ \A i \in ReportsOf(c) : Reports'[i] = Reports[i]

\* Nothing is reported at all.
LEMMA AllSilent ==
    ASSUME NEW c \in Conns, Reports' = Reports
    PROVE  Silent(c)
  BY DEF Silent, ReportsOf

\* The order of a connection's reports stays what it was.
LEMMA SilentPairs ==
    ASSUME NEW c \in Conns, Silent(c), UNCHANGED config
    PROVE  /\ InPairs(c) => InPairs(c)'
           /\ \A k \in Kinds : LastIs(c, k) => LastIs(c, k)'
  BY DEF Silent, InPairs, LastIs

\* What other tasks do does not disturb a connection.
LEMMA ToldFrame ==
    ASSUME NEW c \in Conns, Told(c), UNCHANGED config, task'[c] = task[c], fired'[c] = fired[c],
           cpc' # "failed" => cpc # "failed" /\ Silent(c)
    PROVE  Told(c)'
  <1>1. ASSUME cpc' # "failed" PROVE ToldAt(c)'
    <2>1. ToldAt(c) /\ Silent(c)
      BY <1>1 DEF Told
    <2>2. InPairs(c)'
      BY <2>1, SilentPairs DEF ToldAt
    <2>3. /\ LastIs(c, "accept") => LastIs(c, "accept")'
          /\ LastIs(c, "burst") => LastIs(c, "burst")'
      BY <2>1, SilentPairs DEF Kinds
    <2>4. ReportsOf(c)' = ReportsOf(c)
      BY <2>1 DEF Silent
    <2> QED
      BY <2>1, <2>2, <2>3, <2>4 DEF ToldAt
  <1> QED
    BY <1>1 DEF Told

\* A task goes on without a report.
LEMMA ToldMove ==
    ASSUME NEW c \in Conns, Told(c), UNCHANGED <<config, cpc>>,
           cpc # "failed" => Silent(c),
           \/ /\ task[c] \in {"none", "connect"} /\ task'[c] \in {"connect", "write"}
              /\ fired'[c] = fired[c]
           \/ task[c] = "write" /\ task'[c] = "read" /\ fired'[c] = fired[c]
           \/ task[c] = "hold" /\ task'[c] = "gone" /\ fired'[c] = fired[c]
           \/ /\ task[c] = "hold" /\ ~fired[c] /\ config.burst # NoBurst
              /\ task'[c] = "write" /\ fired'[c]
    PROVE  Told(c)'
  <1>1. ASSUME cpc' # "failed" PROVE ToldAt(c)'
    <2>1. ToldAt(c) /\ Silent(c)
      BY <1>1 DEF Told
    <2>2. InPairs(c)'
      BY <2>1, SilentPairs DEF ToldAt
    <2>3. LastIs(c, "accept") => LastIs(c, "accept")'
      BY <2>1, SilentPairs DEF Kinds
    <2>4. ReportsOf(c)' = ReportsOf(c)
      BY <2>1 DEF Silent
    <2>5. LastIs(c, "accept") \/ LastIs(c, "burst") => ReportsOf(c) # {}
      BY DEF LastIs
    <2>6. task[c] \in {"none", "connect"} => ~fired[c]
      BY DEF Told
    <2> QED
      BY <2>1, <2>2, <2>3, <2>4, <2>5, <2>6 DEF ToldAt
  <1> QED
    BY <1>1 DEF Told

\* A task reports: an answer, or a failure with which it ends.
LEMMA ToldReport ==
    ASSUME TypeOK, NEW c \in Conns, NEW k \in Kinds, Told(c), UNCHANGED <<config, cpc>>,
           fired'[c] = fired[c],
           cpc # "failed" => Reports' = Append(Reports, [conn |-> c, kind |-> k]),
           \/ task[c] = "connect" /\ k = "drop" /\ task'[c] = "gone"
           \/ task[c] \in {"write", "read"} /\ k = "error" /\ task'[c] = "gone"
           \/ /\ task[c] = "read" /\ k = (IF fired[c] THEN "burst" ELSE "accept")
              /\ task'[c] = "hold"
    PROVE  Told(c)'
  <1>1. ASSUME cpc' # "failed" PROVE ToldAt(c)'
    <2> DEFINE n == Len(Reports) + 1
    <2>1. ToldAt(c) /\ csv \in Seq(Row) /\ chan \in Seq(Row)
      BY <1>1 DEF Told, TypeOK, Row
    <2>2. /\ ReportsOf(c)' = ReportsOf(c) \cup {n} /\ n \in Nat
          /\ \A i \in ReportsOf(c) : i < n /\ Reports'[i] = Reports[i]
          /\ Reports'[n].kind = k
      BY <1>1, <2>1, AddReport
    <2> HIDE DEF n
    <2>3. \A i \in ReportsOf(c) : i \in Nat /\ ~(n < i)
      BY <2>1, <2>2, ReportsType DEF ReportsOf
    <2>4. LastIs(c, k)'
      BY <2>2, <2>3 DEF LastIs
    <2>5. CASE ~fired[c]
      <3>1. ReportsOf(c) = {}
        BY <2>1, <2>5 DEF ToldAt
      <3>2. k # "burst" /\ ~(n < n)
        BY <2>2, <2>5
      <3>3. InPairs(c)'
        BY <2>2, <3>1, <3>2 DEF InPairs
      <3> QED
        BY <2>2, <2>4, <2>5, <3>3 DEF ToldAt
    <2>6. CASE fired[c]
      <3>1. LastIs(c, "accept") /\ InPairs(c) /\ config.burst # NoBurst /\ k \in {"burst", "error"}
        BY <2>1, <2>6 DEF ToldAt, Told
      <3>2. PICK j \in ReportsOf(c) : Reports[j].kind = "accept" /\ \A i \in ReportsOf(c) : i <= j
        BY <3>1 DEF LastIs
      <3>3. \A i \in ReportsOf(c) : i = j
        <4>1. \A i \in ReportsOf(c) : ~(i < j)
          BY <3>1, <3>2 DEF InPairs
        <4> QED
          BY <2>3, <3>2, <4>1
      <3>4. InPairs(c)'
        <4>1. \A a, b \in ReportsOf(c)' : a < b => a = j /\ b = n
          BY <2>2, <2>3, <3>3
        <4>2. j < n /\ Reports'[j].kind = "accept" /\ j \in ReportsOf(c)'
          BY <2>2, <3>2
        <4>3. \A b \in ReportsOf(c)' : Reports'[b].kind = "burst" => b = n
          BY <2>2, <3>3, <4>2
        <4> QED
          BY <2>2, <3>1, <4>1, <4>2, <4>3 DEF InPairs
      <3> QED
        BY <2>2, <2>4, <2>6, <3>4 DEF ToldAt
    <2> QED
      BY <2>5, <2>6
  <1> QED
    BY <1>1 DEF Told

-----------------------------------------------------------------------------
(***************************************************************************)
(* The summary.                                                            *)
(***************************************************************************)

\* The summary's counts do not depend on what is not in the file.
LEMMA SumsFrame ==
    ASSUME Sums, UNCHANGED <<csv, summary>>
    PROVE  Sums'
  BY DEF Sums, Seen, Twice, Dropped, RowsOf

\* A row is written and counted once: it is its connection's first, or its second
\* after an answer.
LEMMA SumsRecv ==
    ASSUME IInv, RecvRow
    PROVE  Sums'
  <1>1. /\ csv \in Seq(Row) /\ chan \in Seq(Row) /\ chan # <<>> /\ cpc = "recv"
        /\ summary \in [completed : Nat, errors : Nat, drops : Nat]
        /\ csv' = Append(csv, Head(chan))
    BY DEF IInv, TypeOK, Row, RecvRow
  <1>2. PICK row \in Row, n \in Nat : row = Head(chan) /\ row = chan[1] /\ n = Len(csv) + 1
    <2>1. Len(chan) \in Nat /\ Len(chan) # 0
      BY <1>1, EmptySeq
    <2>2. 1 \in 1 .. Len(chan)
      BY <2>1
    <2>3. Head(chan) = chan[1] /\ chan[1] \in Row
      BY <1>1, <2>2, ElementOfSeq
    <2>4. Len(csv) + 1 \in Nat
      BY <1>1
    <2> QED
      BY <2>3, <2>4
  <1>3. /\ Len(csv) \in Nat /\ 1 .. n = (1 .. Len(csv)) \cup {n}
        /\ \A i \in 1 .. Len(csv) : i < n /\ i \in Nat
    BY <1>1, <1>2
  <1>4. /\ Len(csv') = n /\ csv'[n] = row /\ \A i \in 1 .. Len(csv) : csv'[i] = csv[i]
    BY <1>1, <1>2, AppendProperties
  <1>c. PICK c \in Conns : c = row.conn
    BY DEF Row
  <1>5. /\ \A b \in Conns : b # c => RowsOf(b)' = RowsOf(b)
        /\ RowsOf(c)' = RowsOf(c) \cup {n}
        /\ \A b \in Conns : \A i \in RowsOf(b) : i < n /\ i \in Nat /\ csv'[i] = csv[i]
    BY <1>c, <1>3, <1>4 DEF RowsOf
  <1>6. /\ InPairs(c) /\ n \in ReportsOf(c) /\ Reports[n] = row
        /\ \A i \in RowsOf(c) : i \in ReportsOf(c) /\ Reports[i] = csv[i]
    <2>1. Told(c) /\ InPairs(c)
      BY <1>1 DEF IInv, Told, ToldAt
    <2>2. Len(chan) \in Nat /\ Len(chan) # 0
      BY <1>1, EmptySeq
    <2>3. 1 \in 1 .. Len(chan)
      BY <2>2
    <2>4. /\ Len(Reports) = Len(csv) + Len(chan) /\ Reports[n] = row
          /\ \A i \in 1 .. Len(csv) : Reports[i] = csv[i]
      BY <1>1, <1>2, <2>3, ReportsType
    <2>5. n \in 1 .. Len(Reports) /\ \A i \in 1 .. Len(csv) : i \in 1 .. Len(Reports)
      BY <1>3, <2>2, <2>4
    <2> QED
      BY <1>c, <2>1, <2>4, <2>5 DEF ReportsOf, RowsOf
  <1> DEFINE total == summary.completed + summary.errors + summary.drops
  <1>7. /\ summary'.drops = IF row.kind = "drop" THEN summary.drops + 1 ELSE summary.drops
        /\ summary'.completed + summary'.errors + summary'.drops = total + 1
    <2>1. summary' = CASE row.kind = "drop"  -> [summary EXCEPT !.drops = @ + 1]
                       [] row.kind = "error" -> [summary EXCEPT !.errors = @ + 1]
                       [] OTHER              -> [summary EXCEPT !.completed = @ + 1]
      BY <1>2 DEF RecvRow
    <2>2. summary.completed \in Nat /\ summary.errors \in Nat /\ summary.drops \in Nat
      BY <1>1
    <2>3. CASE row.kind = "drop"
      <3>1. summary' = [summary EXCEPT !.drops = summary.drops + 1]
        BY <2>1, <2>3
      <3>2. /\ summary'.drops = summary.drops + 1 /\ summary'.errors = summary.errors
            /\ summary'.completed = summary.completed
        BY <1>1, <3>1
      <3> QED
        BY <2>2, <2>3, <3>2
    <2>4. CASE row.kind = "error"
      <3>1. summary' = [summary EXCEPT !.errors = summary.errors + 1]
        BY <2>1, <2>4
      <3>2. /\ summary'.drops = summary.drops /\ summary'.errors = summary.errors + 1
            /\ summary'.completed = summary.completed
        BY <1>1, <3>1
      <3> QED
        BY <2>2, <2>4, <3>2
    <2>5. CASE row.kind \notin {"drop", "error"}
      <3>1. summary' = [summary EXCEPT !.completed = summary.completed + 1]
        BY <2>1, <2>5
      <3>2. /\ summary'.drops = summary.drops /\ summary'.errors = summary.errors
            /\ summary'.completed = summary.completed + 1
        BY <1>1, <3>1
      <3> QED
        BY <2>2, <2>5, <3>2
    <2> QED
      BY <2>3, <2>4, <2>5
  <1>8. /\ IsFiniteSet(Seen) /\ summary.drops = Cardinality(Dropped)
        /\ total = Cardinality(Seen) + Cardinality(Twice)
    BY DEF IInv, Sums
  <1>9. IsFiniteSet(Dropped) /\ IsFiniteSet(Twice)
    <2>1. Dropped \subseteq Seen /\ Twice \subseteq Seen
      BY DEF Dropped, Twice, Seen
    <2> QED
      BY <1>8, <2>1, FS_Subset
  <1>10. Cardinality(Dropped) \in Nat /\ Cardinality(Twice) \in Nat /\ Cardinality(Seen) \in Nat
    BY <1>8, <1>9, FS_CardinalityType
  <1> HIDE DEF total
  <1>11. Seen' = Seen \cup {c}
    BY <1>2, <1>5 DEF Seen
  <1>12. IsFiniteSet(Seen')
    BY <1>8, <1>11, FS_AddElement
  <1>13. CASE RowsOf(c) = {}
    <2>1. c \notin Seen /\ c \notin Dropped
      BY <1>13 DEF Seen, Dropped
    <2>2. Twice' = Twice
      BY <1>2, <1>5, <1>13 DEF Twice
    <2>3. Dropped' = IF row.kind = "drop" THEN Dropped \cup {c} ELSE Dropped
      BY <1>2, <1>4, <1>5, <1>13 DEF Dropped
    <2>4. Cardinality(Seen') = Cardinality(Seen) + 1
      BY <1>8, <1>11, <2>1, FS_AddElement
    <2>5. row.kind = "drop" => Cardinality(Dropped') = Cardinality(Dropped) + 1
      BY <1>9, <2>1, <2>3, FS_AddElement
    <2>6. summary'.drops = Cardinality(Dropped')
      BY <1>7, <1>8, <2>3, <2>5
    <2>7. total + 1 = (Cardinality(Seen) + 1) + Cardinality(Twice)
      BY <1>8, <1>10
    <2> QED
      BY <1>7, <1>12, <2>2, <2>4, <2>6, <2>7 DEF Sums
  <1>14. CASE RowsOf(c) # {}
    <2>1. \A i \in RowsOf(c) : i < n /\ csv[i].kind = "accept" /\ row.kind \in {"burst", "error"}
      BY <1>2, <1>5, <1>6 DEF InPairs
    <2>2. c \in Seen /\ row.kind # "drop"
      BY <1>2, <1>14, <2>1 DEF Seen
    <2>3. c \notin Twice
      <3> SUFFICES ASSUME NEW i \in RowsOf(c), NEW j \in RowsOf(c), i # j PROVE FALSE
        BY DEF Twice
      <3>1. i < j \/ j < i
        BY <1>2, <1>5
      <3>2. \A a, b \in RowsOf(c) : a < b => csv[b].kind \in {"burst", "error"}
        BY <1>6 DEF InPairs
      <3> QED
        BY <2>1, <3>1, <3>2
    <2>4. Twice' = Twice \cup {c}
      <3>1. c \in Twice'
        BY <1>2, <1>5, <1>14, <2>1 DEF Twice
      <3>2. \A b \in Conns : b # c => (b \in Twice' <=> b \in Twice)
        BY <1>5 DEF Twice
      <3>3. Twice' \subseteq Conns /\ Twice \subseteq Conns
        BY DEF Twice
      <3> QED
        BY <1>2, <3>1, <3>2, <3>3
    <2>5. Dropped' = Dropped
      <3>1. c \notin Dropped
        BY <2>1 DEF Dropped
      <3>2. c \notin Dropped'
        BY <1>4, <1>5, <2>1, <2>2 DEF Dropped
      <3>3. \A b \in Conns : b # c => (b \in Dropped' <=> b \in Dropped)
        BY <1>5 DEF Dropped
      <3>4. Dropped' \subseteq Conns /\ Dropped \subseteq Conns
        BY DEF Dropped
      <3> QED
        BY <3>1, <3>2, <3>3, <3>4
    <2>6. Cardinality(Twice') = Cardinality(Twice) + 1
      BY <1>9, <2>3, <2>4, FS_AddElement
    <2>7. Seen' = Seen
      BY <1>11, <2>2
    <2>8. total + 1 = Cardinality(Seen) + (Cardinality(Twice) + 1)
      BY <1>8, <1>10
    <2> QED
      BY <1>7, <1>8, <1>12, <2>2, <2>5, <2>6, <2>7, <2>8 DEF Sums
  <1> QED
    BY <1>13, <1>14

-----------------------------------------------------------------------------
(***************************************************************************)
(* Every step.                                                             *)
(***************************************************************************)

\* A task's report is sent, or lost with the collector.
LEMMA ReportType ==
    ASSUME chan \in Seq(Row), NEW c \in Conns, NEW k \in Kinds, Report(c, k)
    PROVE  chan' \in Seq(Row)
  <1>1. [conn |-> c, kind |-> k] \in Row
    BY DEF Row
  <1> QED
    BY <1>1 DEF Report

\* A task's step keeps the types.
LEMMA TaskTypes ==
    ASSUME TypeOK, NEW c \in Conns, Task(c)
    PROVE  TypeOK'
  <1> USE DEF TypeOK
  <1>0. chan \in Seq(Row) /\ Seq(Row) = Seq([conn : Conns, kind : Kinds])
    BY DEF Row
  <1>1. CASE Connect(c)
    <2>1. PICK w \in Workers : owner' = [owner EXCEPT ![c] = w]
      BY <1>1 DEF Connect
    <2>2. owner' \in [Conns -> Workers \cup {NoOwner}]
      BY <2>1
    <2> QED
      BY <1>1, <2>2 DEF Connect, TGoto, mainv, collectv
  <1>2. CASE ConnectFails(c)
    <2>1. chan' \in Seq(Row)
      BY <1>0, <1>2, ReportType DEF ConnectFails, Kinds
    <2>2. faults' \in 0 .. MaxFaults
      BY <1>2, BoundsAssumption DEF ConnectFails, Fault
    <2> QED
      BY <1>0, <1>2, <2>1, <2>2 DEF ConnectFails, TGoto, mainv, collectv, lb
  <1>3. CASE Send(c)
    BY <1>3 DEF Send, TGoto, mainv, collectv
  <1>4. CASE RequestFails(c)
    <2>1. chan' \in Seq(Row)
      BY <1>0, <1>4, ReportType DEF RequestFails, Kinds
    <2> QED
      BY <1>0, <1>4, <2>1 DEF RequestFails, TGoto, mainv, collectv, lb
  <1>5. CASE Receive(c)
    <2>1. chan' \in Seq(Row)
      BY <1>0, <1>5, ReportType DEF Receive, Kinds
    <2> QED
      BY <1>0, <1>5, <2>1 DEF Receive, TGoto, mainv, collectv
  <1>6. CASE Close(c)
    BY <1>6 DEF Close, TGoto, mainv, collectv
  <1>7. CASE Burst(c)
    BY <1>7 DEF Burst, TGoto, mainv, collectv, lb
  <1> QED
    BY <1>1, <1>2, <1>3, <1>4, <1>5, <1>6, <1>7 DEF Task

\* So does every other step.
LEMMA TypeStep ==
    ASSUME TypeOK, Next
    PROVE  TypeOK'
  <1> USE DEF TypeOK
  <1>1. CASE Spawn
    <2>1. spawned' \in 0 .. config.duration
      BY <1>1, ConfigType DEF Spawn
    <2> QED
      BY <1>1, <2>1 DEF Spawn, TGoto, collectv, lb
  <1>2. CASE EndGenerate
    BY <1>2 DEF EndGenerate, tasks, collectv, lb
  <1>3. CASE Return
    <2>1. task' \in [Conns -> {"none", "connect", "write", "read", "hold", "gone"}]
      BY <1>3 DEF Return
    <2>2. link' \in [Conns -> {"none", "queued", "held", "reset"}]
      BY <1>3 DEF Return
    <2> QED
      BY <1>3, <2>1, <2>2 DEF Return, collectv
  <1>4. CASE RecvRow
    <2>1. Head(chan) \in Row /\ Tail(chan) \in Seq(Row) /\ csv \in Seq(Row)
          /\ Seq(Row) = Seq([conn : Conns, kind : Kinds])
      <3>1. chan \in Seq(Row) /\ csv \in Seq(Row) /\ chan # <<>>
        BY <1>4 DEF RecvRow, Row
      <3> QED
        BY <3>1, HeadTailProperties DEF Row
    <2>2. csv' \in Seq(Row) /\ chan' \in Seq(Row)
      BY <1>4, <2>1 DEF RecvRow
    <2>3. summary' \in [completed : Nat, errors : Nat, drops : Nat]
      <3>1. \/ summary' = [summary EXCEPT !.drops = summary.drops + 1]
            \/ summary' = [summary EXCEPT !.errors = summary.errors + 1]
            \/ summary' = [summary EXCEPT !.completed = summary.completed + 1]
        BY <1>4 DEF RecvRow
      <3>2. /\ summary \in [completed : Nat, errors : Nat, drops : Nat]
            /\ summary.completed + 1 \in Nat /\ summary.errors + 1 \in Nat
            /\ summary.drops + 1 \in Nat
        OBVIOUS
      <3> HIDE DEF TypeOK
      <3> QED
        BY <3>1, <3>2
    <2> QED
      BY <1>4, <2>1, <2>2, <2>3 DEF RecvRow, mainv, tasks, lb
  <1>5. CASE RecvEnd
    BY <1>5 DEF RecvEnd, mainv, tasks, lb
  <1>6. CASE CollectFails
    BY <1>6, BoundsAssumption DEF CollectFails, Fault, mainv, tasks, lb
  <1>7. CASE Elapse
    BY <1>7 DEF Elapse, mainv, tasks, collectv, lb
  <1>8. CASE LbStops
    <2>1. link' \in [Conns -> {"none", "queued", "held", "reset"}]
      BY <1>8 DEF LbStops
    <2>2. faults' \in 0 .. MaxFaults
      BY <1>8, BoundsAssumption DEF LbStops, Fault
    <2>3. dead' \subseteq Workers /\ up' \in BOOLEAN
      BY <1>8 DEF LbStops
    <2> QED
      BY <1>8, <2>1, <2>2, <2>3 DEF LbStops, mainv, tasks, collectv
  <1>9. ASSUME NEW c \in Conns, LbAccepts(c) PROVE TypeOK'
    BY <1>9 DEF LbAccepts, mainv, tasks, collectv
  <1>10. ASSUME NEW c \in Conns, LbAnswers(c) PROVE TypeOK'
    BY <1>10 DEF LbAnswers, mainv, tasks, collectv
  <1>11. ASSUME NEW w \in Workers, WorkerDies(w) PROVE TypeOK'
    <2>1. link' \in [Conns -> {"none", "queued", "held", "reset"}]
      BY <1>11 DEF WorkerDies
    <2> QED
      BY <1>11, <2>1, BoundsAssumption DEF WorkerDies, Fault, mainv, tasks, collectv
  <1> QED
    BY <1>1, <1>2, <1>3, <1>4, <1>5, <1>6, <1>7, <1>8, <1>9, <1>10, <1>11, TaskTypes
    DEF Next, Main, Collector

\* What a task's step does, apart from its report.
LEMMA TaskFrame ==
    ASSUME TypeOK, NEW a \in Conns, Task(a)
    PROVE  /\ UNCHANGED <<config, cpc, csv, summary, gpc, spawned>>
           /\ \A c \in Conns : c # a => task'[c] = task[c] /\ fired'[c] = fired[c]
           /\ task[a] \notin {"none", "gone"} /\ task'[a] # "none"
           /\ chan' = chan \/ \E k \in Kinds : Report(a, k)
  <1>0. /\ task \in [Conns -> {"none", "connect", "write", "read", "hold", "gone"}]
        /\ fired \in [Conns -> BOOLEAN]
    BY DEF TypeOK
  <1>1. CASE Connect(a) \/ Send(a) \/ Close(a) \/ Burst(a)
    BY <1>0, <1>1 DEF Connect, Send, Close, Burst, TGoto, mainv, collectv
  <1>2. CASE ConnectFails(a) \/ RequestFails(a) \/ Receive(a)
    <2>1. \E k \in Kinds : Report(a, k)
      BY <1>2 DEF ConnectFails, RequestFails, Receive, Kinds
    <2>2. UNCHANGED <<config, cpc, csv, summary, gpc, spawned, fired>>
      BY <1>2 DEF ConnectFails, RequestFails, Receive, mainv, collectv
    <2>3. /\ \A c \in Conns : c # a => task'[c] = task[c]
          /\ task[a] \notin {"none", "gone"} /\ task'[a] # "none"
      BY <1>0, <1>2 DEF ConnectFails, RequestFails, Receive, TGoto
    <2> QED
      BY <2>1, <2>2, <2>3
  <1> QED
    BY <1>1, <1>2 DEF Task

\* A report is the next one of all.
LEMMA ReportAppends ==
    ASSUME TypeOK, NEW a \in Conns, NEW k \in Kinds, Report(a, k), csv' = csv, cpc # "failed"
    PROVE  Reports' = Append(Reports, [conn |-> a, kind |-> k])
  <1>1. csv \in Seq(Row) /\ chan \in Seq(Row) /\ [conn |-> a, kind |-> k] \in Row
    BY DEF TypeOK, Row
  <1>2. chan' = Append(chan, [conn |-> a, kind |-> k])
    BY DEF Report
  <1> QED
    BY <1>1, <1>2, SendAppends

\* A task's step, and its own reports.
LEMMA ToldTask ==
    ASSUME IInv, NEW c \in Conns, Task(c)
    PROVE  Told(c)'
  <1>0. /\ TypeOK /\ Told(c) /\ UNCHANGED <<config, cpc, csv>>
        /\ task \in [Conns -> {"none", "connect", "write", "read", "hold", "gone"}]
        /\ fired \in [Conns -> BOOLEAN]
    BY TaskFrame DEF IInv, TypeOK
  <1>1. chan' = chan => Silent(c)
    <2>1. chan' = chan => Reports' = Reports
      BY <1>0 DEF Reports
    <2> QED
      BY <2>1, AllSilent
  <1>2. CASE Connect(c) \/ Send(c)
    BY <1>0, <1>1, <1>2, ToldMove DEF Connect, Send, TGoto
  <1>3. CASE Close(c)
    BY <1>0, <1>1, <1>3, ToldMove DEF Close, TGoto
  <1>4. CASE Burst(c)
    BY <1>0, <1>1, <1>4, ToldMove DEF Burst, TGoto
  <1>5. CASE ConnectFails(c)
    <2>1. /\ Report(c, "drop") /\ "drop" \in Kinds
          /\ task[c] = "connect" /\ task'[c] = "gone" /\ fired'[c] = fired[c]
      BY <1>0, <1>5 DEF ConnectFails, TGoto, Kinds
    <2>2. cpc # "failed" => Reports' = Append(Reports, [conn |-> c, kind |-> "drop"])
      BY <1>0, <2>1, ReportAppends
    <2> QED
      BY <1>0, <2>1, <2>2, ToldReport
  <1>6. CASE RequestFails(c)
    <2>1. /\ Report(c, "error") /\ "error" \in Kinds
          /\ task[c] \in {"write", "read"} /\ task'[c] = "gone" /\ fired'[c] = fired[c]
      BY <1>0, <1>6 DEF RequestFails, TGoto, Kinds
    <2>2. cpc # "failed" => Reports' = Append(Reports, [conn |-> c, kind |-> "error"])
      BY <1>0, <2>1, ReportAppends
    <2> QED
      BY <1>0, <2>1, <2>2, ToldReport
  <1>7. CASE Receive(c)
    <2>1. PICK k \in Kinds : k = (IF fired[c] THEN "burst" ELSE "accept")
      BY DEF Kinds
    <2>2. Report(c, k) /\ task[c] = "read" /\ task'[c] = "hold" /\ fired'[c] = fired[c]
      BY <1>0, <1>7, <2>1 DEF Receive, TGoto
    <2>3. cpc # "failed" => Reports' = Append(Reports, [conn |-> c, kind |-> k])
      BY <1>0, <2>2, ReportAppends
    <2> QED
      BY <1>0, <2>1, <2>2, <2>3, ToldReport
  <1> QED
    BY <1>2, <1>3, <1>4, <1>5, <1>6, <1>7 DEF Task

\* A connection's reports after a step of anybody.
LEMMA ToldStep ==
    ASSUME IInv, Next, NEW c \in Conns
    PROVE  Told(c)'
  <1>0. /\ TypeOK /\ Told(c) /\ csv \in Seq(Row) /\ chan \in Seq(Row)
        /\ task \in [Conns -> {"none", "connect", "write", "read", "hold", "gone"}]
    BY DEF IInv, TypeOK, Row
  <1>1. UNCHANGED <<csv, chan>> => Silent(c)
    <2>1. UNCHANGED <<csv, chan>> => Reports' = Reports
      BY DEF Reports
    <2> QED
      BY <2>1, AllSilent
  <1>2. CASE EndGenerate \/ Elapse \/ LbStops
    BY <1>0, <1>1, <1>2, ToldFrame DEF EndGenerate, Elapse, LbStops, mainv, tasks, collectv
  <1>3. CASE RecvEnd
    BY <1>0, <1>1, <1>3, ToldFrame DEF RecvEnd, tasks
  <1>4. CASE CollectFails
    BY <1>0, <1>4, ToldFrame DEF CollectFails, tasks
  <1>5. CASE RecvRow
    <2>1. Silent(c)
      BY <1>0, <1>5, ReceiveKeeps, AllSilent DEF RecvRow
    <2> QED
      BY <1>0, <1>5, <2>1, ToldFrame DEF RecvRow, tasks
  <1>6. CASE Spawn
    <2>1. UNCHANGED <<config, cpc, fired, csv, chan>>
      BY <1>6 DEF Spawn, collectv
    <2>2. CASE c = spawned
      <3>1. task[c] = "none" /\ task'[c] = "connect"
        <4>1. c \in Nat
          BY <1>0, ConfigType
        <4>2. task[c] = "none"
          BY <2>2, <4>1 DEF IInv, Ending
        <4> QED
          BY <1>0, <1>6, <2>2, <4>2 DEF Spawn, TGoto
      <3> QED
        BY <1>0, <1>1, <2>1, <3>1, ToldMove
    <2>3. CASE c # spawned
      <3>1. task'[c] = task[c]
        BY <1>0, <1>6, <2>3 DEF Spawn, TGoto
      <3> QED
        BY <1>0, <1>1, <2>1, <3>1, ToldFrame
    <2> QED
      BY <2>2, <2>3
  <1>7. CASE Return
    <2>1. /\ UNCHANGED <<config, cpc, fired, csv, chan>> /\ cpc \in {"done", "failed"}
          /\ task'[c] = IF task[c] = "none" THEN "none" ELSE "gone"
      BY <1>7 DEF Return, collectv
    <2>2. CASE cpc = "done"
      <3>1. task[c] \in {"none", "gone"}
        BY <2>2 DEF IInv, Ending, SendersGone
      <3> QED
        BY <1>0, <1>1, <2>1, <3>1, ToldFrame
    <2>3. CASE cpc = "failed"
      BY <1>0, <2>1, <2>3 DEF Told
    <2> QED
      BY <2>1, <2>2, <2>3
  <1>8. ASSUME NEW a \in Conns, LbAccepts(a) \/ LbAnswers(a) PROVE Told(c)'
    BY <1>0, <1>1, <1>8, ToldFrame DEF LbAccepts, LbAnswers, tasks, collectv
  <1>9. ASSUME NEW w \in Workers, WorkerDies(w) PROVE Told(c)'
    BY <1>0, <1>1, <1>9, ToldFrame DEF WorkerDies, tasks, collectv
  <1>10. ASSUME NEW a \in Conns, Task(a) PROVE Told(c)'
    <2>1. CASE c = a
      BY <1>10, <2>1, ToldTask
    <2>2. CASE c # a
      <3>1. /\ UNCHANGED <<config, cpc, csv>> /\ task'[c] = task[c] /\ fired'[c] = fired[c]
            /\ chan' = chan \/ \E k \in Kinds : Report(a, k)
        BY <1>0, <1>10, <2>2, TaskFrame
      <3>2. ASSUME cpc # "failed", NEW k \in Kinds, Report(a, k) PROVE Silent(c)
        <4>1. Reports' = Append(Reports, [conn |-> a, kind |-> k])
          BY <1>0, <3>1, <3>2, ReportAppends
        <4> QED
          BY <1>0, <2>2, <4>1, AddReport DEF Silent
      <3> QED
        BY <1>0, <1>1, <3>1, <3>2, ToldFrame
    <2> QED
      BY <2>1, <2>2
  <1> QED
    BY <1>2, <1>3, <1>4, <1>5, <1>6, <1>7, <1>8, <1>9, <1>10 DEF Next, Main, Collector

\* Tasks are spawned in order and end for good; the collector's end is final.
LEMMA EndingStep ==
    ASSUME IInv, Next
    PROVE  Ending'
  <1>0. /\ TypeOK /\ Ending /\ spawned \in Nat /\ Conns \subseteq Nat
        /\ task \in [Conns -> {"none", "connect", "write", "read", "hold", "gone"}]
    BY ConfigType DEF IInv, TypeOK
  <1>1. CASE Spawn
    <2>1. cpc # "done" /\ UNCHANGED <<cpc, gpc>> /\ gpc = "gen"
      BY <1>0, <1>1 DEF Spawn, Ending, SendersGone, collectv
    <2>2. ASSUME NEW c \in Conns PROVE task'[c] = "none" <=> c >= spawned'
      <3>1. task'[c] = (IF c = spawned THEN "connect" ELSE task[c]) /\ spawned' = spawned + 1
        BY <1>0, <1>1 DEF Spawn, TGoto
      <3>2. task[c] = "none" <=> c >= spawned
        BY <1>0 DEF Ending
      <3>3. c >= spawned + 1 <=> c # spawned /\ c >= spawned
        BY <1>0
      <3> QED
        BY <3>1, <3>2, <3>3
    <2> QED
      BY <2>1, <2>2 DEF Ending
  <1>2. CASE EndGenerate
    BY <1>0, <1>2 DEF EndGenerate, Ending, SendersGone, tasks, collectv
  <1>3. CASE Return
    <2>1. \A c \in Conns : task'[c] = IF task[c] = "none" THEN "none" ELSE "gone"
      BY <1>3 DEF Return
    <2>2. /\ UNCHANGED <<spawned, cpc, chan>>
          /\ gpc' \in {"ok", "err"} /\ (gpc' = "ok" => cpc = "done")
      BY <1>3 DEF Return, collectv
    <2> QED
      BY <1>0, <2>1, <2>2 DEF Ending, SendersGone
  <1>4. CASE RecvRow
    BY <1>0, <1>4 DEF RecvRow, Ending, mainv, tasks
  <1>5. CASE RecvEnd
    BY <1>0, <1>5 DEF RecvEnd, Ending, SendersGone, mainv, tasks
  <1>6. CASE CollectFails
    BY <1>0, <1>6 DEF CollectFails, Ending, mainv, tasks
  <1>7. CASE Elapse \/ LbStops
    BY <1>0, <1>7 DEF Elapse, LbStops, Ending, SendersGone, mainv, tasks, collectv
  <1>8. ASSUME NEW a \in Conns, LbAccepts(a) \/ LbAnswers(a) PROVE Ending'
    BY <1>0, <1>8 DEF LbAccepts, LbAnswers, Ending, SendersGone, mainv, tasks, collectv
  <1>9. ASSUME NEW w \in Workers, WorkerDies(w) PROVE Ending'
    BY <1>0, <1>9 DEF WorkerDies, Ending, SendersGone, mainv, tasks, collectv
  <1>10. ASSUME NEW a \in Conns, Task(a) PROVE Ending'
    <2>1. /\ UNCHANGED <<cpc, gpc, spawned>> /\ task[a] \notin {"none", "gone"} /\ task'[a] # "none"
          /\ \A c \in Conns : c # a => task'[c] = task[c]
      BY <1>0, <1>10, TaskFrame
    <2>2. cpc # "done"
      BY <1>0, <2>1 DEF Ending, SendersGone
    <2>3. \A c \in Conns : task'[c] = "none" <=> task[c] = "none"
      BY <2>1
    <2> QED
      BY <1>0, <2>1, <2>2, <2>3 DEF Ending
  <1> QED
    BY <1>1, <1>2, <1>3, <1>4, <1>5, <1>6, <1>7, <1>8, <1>9, <1>10 DEF Next, Main, Collector

\* Only the collector writes rows and counts them.
LEMMA SumsStep ==
    ASSUME IInv, Next
    PROVE  Sums'
  <1>0. Sums /\ TypeOK
    BY DEF IInv
  <1>1. ASSUME NEW a \in Conns, Task(a) PROVE UNCHANGED <<csv, summary>>
    BY <1>0, <1>1, TaskFrame
  <1>2. ASSUME NEW a \in Conns, LbAccepts(a) \/ LbAnswers(a) PROVE UNCHANGED <<csv, summary>>
    BY <1>2 DEF LbAccepts, LbAnswers, collectv
  <1>3. ASSUME NEW w \in Workers, WorkerDies(w) PROVE UNCHANGED <<csv, summary>>
    BY <1>3 DEF WorkerDies, collectv
  <1>4. CASE Spawn \/ EndGenerate \/ Return \/ RecvEnd \/ CollectFails \/ Elapse \/ LbStops
    <2>1. UNCHANGED <<csv, summary>>
      BY <1>4 DEF Spawn, EndGenerate, Return, RecvEnd, CollectFails, Elapse, LbStops, collectv
    <2> QED
      BY <1>0, <2>1, SumsFrame
  <1>5. CASE RecvRow
    BY <1>5, SumsRecv
  <1> QED
    BY <1>0, <1>1, <1>2, <1>3, <1>4, <1>5, SumsFrame DEF Next, Main, Collector

\* Nothing has been spawned, sent or written at the start.
LEMMA InitIInv == Init => IInv
  <1> SUFFICES ASSUME Init PROVE IInv
    OBVIOUS
  <1>0. config.duration \in Nat \ {0} /\ Conns \subseteq Nat
    BY ConfigsAssumption DEF Init, Conns
  <1>1. TypeOK
    BY <1>0, BoundsAssumption DEF Init, TypeOK
  <1>2. Ending
    BY <1>0 DEF Init, Ending
  <1>3. csv = <<>> /\ Len(csv) = 0 /\ Reports = <<>> /\ Len(Reports) = 0
    BY DEF Init, Reports
  <1>4. \A c \in Conns : ReportsOf(c) = {} /\ RowsOf(c) = {}
    BY <1>3 DEF ReportsOf, RowsOf
  <1>5. \A c \in Conns : Told(c)
    BY <1>4 DEF Init, Told, ToldAt, InPairs
  <1>6. Sums
    <2>1. Seen = {} /\ Twice = {} /\ Dropped = {}
      BY <1>4 DEF Seen, Twice, Dropped
    <2>2. IsFiniteSet({}) /\ Cardinality({}) = 0
      BY FS_EmptySet
    <2>3. summary.drops = 0 /\ summary.errors = 0 /\ summary.completed = 0
      BY DEF Init
    <2> QED
      BY <2>1, <2>2, <2>3 DEF Sums
  <1> QED
    BY <1>1, <1>2, <1>5, <1>6 DEF IInv

\* The invariant is inductive.
THEOREM InductiveInvariant == Spec => []IInv
  <1>1. IInv /\ [Next]_vars => IInv'
    <2> SUFFICES ASSUME IInv, [Next]_vars PROVE IInv'
      OBVIOUS
    <2>1. CASE Next
      BY <2>1, TypeStep, EndingStep, ToldStep, SumsStep DEF IInv
    <2>2. CASE UNCHANGED vars
      <3>1. TypeOK' /\ Ending'
        BY <2>2 DEF IInv, TypeOK, Ending, SendersGone, vars, mainv, tasks, collectv, lb
      <3>2. Sums'
        BY <2>2, SumsFrame DEF IInv, vars, collectv
      <3>3. ASSUME NEW c \in Conns PROVE Told(c)'
        <4>1. UNCHANGED <<csv, chan, config, task, fired, cpc>>
          BY <2>2 DEF vars, tasks, collectv
        <4>2. Silent(c)
          BY <4>1, AllSilent DEF Reports
        <4> QED
          BY <4>1, <4>2, ToldFrame DEF IInv
      <3> QED
        BY <3>1, <3>2, <3>3 DEF IInv
    <2> QED
      BY <2>1, <2>2
  <1> QED
    BY InitIInv, <1>1, PTL DEF Spec
-----------------------------------------------------------------------------
\* The load generator's variables have their types: it never spawns a connection
\* beyond those its duration has room for.
THEOREM TypeCorrect == Spec => []TypeOK
  BY InductiveInvariant, PTL DEF IInv

\* A connection's reports are one per request, in order, up to the first failure,
\* and no task ends without one (run_connection, fire_request).
THEOREM ProtocolIsFollowed == Spec => []ReportsFollowProtocol
  <1>1. IInv => ReportsFollowProtocol
    <2> SUFFICES ASSUME IInv, cpc # "failed", NEW c \in Conns
                 PROVE  /\ InPairs(c)
                        /\ task[c] = "gone" => ReportsOf(c) # {}
                        /\ task[c] = "hold" => LastIs(c, IF fired[c] THEN "burst" ELSE "accept")
      BY DEF ReportsFollowProtocol, InPairs, LastIs
    <2> QED
      BY DEF IInv, Told, ToldAt
  <1> QED
    BY <1>1, InductiveInvariant, PTL

\* When main succeeds, every generated connection is in the file and the summary
\* says how many rows and how many drops there are (drop(tx), collect).
THEOREM RunIsAccounted == Spec => []RunAccounted
  <1>1. IInv => RunAccounted
    <2> SUFFICES ASSUME IInv, gpc = "ok"
                 PROVE  /\ \A c \in Conns : RowsOf(c) # {} <=> c < spawned
                        /\ summary.drops = Cardinality(Dropped)
                        /\ summary.completed + summary.errors + summary.drops
                             = spawned + Cardinality(Twice)
      BY DEF RunAccounted, Dropped, Twice
    <2>1. /\ chan = <<>> /\ \A c \in Conns : task[c] \in {"none", "gone"} /\ ToldAt(c)
          /\ \A c \in Conns : task[c] = "none" <=> c >= spawned
      BY DEF IInv, Ending, SendersGone, Told
    <2>2. /\ spawned \in 0 .. config.duration /\ Conns \subseteq Nat
          /\ 0 .. config.duration - 1 \subseteq Conns /\ config.duration \in Nat
      BY ConfigType DEF IInv, TypeOK
    <2>3. Reports = csv
      BY <2>1 DEF Reports, IInv, TypeOK
    <2>4. ASSUME NEW c \in Conns PROVE RowsOf(c) # {} <=> c < spawned
      <3>1. RowsOf(c) = ReportsOf(c)
        BY <2>3 DEF RowsOf, ReportsOf
      <3>2. RowsOf(c) # {} <=> task[c] = "gone"
        BY <2>1, <3>1 DEF ToldAt
      <3>3. c >= spawned <=> ~(c < spawned)
        BY <2>2
      <3> QED
        BY <2>1, <3>2, <3>3
    <2>5. Seen = 0 .. spawned - 1
      <3>1. \A c \in Conns : c \in 0 .. spawned - 1 <=> c < spawned
        BY <2>2
      <3>2. 0 .. spawned - 1 \subseteq Conns
        BY <2>2
      <3> QED
        BY <2>4, <3>1, <3>2 DEF Seen
    <2>6. Cardinality(Seen) = spawned
      <3>1. 0 \in Int /\ spawned - 1 \in Int
            /\ (IF 0 > spawned - 1 THEN 0 ELSE (spawned - 1) - 0 + 1) = spawned
        BY <2>2
      <3> QED
        BY <2>5, <3>1, FS_Interval
    <2> QED
      BY <2>4, <2>6 DEF IInv, Sums
  <1> QED
    BY <1>1, InductiveInvariant, PTL

=============================================================================
