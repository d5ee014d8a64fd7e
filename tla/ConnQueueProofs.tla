-------------------------- MODULE ConnQueueProofs --------------------------
(***************************************************************************)
(* The ring buffer is race-free and first-in first-out for every capacity, *)
(* every number of laps before the indices wrap and every set of           *)
(* descriptors.  The argument counts: the producer's index is the number   *)
(* of descriptors accepted and the consumer's the number delivered, both   *)
(* modulo W, and the two counts are never more than Cap < W apart.         *)
(***************************************************************************)
EXTENDS ConnQueue, SequenceTheorems, TLAPS

\* Integer division, as the lemmas below use it.
LEMMA DivMod ==
    ASSUME NEW n \in Nat, NEW m \in Nat \ {0}
    PROVE  /\ n \div m \in Nat
           /\ n % m \in 0 .. m - 1
           /\ n = m * (n \div m) + (n % m)
  BY SMT

\* The remainder is determined by any way of writing a number as m * q + r.
LEMMA ModUnique ==
    ASSUME NEW m \in Nat \ {0}, NEW q \in Int, NEW r \in 0 .. m - 1
    PROVE  (m * q + r) % m = r
  BY SMT

\* wrapping_add(1) on an index that is a count modulo m.
LEMMA ModInc ==
    ASSUME NEW n \in Nat, NEW m \in Nat \ {0}
    PROVE  ((n % m) + 1) % m = (n + 1) % m
  <1> DEFINE q == n \div m
             r == n % m
  <1>1. q \in Nat /\ r \in 0 .. m - 1 /\ n = m * q + r
    BY DivMod
  <1>2. CASE r = m - 1
    <2>1. n + 1 = m * (q + 1) + 0
      BY <1>1, <1>2
    <2>2. q + 1 \in Int /\ 0 \in 0 .. m - 1
      BY <1>1
    <2>3. (m * (q + 1) + 0) % m = 0
      BY <2>2, ModUnique
    <2>4. (n + 1) % m = 0
      BY <2>1, <2>3
    <2>5. (r + 1) % m = 0
      BY <1>2, ModUnique, m = m * 1 + 0
    <2> QED
      BY <2>4, <2>5
  <1>3. CASE r < m - 1
    <2>1. n + 1 = m * q + (r + 1)
      BY <1>1
    <2>2. r + 1 \in 0 .. m - 1 /\ q \in Int /\ 0 \in Int
      BY <1>1, <1>3
    <2> HIDE DEF q, r
    <2>3. (m * q + (r + 1)) % m = r + 1
      BY <2>2, ModUnique
    <2>4. (m * 0 + (r + 1)) % m = r + 1
      BY <2>2, ModUnique
    <2>5. r + 1 = m * 0 + (r + 1)
      BY <2>2
    <2>6. (n + 1) % m = r + 1 /\ (r + 1) % m = r + 1
      BY <2>1, <2>3, <2>4, <2>5
    <2> QED
      BY <2>6 DEF r
  <1> QED
    BY <1>1, <1>2, <1>3

\* An index modulo W selects the same slot as the count it stands for, because
\* the capacity divides W.
LEMMA ModOfMod ==
    ASSUME NEW n \in Nat, NEW c \in Nat \ {0}, NEW l \in Nat \ {0}
    PROVE  (n % (l * c)) % c = n % c
  <1> DEFINE q == n \div (l * c)
             r == n % (l * c)
  <1>1. l * c \in Nat \ {0}
    BY SMT
  <1>2. q \in Nat /\ r \in 0 .. l * c - 1 /\ n = (l * c) * q + r
    BY <1>1, DivMod
  <1> HIDE DEF q, r
  <1> DEFINE s == r % c
             u == r \div c
  <1>3. r \in Nat
    BY <1>1, <1>2
  <1>4. u \in Nat /\ s \in 0 .. c - 1 /\ r = c * u + s
    BY <1>3, DivMod
  <1> HIDE DEF s, u
  <1>5. (l * c) * q = c * (l * q)
    BY <1>2
  <1>6. c * (l * q) + c * u = c * (l * q + u)
    BY <1>2, <1>4
  <1>7. n = c * (l * q + u) + s
    BY <1>2, <1>4, <1>5, <1>6
  <1>8. n % c = s
    BY <1>7, <1>2, <1>4, ModUnique
  <1> QED
    BY <1>8 DEF s, r

\* wrapping_sub recovers the difference of two counts less than m apart.
LEMMA ModDiff ==
    ASSUME NEW a \in Nat, NEW b \in Nat, NEW m \in Nat \ {0}, b <= a, a - b < m
    PROVE  ((a % m) - (b % m)) % m = a - b
  <1> DEFINE q == a \div m
             r == a % m
             s == b \div m
             t == b % m
  <1>1. q \in Nat /\ r \in 0 .. m - 1 /\ a = m * q + r
    BY DivMod
  <1>2. s \in Nat /\ t \in 0 .. m - 1 /\ b = m * s + t
    BY DivMod
  <1> HIDE DEF q, r, s, t
  <1>3. r - t = m * (s - q) + (a - b)
    BY <1>1, <1>2
  <1>4. (r - t) % m = a - b
    BY <1>3, <1>1, <1>2, ModUnique
  <1> QED
    BY <1>4 DEF r, t

\* Two counts less than a lap apart use different slots.
LEMMA ModDistinct ==
    ASSUME NEW a \in Nat, NEW b \in Nat, NEW m \in Nat \ {0}, b < a, a - b < m
    PROVE  a % m # b % m
  <1> SUFFICES ASSUME a % m = b % m PROVE FALSE
    OBVIOUS
  <1>1. b <= a
    OBVIOUS
  <1>2. ((a % m) - (b % m)) % m = a - b
    BY <1>1, ModDiff
  <1>3. 0 = m * 0 + 0
    OBVIOUS
  <1>4. 0 % m = 0
    BY <1>3, ModUnique
  <1>5. (a % m) - (b % m) = 0
    BY DivMod
  <1> QED
    BY <1>2, <1>4, <1>5
-----------------------------------------------------------------------------
Np == Len(sent)         \* descriptors accepted
Nc == Len(rcvd)         \* descriptors delivered

\* The indices are the counts, and the counts are at most the capacity apart.
Counting ==
    /\ Nc <= Np
    /\ Np - Nc <= Cap
    /\ tail = Np % W
    /\ head = Nc % W

\* A side that has passed its check still has the room, or the descriptor, that
\* it saw: only the other side changes the depth, and in its favour.
Room == /\ ppc # "idle" => Np - Nc < Cap /\ pdesc \in Desc
        /\ cpc # "idle" => Nc < Np

\* The slots between the two counts hold what was accepted and not delivered.
Contents ==
    /\ \A k \in Nc + 1 .. Np : slots[(k - 1) % Cap] = sent[k]
    /\ ppc = "store" => slots[Np % Cap] = pdesc
    /\ cpc = "store" => cdesc = sent[Nc + 1]
    /\ \A k \in 1 .. Nc : rcvd[k] = sent[k]

IInv == TypeOK /\ Counting /\ Room /\ Contents
-----------------------------------------------------------------------------
\* What the steps below use of the constants.
LEMMA Constants ==
    /\ Cap \in Nat \ {0}
    /\ Laps \in Nat \ {0}
    /\ W \in Nat \ {0}
    /\ Cap < W
  <1>1. Cap \in Nat \ {0} /\ Laps \in Nat /\ Laps >= 2
    BY CapAssumption, LapsAssumption
  <1>2. 2 * Cap <= Laps * Cap
    BY <1>1
  <1> QED
    BY <1>1, <1>2 DEF W

\* The indices, read as counts: what the comparisons and increments compute.
LEMMA Counts ==
    ASSUME IInv
    PROVE  /\ Np \in Nat /\ Nc \in Nat
           /\ WrappingSub(tail, head) = Np - Nc
           /\ WrappingInc(tail) = (Np + 1) % W
           /\ WrappingInc(head) = (Nc + 1) % W
           /\ tail % Cap = Np % Cap
           /\ head % Cap = Nc % Cap
           /\ Np % Cap \in 0 .. Cap - 1
           /\ Nc % Cap \in 0 .. Cap - 1
  <1>1. Np \in Nat /\ Nc \in Nat
    BY DEF IInv, TypeOK, Np, Nc
  <1>2. Nc <= Np /\ Np - Nc < W /\ tail = Np % W /\ head = Nc % W
    BY <1>1, Constants DEF IInv, Counting
  <1>3. WrappingSub(tail, head) = Np - Nc
    BY <1>1, <1>2, Constants, ModDiff DEF WrappingSub
  <1>4. /\ WrappingInc(tail) = (Np + 1) % W
        /\ WrappingInc(head) = (Nc + 1) % W
    BY <1>1, <1>2, Constants, ModInc DEF WrappingInc
  <1>5. tail % Cap = Np % Cap /\ head % Cap = Nc % Cap
    BY <1>1, <1>2, Constants, ModOfMod DEF W
  <1>6. Np % Cap \in 0 .. Cap - 1 /\ Nc % Cap \in 0 .. Cap - 1
    BY <1>1, Constants, DivMod
  <1> QED
    BY <1>1, <1>3, <1>4, <1>5, <1>6

\* The zero-filled ring satisfies the invariant.
LEMMA InitIInv == Init => IInv
  <1> SUFFICES ASSUME Init PROVE IInv
    OBVIOUS
  <1>1. Np = 0 /\ Nc = 0
    BY DEF Init, Np, Nc
  <1>2. 0 % W = 0
    BY Constants, ModUnique, 0 = W * 0 + 0
  <1>3. TypeOK
    BY Constants DEF Init, TypeOK, Unknown
  <1>4. Counting
    BY <1>1, <1>2, Constants DEF Init, Counting
  <1>5. Room /\ Contents
    BY <1>1 DEF Init, Room, Contents
  <1> QED
    BY <1>3, <1>4, <1>5 DEF IInv

\* push, before it writes: a refusal changes no count, and a push that goes on
\* saw room for its descriptor.
LEMMA PushLoadStep ==
    ASSUME IInv, NEW d \in Desc, PushLoad(d)
    PROVE  IInv'
  <1> USE DEF PushLoad
  <1>1. Np' = Np /\ Nc' = Nc /\ Np \in Nat /\ Nc \in Nat
    BY Counts DEF Np, Nc
  <1>2. ~Full(tail, head) => Np - Nc < Cap
    BY <1>1, Counts, Constants DEF Full
  <1>3. TypeOK'
    <2>1. TypeOK /\ Unknown \in -1 .. W - 1
      BY Constants DEF IInv, Unknown
    <2>2. /\ ppc' \in {ppc, "write"} /\ pdesc' \in {pdesc, d} /\ plen' = Unknown
          /\ accepted' \in {accepted, FALSE}
          /\ UNCHANGED <<tail, head, slots, cpc, cdesc, got, clen, sent, rcvd>>
      OBVIOUS
    <2> HIDE DEF PushLoad
    <2> QED
      BY <2>1, <2>2 DEF TypeOK
  <1>4. Counting'
    BY <1>1 DEF IInv, Counting
  <1>5. Room'
    BY <1>1, <1>2 DEF IInv, Room
  <1>6. Contents'
    BY <1>1 DEF IInv, Contents, TypeOK
  <1> QED
    BY <1>3, <1>4, <1>5, <1>6 DEF IInv

\* push writes a slot that holds nothing undelivered.
LEMMA PushWriteStep == ASSUME IInv, PushWrite PROVE IInv'
  <1> USE DEF PushWrite
  <1>1. Np' = Np /\ Nc' = Nc /\ Np \in Nat /\ Nc \in Nat
    BY Counts DEF Np, Nc
  <1>2. Np - Nc < Cap /\ pdesc \in Desc
    BY DEF IInv, Room
  <1>3. TypeOK'
    BY <1>2 DEF IInv, TypeOK
  <1>4. Counting'
    BY <1>1 DEF IInv, Counting
  <1>5. Room'
    BY <1>1, <1>2 DEF IInv, Room
  <1>6. slots' = [slots EXCEPT ![Np % Cap] = pdesc] /\ Np % Cap \in DOMAIN slots
    BY Counts DEF IInv, TypeOK
  <1>7. ASSUME NEW k \in Nc + 1 .. Np
        PROVE  slots'[(k - 1) % Cap] = sent[k]
    <2>1. k - 1 \in Nat /\ k - 1 < Np /\ Np - (k - 1) < Cap
      BY <1>1, <1>2, Constants
    <2>2. Np % Cap # (k - 1) % Cap
      BY <1>1, <2>1, Constants, ModDistinct
    <2>3. (k - 1) % Cap \in DOMAIN slots
      BY <2>1, Constants, DivMod DEF IInv, TypeOK
    <2>4. slots[(k - 1) % Cap] = sent[k]
      BY DEF IInv, Contents
    <2> QED
      BY <1>6, <2>2, <2>3, <2>4
  <1>8. slots'[Np % Cap] = pdesc
    BY <1>6
  <1>9. Contents'
    BY <1>1, <1>7, <1>8 DEF IInv, Contents
  <1> QED
    BY <1>3, <1>4, <1>5, <1>9 DEF IInv

\* push publishes the slot it has written.
LEMMA PushStoreStep == ASSUME IInv, PushStore PROVE IInv'
  <1> USE DEF PushStore
  <1>1. Np \in Nat /\ Nc \in Nat /\ Np - Nc < Cap /\ Nc <= Np /\ Nc' = Nc
    BY Counts DEF Nc, IInv, Room, Counting
  <1>2. pdesc \in Desc /\ sent \in Seq(Desc) /\ sent' = Append(sent, pdesc)
    BY DEF IInv, Room, TypeOK
  <1>3. /\ Np' = Np + 1
        /\ \A k \in 1 .. Np : sent'[k] = sent[k]
        /\ sent'[Np + 1] = pdesc
        /\ sent' \in Seq(Desc)
    BY <1>2 DEF Np
  <1>4. tail' = (Np + 1) % W
    BY Counts
  <1>5. Np + 1 \in Nat
    BY <1>1
  <1>6. tail' \in 0 .. W - 1
    BY <1>4, <1>5, Constants, DivMod
  <1>7. TypeOK'
    BY <1>3, <1>6 DEF IInv, TypeOK
  <1> HIDE DEF PushStore
  <1>8. Counting'
    <2>1. head' = head
      BY DEF PushStore
    <2> QED
      BY <1>1, <1>3, <1>4, <2>1, Constants DEF IInv, Counting
  <1>9. Room'
    <2>1. ppc' = "idle" /\ cpc' = cpc
      BY DEF PushStore
    <2> QED
      BY <1>1, <1>3, <2>1 DEF IInv, Room
  <1>10. Contents'
    <2>1. slots' = slots /\ ppc' = "idle" /\ cpc' = cpc /\ cdesc' = cdesc /\ rcvd' = rcvd
      BY DEF PushStore
    <2>2. slots[Np % Cap] = pdesc
      BY DEF PushStore, IInv, Contents
    <2>3. ASSUME NEW k \in Nc + 1 .. Np + 1
          PROVE  slots[(k - 1) % Cap] = sent'[k]
      <3>1. CASE k = Np + 1
        <4>1. k - 1 = Np
          BY <1>1, <3>1
        <4> QED
          BY <1>3, <2>2, <3>1, <4>1
      <3>2. CASE k # Np + 1
        <4>1. k \in Nc + 1 .. Np /\ k \in 1 .. Np
          BY <1>1, <3>2
        <4>2. slots[(k - 1) % Cap] = sent[k]
          BY <4>1 DEF IInv, Contents
        <4> QED
          BY <1>3, <4>1, <4>2
      <3> QED
        BY <3>1, <3>2
    <2>4. cpc = "store" => cdesc = sent'[Nc + 1]
      <3> SUFFICES ASSUME cpc = "store" PROVE cdesc = sent'[Nc + 1]
        OBVIOUS
      <3>1. Nc + 1 \in 1 .. Np
        BY <1>1 DEF IInv, Room
      <3> QED
        BY <1>3, <3>1 DEF IInv, Contents
    <2>5. ASSUME NEW k \in 1 .. Nc PROVE rcvd[k] = sent'[k]
      <3>1. k \in 1 .. Np
        BY <1>1
      <3>2. rcvd[k] = sent[k]
        BY DEF IInv, Contents
      <3> QED
        BY <1>3, <3>1, <3>2
    <2> QED
      BY <1>1, <1>3, <2>1, <2>3, <2>4, <2>5 DEF Contents
  <1> QED
    BY <1>7, <1>8, <1>9, <1>10 DEF IInv

\* pop, before it reads: a pop that goes on saw a descriptor.
LEMMA PopLoadStep == ASSUME IInv, PopLoad PROVE IInv'
  <1> USE DEF PopLoad
  <1>1. Np' = Np /\ Nc' = Nc /\ Np \in Nat /\ Nc \in Nat
    BY Counts DEF Np, Nc
  <1>2. ~Empty(tail, head) => Nc < Np
    BY <1>1 DEF Empty, IInv, Counting
  <1>3. TypeOK'
    BY Constants DEF IInv, TypeOK, Unknown
  <1>4. Counting'
    BY <1>1 DEF IInv, Counting
  <1>5. Room'
    BY <1>1, <1>2 DEF IInv, Room
  <1>6. Contents'
    BY <1>1 DEF IInv, Contents, TypeOK
  <1> QED
    BY <1>3, <1>4, <1>5, <1>6 DEF IInv

\* pop reads the oldest undelivered descriptor.
LEMMA PopReadStep == ASSUME IInv, PopRead PROVE IInv'
  <1> USE DEF PopRead
  <1>1. Np' = Np /\ Nc' = Nc /\ Np \in Nat /\ Nc \in Nat /\ Nc < Np
    BY Counts DEF Np, Nc, IInv, Room
  <1>2. cdesc' = slots[Nc % Cap]
    BY Counts
  <1>3. Nc + 1 \in Nc + 1 .. Np /\ (Nc + 1) - 1 = Nc
    BY <1>1
  <1>4. cdesc' = sent[Nc + 1]
    BY <1>2, <1>3 DEF IInv, Contents
  <1>5. TypeOK'
    BY <1>1, <1>2, Counts DEF IInv, TypeOK
  <1>6. Counting'
    BY <1>1 DEF IInv, Counting
  <1>7. Room'
    BY <1>1 DEF IInv, Room
  <1>8. Contents'
    BY <1>1, <1>4 DEF IInv, Contents
  <1> QED
    BY <1>5, <1>6, <1>7, <1>8 DEF IInv

\* pop hands its slot back.
LEMMA PopStoreStep == ASSUME IInv, PopStore PROVE IInv'
  <1> USE DEF PopStore
  <1>1. /\ Np \in Nat /\ Nc \in Nat /\ Np' = Np /\ Nc < Np
        /\ cdesc = sent[Nc + 1]
    BY Counts DEF Np, IInv, Room, Contents
  <1>2. /\ rcvd \in Seq(Desc \cup {None}) /\ cdesc \in Desc \cup {None}
        /\ rcvd' = Append(rcvd, cdesc)
    BY DEF IInv, TypeOK
  <1>3. /\ Nc' = Nc + 1
        /\ \A k \in 1 .. Nc : rcvd'[k] = rcvd[k]
        /\ rcvd'[Nc + 1] = cdesc
        /\ rcvd' \in Seq(Desc \cup {None})
    BY <1>2 DEF Nc
  <1>4. head' = (Nc + 1) % W
    BY Counts
  <1>5. Nc + 1 \in Nat
    BY <1>1
  <1>6. head' \in 0 .. W - 1
    BY <1>4, <1>5, Constants, DivMod
  <1>7. TypeOK'
    BY <1>2, <1>3, <1>6 DEF IInv, TypeOK
  <1>8. Counting'
    BY <1>1, <1>3, <1>4, Constants DEF IInv, Counting
  <1>9. Room'
    BY <1>1, <1>3, Constants DEF IInv, Room
  <1>10. ASSUME NEW k \in 1 .. Nc + 1 PROVE rcvd'[k] = sent[k]
    <2>1. CASE k = Nc + 1
      BY <1>1, <1>3, <2>1
    <2>2. CASE k # Nc + 1
      <3>1. k \in 1 .. Nc
        BY <1>1, <2>2
      <3>2. rcvd[k] = sent[k]
        BY <3>1 DEF IInv, Contents
      <3> QED
        BY <1>3, <3>1, <3>2
    <2> QED
      BY <2>1, <2>2
  <1>11. \A k \in Nc + 2 .. Np : slots[(k - 1) % Cap] = sent[k]
    BY <1>1 DEF IInv, Contents
  <1>12. Nc' + 1 = Nc + 2
    BY <1>1, <1>3
  <1>13. Contents'
    BY <1>1, <1>3, <1>10, <1>11, <1>12 DEF IInv, Contents
  <1> QED
    BY <1>7, <1>8, <1>9, <1>13 DEF IInv

\* Reading the depth changes nothing but what was seen of it.
LEMMA LenStep == ASSUME IInv, ProducerLen \/ ConsumerLen PROVE IInv'
  <1> USE DEF ProducerLen, ConsumerLen
  <1>1. WrappingSub(tail, head) \in 0 .. W - 1
    BY Counts, Constants DEF IInv, Counting
  <1>2. Np' = Np /\ Nc' = Nc
    BY DEF Np, Nc
  <1>3. TypeOK'
    BY <1>1, Constants DEF IInv, TypeOK
  <1>4. Counting' /\ Room' /\ Contents'
    BY <1>2 DEF IInv, Counting, Room, Contents
  <1> QED
    BY <1>3, <1>4 DEF IInv

\* Nor does a step that changes nothing disturb it.
LEMMA StutterStep == ASSUME IInv, UNCHANGED vars PROVE IInv'
  BY DEF IInv, TypeOK, Counting, Room, Contents, Np, Nc, vars

\* The invariant is inductive.
THEOREM InductiveInvariant == Spec => []IInv
  <1>1. IInv /\ [Next]_vars => IInv'
    <2> SUFFICES ASSUME IInv, [Next]_vars PROVE IInv'
      OBVIOUS
    <2>1. CASE \E d \in Desc : PushLoad(d)
      BY <2>1, PushLoadStep
    <2>2. CASE PushWrite
      BY <2>2, PushWriteStep
    <2>3. CASE PushStore
      BY <2>3, PushStoreStep
    <2>4. CASE PopLoad
      BY <2>4, PopLoadStep
    <2>5. CASE PopRead
      BY <2>5, PopReadStep
    <2>6. CASE PopStore
      BY <2>6, PopStoreStep
    <2>7. CASE ProducerLen \/ ConsumerLen
      BY <2>7, LenStep
    <2>8. CASE UNCHANGED vars
      BY <2>8, StutterStep
    <2> QED
      BY <2>1, <2>2, <2>3, <2>4, <2>5, <2>6, <2>7, <2>8
      DEF Next, Producer, Consumer
  <1> QED
    BY InitIInv, <1>1, PTL DEF Spec

\* The states of the ring have their types: no index leaves its width and no slot
\* is addressed out of the ring.
THEOREM TypeCorrect == Spec => []TypeOK
  BY InductiveInvariant, PTL DEF IInv

\* push and pop never touch the same slot at the same time, whatever the
\* capacity and wherever the indices wrap (the claim of shm.rs:67).
THEOREM SlotsRaceFree == Spec => []NoSlotRace
  <1>1. IInv => NoSlotRace
    <2> SUFFICES ASSUME IInv, ppc = "write", cpc = "read"
                 PROVE  tail % Cap # head % Cap
      BY DEF NoSlotRace
    <2>1. Np \in Nat /\ Nc \in Nat /\ Nc < Np /\ Np - Nc < Cap
      BY Counts DEF IInv, Room
    <2>2. Np % Cap # Nc % Cap
      BY <2>1, Constants, ModDistinct
    <2> QED
      BY <2>2, Counts
  <1> QED
    BY <1>1, InductiveInvariant, PTL

\* What is delivered is what was accepted, in order and once, and at most the
\* capacity is under way.
THEOREM DeliveryIsFifo == Spec => []FifoDelivery
  <1>1. IInv => FifoDelivery
    BY DEF IInv, Counting, Contents, FifoDelivery, Np, Nc
  <1> QED
    BY <1>1, InductiveInvariant, PTL

-----------------------------------------------------------------------------
\* A depth that is still valid: nothing has been pushed since the producer read
\* it, nothing popped since the consumer did.
Depths ==
    /\ plen # Unknown => ppc = "idle" /\ Np - Nc <= plen /\ plen <= Cap
    /\ clen # Unknown => cpc = "idle" /\ clen <= Np - Nc

\* Each side's own operation forgets the depth before it changes it, and the other
\* side's operation moves the depth away from the bound.
LEMMA DepthsStep == ASSUME IInv, Depths, [Next]_vars PROVE Depths'
  <1>1. Np \in Nat /\ Nc \in Nat /\ Nc <= Np /\ Np - Nc <= Cap
    BY Counts DEF IInv, Counting
  <1>2. Cap \in Nat /\ plen \in Int /\ clen \in Int
    BY Constants DEF IInv, TypeOK
  <1>3. CASE \E d \in Desc : PushLoad(d)
    BY <1>3 DEF PushLoad, Depths, Np, Nc
  <1>4. CASE PushWrite
    BY <1>4 DEF PushWrite, Depths, Np, Nc
  <1>5. CASE PushStore
    <2>1. sent \in Seq(Desc) /\ pdesc \in Desc
      BY <1>5 DEF PushStore, IInv, TypeOK, Room
    <2>2. Np' = Np + 1 /\ Nc' = Nc
      BY <1>5, <2>1 DEF PushStore, Np, Nc
    <2> QED
      BY <1>1, <1>2, <1>5, <2>2 DEF PushStore, Depths
  <1>6. CASE PopLoad
    BY <1>6 DEF PopLoad, Depths, Np, Nc
  <1>7. CASE PopRead
    BY <1>7 DEF PopRead, Depths, Np, Nc
  <1>8. CASE PopStore
    <2>1. rcvd \in Seq(Desc \cup {None}) /\ cdesc \in Desc \cup {None}
      BY DEF IInv, TypeOK
    <2>2. Np' = Np /\ Nc' = Nc + 1
      BY <1>8, <2>1 DEF PopStore, Np, Nc
    <2> QED
      BY <1>1, <1>2, <1>8, <2>2 DEF PopStore, Depths
  <1>9. CASE ProducerLen \/ ConsumerLen
    <2>1. WrappingSub(tail, head) = Np - Nc
      BY Counts
    <2>2. Np' = Np /\ Nc' = Nc
      BY <1>9 DEF ProducerLen, ConsumerLen, Np, Nc
    <2> QED
      BY <1>1, <1>2, <1>9, <2>1, <2>2 DEF ProducerLen, ConsumerLen, Depths
  <1>10. CASE UNCHANGED vars
    BY <1>10 DEF vars, Depths, Np, Nc
  <1> QED
    BY <1>3, <1>4, <1>5, <1>6, <1>7, <1>8, <1>9, <1>10 DEF Next, Producer, Consumer

\* The racy len errs on one side only, for each caller: an empty queue that the
\* generator sees stays empty, a full one that the worker sees stays full, and
\* nobody sees more than the capacity (len, is_empty).
THEOREM DepthsOneSided == Spec => []LenIsOneSided
  <1>1. Init => Depths
    BY DEF Init, Depths
  <1>2. Depths => LenIsOneSided
    BY DEF Depths, LenIsOneSided, Np, Nc
  <1> QED
    BY <1>1, <1>2, DepthsStep, InductiveInvariant, PTL DEF Spec
-----------------------------------------------------------------------------
\* The abstract queue: what was accepted and not delivered.
Queued == [k \in 1 .. Np - Nc |-> sent[Nc + k]]

\* What the refinement mapping reads out of the ring.
Mapped == [k \in 1 .. WrappingSub(tail, head) |-> slots[((head + k - 1) % W) % Cap]]

\* The mapping reads the slots of the undelivered descriptors, oldest first,
\* wherever the indices have wrapped.
LEMMA MappedIsQueued == IInv => Mapped = Queued
  <1> SUFFICES ASSUME IInv PROVE Mapped = Queued
    OBVIOUS
  <1>1. Np \in Nat /\ Nc \in Nat /\ WrappingSub(tail, head) = Np - Nc
    BY Counts
  <1>2. ASSUME NEW k \in 1 .. Np - Nc
        PROVE  slots[((head + k - 1) % W) % Cap] = sent[Nc + k]
    <2>1. head = Nc % W /\ k - 1 \in Nat /\ Nc + k - 1 \in Nat
      BY <1>1 DEF IInv, Counting
    <2>2. ((head + k - 1) % W) = (Nc + k - 1) % W
      <3>1. head \in 0 .. W - 1 /\ Nc \div W \in Nat /\ Nc = W * (Nc \div W) + head
        BY <1>1, <2>1, Constants, DivMod
      <3> DEFINE m == head + k - 1
                 q == m \div W
                 r == m % W
                 p == Nc \div W
      <3>2. m \in Nat
        BY <2>1, <3>1, Constants
      <3>3. q \in Nat /\ r \in 0 .. W - 1 /\ m = W * q + r
        BY <3>2, Constants, DivMod
      <3>4. Nc + k - 1 = W * p + m
        BY <1>1, <2>1, <3>1, Constants
      <3>5. W \in Int /\ p \in Int
        BY <3>1, Constants
      <3> HIDE DEF q, r, p, m
      <3>6. W * p + (W * q + r) = W * (p + q) + r
        BY <3>3, <3>5, Constants
      <3>7. (W * (p + q) + r) % W = r
        BY <3>3, <3>5, Constants, ModUnique
      <3> QED
        BY <3>3, <3>4, <3>6, <3>7 DEF r, m
    <2>3. ((Nc + k - 1) % W) % Cap = (Nc + k - 1) % Cap
      BY <2>1, Constants, ModOfMod DEF W
    <2>4. Nc + k \in Nc + 1 .. Np /\ (Nc + k) - 1 = Nc + k - 1
      BY <1>1
    <2>5. slots[((Nc + k) - 1) % Cap] = sent[Nc + k]
      BY <2>4 DEF IInv, Contents
    <2> QED
      BY <2>2, <2>3, <2>4, <2>5
  <1> QED
    BY <1>1, <1>2 DEF Mapped, Queued

\* The abstract queue is a sequence, as long as the counts are apart.
LEMMA QueuedSeq ==
    IInv => Queued \in Seq(Desc) /\ Len(Queued) = Np - Nc /\ Np - Nc \in 0 .. Cap
  <1> SUFFICES ASSUME IInv
               PROVE  Queued \in Seq(Desc) /\ Len(Queued) = Np - Nc /\ Np - Nc \in 0 .. Cap
    OBVIOUS
  <1>1. Np \in Nat /\ Nc \in Nat /\ Nc <= Np /\ Np - Nc <= Cap /\ Cap \in Nat
    BY Counts, Constants DEF IInv, Counting
  <1>2. sent \in Seq(Desc) /\ Np = Len(sent)
    BY DEF IInv, TypeOK, Np
  <1>3. \A k \in 1 .. Np - Nc : sent[Nc + k] \in Desc
    BY <1>1, <1>2
  <1> QED
    BY <1>1, <1>3 DEF Queued

\* Both hold in the next state as well.
LEMMA QueuedAfter ==
    IInv' => /\ (Mapped = Queued)'
             /\ (Queued \in Seq(Desc) /\ Len(Queued) = Np - Nc /\ Np - Nc \in 0 .. Cap)'
  BY MappedIsQueued, QueuedSeq, PTL

\* push, once published, is the atomic push.
LEMMA PushStoreRefines ==
    ASSUME IInv, PushStore, IInv'
    PROVE  /\ Len(Queued) < Cap /\ pdesc \in Desc
           /\ Queued' = Append(Queued, pdesc)
  <1>1. Np \in Nat /\ Nc \in Nat /\ Nc <= Np /\ Np - Nc < Cap /\ pdesc \in Desc
    BY Counts DEF PushStore, IInv, Counting, Room
  <1>2. sent \in Seq(Desc) /\ sent' = Append(sent, pdesc)
    BY DEF PushStore, IInv, TypeOK
  <1>3. /\ Np' = Np + 1 /\ Nc' = Nc
        /\ \A k \in 1 .. Np : sent'[k] = sent[k]
        /\ sent'[Np + 1] = pdesc
    BY <1>1, <1>2 DEF PushStore, Np, Nc
  <1>4. Queued \in Seq(Desc) /\ Len(Queued) = Np - Nc
    BY QueuedSeq
  <1>5. Queued' \in Seq(Desc) /\ Len(Queued') = (Np - Nc) + 1
    BY <1>1, <1>3, QueuedAfter
  <1>6. ASSUME NEW k \in 1 .. Len(Queued')
        PROVE  Queued'[k] = Append(Queued, pdesc)[k]
    <2>1. Queued'[k] = sent'[Nc + k]
      BY <1>1, <1>3, <1>5 DEF Queued
    <2>2. CASE k = (Np - Nc) + 1
      <3>1. Nc + k = Np + 1 /\ k = Len(Queued) + 1
        BY <1>1, <1>4, <2>2
      <3>2. Append(Queued, pdesc)[k] = pdesc
        BY <1>1, <1>4, <3>1, AppendProperties
      <3> QED
        BY <1>3, <2>1, <3>1, <3>2
    <2>3. CASE k # (Np - Nc) + 1
      <3>1. k \in 1 .. Np - Nc /\ Nc + k \in 1 .. Np
        BY <1>1, <1>5, <2>3
      <3>2. Append(Queued, pdesc)[k] = Queued[k]
        BY <1>1, <1>4, <3>1, AppendProperties
      <3>3. Queued[k] = sent[Nc + k]
        BY <3>1 DEF Queued
      <3> QED
        BY <1>3, <2>1, <3>1, <3>2, <3>3
    <2> QED
      BY <2>2, <2>3
  <1>7. Append(Queued, pdesc) \in Seq(Desc) /\ Len(Append(Queued, pdesc)) = Len(Queued')
    BY <1>1, <1>4, <1>5, AppendProperties
  <1>8. Queued' = Append(Queued, pdesc)
    BY <1>5, <1>6, <1>7, SeqEqual
  <1> QED
    BY <1>1, <1>4, <1>8

\* pop, once the slot is handed back, is the atomic pop.
LEMMA PopStoreRefines ==
    ASSUME IInv, PopStore, IInv'
    PROVE  /\ Queued # <<>>
           /\ cdesc = Head(Queued)
           /\ Queued' = Tail(Queued)
  <1>1. Np \in Nat /\ Nc \in Nat /\ Nc < Np
    BY Counts DEF PopStore, IInv, Room
  <1>2. rcvd \in Seq(Desc \cup {None}) /\ cdesc \in Desc \cup {None}
    BY DEF IInv, TypeOK
  <1>3. Np' = Np /\ Nc' = Nc + 1 /\ sent' = sent
    BY <1>1, <1>2 DEF PopStore, Np, Nc
  <1>4. Queued \in Seq(Desc) /\ Len(Queued) = Np - Nc
    BY QueuedSeq
  <1>5. 1 \in 1 .. Np - Nc /\ Queued[1] = sent[Nc + 1]
    BY <1>1 DEF Queued
  <1>6. cdesc = sent[Nc + 1]
    BY DEF PopStore, IInv, Contents
  <1>7. Queued # <<>> /\ Head(Queued) = Queued[1]
    <2> HIDE DEF Queued
    <2> QED
      BY <1>1, <1>4
  <1>8. Tail(Queued) \in Seq(Desc) /\ Len(Tail(Queued)) = (Np - Nc) - 1
    BY <1>4, <1>7, HeadTailProperties
  <1>9. Queued' \in Seq(Desc) /\ Len(Queued') = (Np - Nc) - 1
    BY <1>1, <1>3, QueuedAfter
  <1>10. ASSUME NEW k \in 1 .. Len(Queued')
         PROVE  Queued'[k] = Tail(Queued)[k]
    <2>1. k + 1 \in 1 .. Np - Nc /\ Nc + (k + 1) = (Nc + 1) + k
      BY <1>1, <1>9
    <2>2. Queued'[k] = sent[(Nc + 1) + k]
      BY <1>1, <1>3, <1>9 DEF Queued
    <2>3. Tail(Queued)[k] = Queued[k + 1]
      BY <1>4, <1>7, <1>8, <1>9, HeadTailProperties
    <2>4. Queued[k + 1] = sent[Nc + (k + 1)]
      BY <2>1 DEF Queued
    <2> QED
      BY <2>1, <2>2, <2>3, <2>4
  <1>11. Queued' = Tail(Queued)
    BY <1>8, <1>9, <1>10, SeqEqual
  <1> QED
    BY <1>5, <1>6, <1>7, <1>11

\* Every step of the ring is a step of the atomic queue or leaves it alone: a push
\* takes effect when the tail is stored, or when it is refused, a pop when the
\* head is stored, or when it finds nothing.
LEMMA StepRefines ==
    ASSUME IInv, [Next]_vars, IInv'
    PROVE  [Fifo!Next]_(Fifo!vars)
  <1> DEFINE q == Mapped
  <1>1. q = Queued /\ q' = Queued'
    BY MappedIsQueued, QueuedAfter
  <1>2. q \in Seq(Desc) /\ Len(q) = Np - Nc /\ Np - Nc \in 0 .. Cap
    BY <1>1, QueuedSeq
  <1>3. Np \in Nat /\ Nc \in Nat /\ WrappingSub(tail, head) = Np - Nc
    BY Counts
  <1>4. sent' = sent /\ rcvd' = rcvd => q' = q
    BY <1>1 DEF Queued, Np, Nc
  <1> HIDE DEF q
  <1>5. CASE \E d \in Desc : PushLoad(d)
    <2>1. q' = q /\ got' = got
      BY <1>4, <1>5 DEF PushLoad
    <2>2. CASE Full(tail, head)
      <3>1. Len(q) = Cap
        BY <1>2, <1>3, <2>2, Constants DEF Full
      <3>2. accepted' = FALSE
        BY <1>5, <2>2 DEF PushLoad
      <3>3. Fifo!PushRefused
        BY <2>1, <3>1, <3>2 DEF Fifo!PushRefused, q, Mapped
      <3> QED
        BY <3>3 DEF Fifo!Next
    <2>3. CASE ~Full(tail, head)
      BY <1>5, <2>1, <2>3 DEF PushLoad, Fifo!vars, q, Mapped
    <2> QED
      BY <2>2, <2>3
  <1>6. CASE PushWrite
    BY <1>4, <1>6 DEF PushWrite, Fifo!vars, q, Mapped
  <1>7. CASE PushStore
    <2>1. Len(q) < Cap /\ pdesc \in Desc /\ q' = Append(q, pdesc)
      BY <1>1, <1>7, PushStoreRefines
    <2>2. accepted' = TRUE /\ got' = got
      BY <1>7 DEF PushStore
    <2>3. \E d \in Desc : Fifo!Push(d)
      BY <2>1, <2>2 DEF Fifo!Push, q, Mapped
    <2>4. Fifo!Next
      BY <2>3 DEF Fifo!Next
    <2> QED
      BY <2>4
  <1>8. CASE PopLoad
    <2>1. q' = q /\ accepted' = accepted
      BY <1>4, <1>8 DEF PopLoad
    <2>2. CASE Empty(tail, head)
      <3>1. Np - Nc = 0
        <4>1. WrappingSub(tail, head) = 0
          <5>1. tail \in Int /\ head = tail /\ W \in Int
            BY <2>2, Constants DEF Empty, IInv, TypeOK
          <5>2. tail - head = 0 /\ 0 = W * 0 + 0
            BY <5>1
          <5> QED
            BY <5>2, Constants, ModUnique DEF WrappingSub
        <4> QED
          BY <1>3, <4>1
      <3>2. q = <<>>
        BY <1>2, <3>1
      <3> QED
        BY <1>8, <2>1, <2>2, <3>2 DEF PopLoad, Fifo!Next, Fifo!PopNone, q, Mapped
    <2>3. CASE ~Empty(tail, head)
      BY <1>8, <2>1, <2>3 DEF PopLoad, Fifo!vars, q, Mapped
    <2> QED
      BY <2>2, <2>3
  <1>9. CASE PopRead
    BY <1>4, <1>9 DEF PopRead, Fifo!vars, q, Mapped
  <1>10. CASE PopStore
    <2>1. q # <<>> /\ cdesc = Head(q) /\ q' = Tail(q)
      BY <1>1, <1>10, PopStoreRefines
    <2>2. got' = cdesc /\ accepted' = accepted
      BY <1>10 DEF PopStore
    <2>3. Fifo!Pop
      BY <2>1, <2>2 DEF Fifo!Pop, q, Mapped
    <2> QED
      BY <2>3 DEF Fifo!Next
  <1>11. CASE ProducerLen \/ ConsumerLen
    BY <1>4, <1>11 DEF ProducerLen, ConsumerLen, Fifo!vars, q, Mapped
  <1>12. CASE UNCHANGED vars
    BY <1>4, <1>12 DEF vars, Fifo!vars, q, Mapped
  <1> QED
    BY <1>5, <1>6, <1>7, <1>8, <1>9, <1>10, <1>11, <1>12 DEF Next, Producer, Consumer

\* The ring buffer implements the atomic bounded queue, for every capacity and
\* across the wrap of its indices: each push and pop takes effect at one step, and
\* returns what the atomic operation returns at that step (ConnQueue of shm.rs).
THEOREM RingImplementsFifo == Spec => ImplementsFifo
  <1>1. Init => Fifo!Init
    <2> SUFFICES ASSUME Init PROVE Fifo!Init
      OBVIOUS
    <2>1. IInv
      BY InitIInv
    <2>2. Mapped \in Seq(Desc) /\ Len(Mapped) = 0
      <3>1. Np = 0 /\ Nc = 0
        BY DEF Init, Np, Nc
      <3> QED
        BY <2>1, <3>1, MappedIsQueued, QueuedSeq
    <2>3. Mapped = <<>>
      <3> HIDE DEF Mapped
      <3> QED
        BY <2>2
    <2> QED
      BY <2>3 DEF Init, Fifo!Init, Mapped
  <1>2. IInv /\ [Next]_vars /\ IInv' => [Fifo!Next]_(Fifo!vars)
    BY StepRefines
  <1> QED
    BY <1>1, <1>2, InductiveInvariant, PTL DEF Spec, ImplementsFifo, Fifo!Spec

=============================================================================
