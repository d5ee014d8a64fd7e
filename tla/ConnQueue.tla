----------------------------- MODULE ConnQueue -----------------------------
(***************************************************************************)
(* The lock-free single-producer single-consumer ring buffer in shared     *)
(* memory that stands for a worker's accept queue (shm.rs).  The generator *)
(* pushes, the owning worker pops, each with separate loads and stores.    *)
(*                                                                         *)
(* Each index has one writer, so that writer's relaxed load of its own     *)
(* index is merged with the acquire load of the other one; every other     *)
(* load and store is a step.  The release store of an index publishes the  *)
(* slot access before it, so the steps of one side are seen in order.      *)
(***************************************************************************)
EXTENDS Integers, Sequences

CONSTANTS Desc,         \* connection descriptors
          None,         \* the None of pop
          Cap,          \* QUEUE_CAP, 512 in the build
          Laps,         \* 2^32 \div QUEUE_CAP: the laps after which an index wraps
          MaxPush       \* bound on the number of accepted pushes

ASSUME CapAssumption == Cap \in Nat \ {0}
ASSUME LapsAssumption == Laps \in Nat /\ Laps >= 2
ASSUME MaxPushAssumption == MaxPush \in Nat
ASSUME NoneAssumption == None \notin Desc

W == Laps * Cap         \* the indices are integers modulo W (2^32)

VARIABLES tail,         \* the producer's index, modulo W
          head,         \* the consumer's index, modulo W
          slots,        \* the ring
          ppc, pdesc,   \* the producer: where it is in push, what it pushes
          cpc, cdesc,   \* the consumer: where it is in pop, what it read
          accepted,     \* what the last push returned
          got,          \* what the last pop returned
          plen, clen,   \* the depth each side last saw, since its last operation
          sent, rcvd    \* history: all descriptors accepted, all delivered

vars == <<tail, head, slots, ppc, pdesc, cpc, cdesc, accepted, got,
          plen, clen, sent, rcvd>>

Unknown == -1           \* no depth read since this side's last push or pop

WrappingSub(a, b) == (a - b) % W

\* Mutation of WrappingInc: the index is not wrapped.
PlainInc(a) == a + 1

WrappingInc(a) == (a + 1) % W
-----------------------------------------------------------------------------
\* The zero-filled pages: what the slots hold before the first push is never read.
Init == /\ tail = 0 /\ head = 0
        /\ slots = [i \in 0 .. Cap - 1 |-> None]
        /\ ppc = "idle" /\ pdesc = None
        /\ cpc = "idle" /\ cdesc = None
        /\ accepted = TRUE /\ got = None
        /\ plen = Unknown /\ clen = Unknown
        /\ sent = <<>> /\ rcvd = <<>>

\* Mutation of Full: one descriptor too many.
FullOffByOne(t, h) == WrappingSub(t, h) > Cap

\* Mutation of Full: the indices are compared without the wrapping subtraction.
FullNoWrap(t, h) == t - h >= Cap

Full(t, h) == WrappingSub(t, h) >= Cap

\* Mutation of Empty: a comparison that ignores the wrap.
EmptyNoWrap(t, h) == h >= t

Empty(t, h) == h = t

\* push: load both indices and refuse when full.
PushLoad(d) ==
    /\ ppc = "idle" /\ Len(sent) < MaxPush
    /\ plen' = Unknown
    /\ IF Full(tail, head)
       THEN /\ accepted' = FALSE
            /\ UNCHANGED <<ppc, pdesc>>
       ELSE /\ ppc' = "write"
            /\ pdesc' = d
            /\ UNCHANGED accepted
    /\ UNCHANGED <<tail, head, slots, cpc, cdesc, got, clen, sent, rcvd>>

\* push: copy the descriptor into its slot (a plain, non-atomic write).
PushWrite ==
    /\ ppc = "write"
    /\ slots' = [slots EXCEPT ![tail % Cap] = pdesc]
    /\ ppc' = "store"
    /\ UNCHANGED <<tail, head, pdesc, cpc, cdesc, accepted, got, plen, clen, sent, rcvd>>

\* push: publish it.
PushStore ==
    /\ ppc = "store"
    /\ tail' = WrappingInc(tail)
    /\ ppc' = "idle"
    /\ accepted' = TRUE
    /\ sent' = Append(sent, pdesc)
    /\ UNCHANGED <<head, slots, pdesc, cpc, cdesc, got, plen, clen, rcvd>>

\* Mutation of PopLoad: the slot is handed back before it is copied out.
PopLoadReleasesEarly ==
    /\ cpc = "idle"
    /\ clen' = Unknown
    /\ IF Empty(tail, head)
       THEN got' = None /\ UNCHANGED <<cpc, head>>
       ELSE cpc' = "read" /\ head' = WrappingInc(head) /\ UNCHANGED got
    /\ UNCHANGED <<tail, slots, ppc, pdesc, cdesc, accepted, plen, sent, rcvd>>

\* pop: load both indices and return None when empty.
PopLoad ==
    /\ cpc = "idle"
    /\ clen' = Unknown
    /\ IF Empty(tail, head)
       THEN got' = None /\ UNCHANGED cpc
       ELSE cpc' = "read" /\ UNCHANGED got
    /\ UNCHANGED <<tail, head, slots, ppc, pdesc, cdesc, accepted, plen, sent, rcvd>>

\* pop: copy the descriptor out (a plain, non-atomic read).
PopRead ==
    /\ cpc = "read"
    /\ cdesc' = slots[head % Cap]
    /\ cpc' = "store"
    /\ UNCHANGED <<tail, head, slots, ppc, pdesc, accepted, got, plen, clen, sent, rcvd>>

\* pop: hand the slot back.
PopStore ==
    /\ cpc = "store"
    /\ head' = WrappingInc(head)
    /\ cpc' = "idle"
    /\ got' = cdesc
    /\ rcvd' = Append(rcvd, cdesc)
    /\ UNCHANGED <<tail, slots, ppc, pdesc, cdesc, accepted, plen, clen, sent>>

\* len, as dispatch_lifo calls it in the producer's process: its own index is
\* exact, the other one is loaded now.
ProducerLen ==
    /\ ppc = "idle"
    /\ plen' = WrappingSub(tail, head)
    /\ UNCHANGED <<tail, head, slots, ppc, pdesc, cpc, cdesc, accepted, got, clen, sent, rcvd>>

\* Mutation of ConsumerLen: the subtraction is the wrong way around.
ConsumerLenSwapped ==
    /\ cpc = "idle"
    /\ clen' = WrappingSub(head, tail)
    /\ UNCHANGED <<tail, head, slots, ppc, pdesc, cpc, cdesc, accepted, got, plen, sent, rcvd>>

\* len and is_empty, as the worker calls them on its own queue.
ConsumerLen ==
    /\ cpc = "idle"
    /\ clen' = WrappingSub(tail, head)
    /\ UNCHANGED <<tail, head, slots, ppc, pdesc, cpc, cdesc, accepted, got, plen, sent, rcvd>>

Producer == (\E d \in Desc : PushLoad(d)) \/ PushWrite \/ PushStore \/ ProducerLen
Consumer == PopLoad \/ PopRead \/ PopStore \/ ConsumerLen

Next == Producer \/ Consumer

Spec == Init /\ [][Next]_vars

\* The worker polls its queue in every loop iteration and a push that has begun
\* is a straight line, so neither stops between two steps for ever.
Fairness == /\ WF_vars(PopLoad) /\ WF_vars(PopRead) /\ WF_vars(PopStore)
            /\ WF_vars(PushWrite) /\ WF_vars(PushStore)

FairSpec == Spec /\ Fairness
-----------------------------------------------------------------------------
TypeOK ==
    /\ tail \in 0 .. W - 1 /\ head \in 0 .. W - 1
    /\ slots \in [0 .. Cap - 1 -> Desc \cup {None}]
    /\ ppc \in {"idle", "write", "store"} /\ cpc \in {"idle", "read", "store"}
    /\ pdesc \in Desc \cup {None} /\ cdesc \in Desc \cup {None}
    /\ accepted \in BOOLEAN /\ got \in Desc \cup {None}
    /\ plen \in -1 .. W - 1 /\ clen \in -1 .. W - 1
    /\ sent \in Seq(Desc) /\ rcvd \in Seq(Desc \cup {None})

\* "No slot is ever accessed concurrently": while the producer copies a
\* descriptor in, the consumer is not copying out of the same slot, on any lap
\* and across the wrap of the 32-bit indices (shm.rs:67).
NoSlotRace == ppc = "write" /\ cpc = "read" => tail % Cap # head % Cap

\* The consumer receives exactly what was accepted, in order, nothing twice,
\* nothing lost and nothing made up, and no more than the capacity is under way.
FifoDelivery == /\ Len(rcvd) <= Len(sent)
                /\ Len(sent) - Len(rcvd) <= Cap
                /\ \A k \in 1 .. Len(rcvd) : rcvd[k] = sent[k]

\* The racy len is a bound on the side that reads it: the generator sees at
\* least what is queued until it pushes again (an empty queue stays empty), the
\* worker sees at most what is queued until it pops again, and neither ever
\* sees a depth beyond the capacity.
LenIsOneSided ==
    /\ ppc = "idle" /\ plen # Unknown
         => Len(sent) - Len(rcvd) <= plen /\ plen <= Cap
    /\ cpc = "idle" /\ clen # Unknown => clen <= Len(sent) - Len(rcvd)

\* Every accepted connection is delivered: none is left behind in the ring when
\* the producer stops pushing.
EveryPushDelivered ==
    \A k \in 1 .. MaxPush : Len(sent) >= k ~> Len(rcvd) >= k

\* The ring implements the atomic bounded queue.
Fifo == INSTANCE BoundedFifo
            WITH q <- [k \in 1 .. WrappingSub(tail, head) |->
                          slots[((head + k - 1) % W) % Cap]]
ImplementsFifo == Fifo!Spec

=============================================================================
