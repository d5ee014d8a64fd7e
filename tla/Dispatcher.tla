----------------------------- MODULE Dispatcher -----------------------------
(***************************************************************************)
(* Algorithm 2: which worker receives a new connection.  TrySelect is the  *)
(* eBPF program (hermes-ebpf/src/main.rs); DispatchHermes, ReuseportHash   *)
(* and ShortestBacklog are the simulated kernel of the simulation          *)
(* (userspace_simulation/src/dispatcher.rs).                               *)
(***************************************************************************)
EXTENDS HermesCommon, FiniteSets

CONSTANT HashRange      \* the kernel's hashes are 0 .. HashRange - 1 (2^32)

ASSUME HashRangeAssumption == HashRange \in Nat \ {0}

Hash == 0 .. HashRange - 1

\* The simulation draws hashes twice as wide (u64) and cuts them to the kernel's
\* width where it scales them (hash as u32).
Hash64 == 0 .. HashRange * HashRange - 1

AsU32(hash) == hash % HashRange

\* "Fall back to the kernel's default hash": the None of try_select.
NoWorker == -1

\* One multiply and one shift by the width of the hash.  The product is
\* computed in 64 bits, so it does not wrap.
\* Mutation of it: the hash is scaled to all workers and clamped.
ScaleThenClamp(hash, n) ==
    LET k == (hash * NumWorkers) \div HashRange IN IF k < n THEN k ELSE n - 1

ReciprocalScale(hash, n) == (hash * n) \div HashRange

\* The scan over the worker bits: the set bit with nth set bits below it.
Rank(bitmap, i) == Cardinality({j \in bitmap : j < i})

NthSetBits(bitmap, nth) == {i \in bitmap \cap Workers : Rank(bitmap, i) = nth}

FindNthSetBit(bitmap, nth, otherwise) ==
    IF NthSetBits(bitmap, nth) = {} THEN otherwise
    ELSE CHOOSE i \in NthSetBits(bitmap, nth) : TRUE

\* Mutation of the next definition: the bits are counted from one.
TrySelectOneBased(bitmap, hash) ==
    LET n == Cardinality(bitmap)
    IN  IF n <= 1 THEN NoWorker
        ELSE FindNthSetBit(bitmap, 1 + ReciprocalScale(hash, n), NoWorker)

TrySelect(bitmap, hash) ==
    LET n == Cardinality(bitmap)
    IN  IF n <= 1 THEN NoWorker
        ELSE FindNthSetBit(bitmap, ReciprocalScale(hash, n), NoWorker)

ReuseportHash(hash) == ReciprocalScale(AsU32(hash), NumWorkers)

DispatchHermes(bitmap, hash) ==
    LET n == Cardinality(bitmap)
    IN  IF n <= 1 THEN ReuseportHash(hash)
        ELSE FindNthSetBit(bitmap, ReciprocalScale(AsU32(hash), n), NumWorkers - 1)

\* With no idle worker the connection waits where the backlog is shortest, the
\* highest id among equals: the last worker to register heads the wait queue.
ShortestBacklog(len) ==
    CHOOSE i \in Workers : \A j \in Workers :
        len[i] < len[j] \/ (len[i] = len[j] /\ j <= i)

=============================================================================
