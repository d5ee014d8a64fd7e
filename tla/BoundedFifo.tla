---------------------------- MODULE BoundedFifo ----------------------------
(***************************************************************************)
(* What an accept queue promises: a bounded first-in first-out queue whose *)
(* operations are atomic.  push says whether the connection was taken, pop *)
(* returns the oldest one or None.  The ring buffer of shm.rs (ConnQueue)  *)
(* is shown to implement it.                                               *)
(***************************************************************************)
EXTENDS Naturals, Sequences

CONSTANTS Desc,         \* connection descriptors
          Cap,          \* QUEUE_CAP
          None          \* the None of pop

VARIABLES q,            \* the queued descriptors, oldest first
          accepted,     \* what the last push returned
          got           \* what the last pop returned

vars == <<q, accepted, got>>

Init == /\ q = <<>>
        /\ accepted = TRUE
        /\ got = None

Push(d) == /\ Len(q) < Cap
           /\ q' = Append(q, d)
           /\ accepted' = TRUE
           /\ UNCHANGED got

PushRefused == /\ Len(q) = Cap
               /\ accepted' = FALSE
               /\ UNCHANGED <<q, got>>

Pop == /\ q # <<>>
       /\ got' = Head(q)
       /\ q' = Tail(q)
       /\ UNCHANGED accepted

PopNone == /\ q = <<>>
           /\ got' = None
           /\ UNCHANGED <<q, accepted>>

Next == (\E d \in Desc : Push(d)) \/ PushRefused \/ Pop \/ PopNone

Spec == Init /\ [][Next]_vars

=============================================================================
