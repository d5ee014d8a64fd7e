----------------------------- MODULE ConnEvent -----------------------------
(***************************************************************************)
(* One connection of a worker, byte for byte: handle_conn_event and        *)
(* write_all (hermes/src/worker.rs) against a client that sends requests   *)
(* in pieces or back to back, half-closes or resets at any time.           *)
(*                                                                         *)
(* The stream is counted in pieces; HeaderLen of them are one request.     *)
(* Script says of each request of the client whether its magic is right.   *)
(***************************************************************************)
EXTENDS Integers, Sequences

CONSTANTS HeaderLen,        \* pieces of a request (REQUEST_HEADER_LEN bytes)
          Script,           \* the client's requests: TRUE when well-formed
          ReadBuf,          \* pieces one read() returns at most
          ClientMayFin,     \* whether the client may half-close
          ClientMayReset    \* whether the client may reset or stop reading

ASSUME HeaderLenAssumption == HeaderLen \in Nat \ {0}
ASSUME ScriptAssumption == Script \in Seq(BOOLEAN)
ASSUME ReadBufAssumption == ReadBuf \in Nat \ {0}
ASSUME ClientAssumption == ClientMayFin \in BOOLEAN /\ ClientMayReset \in BOOLEAN

VARIABLES sent,             \* pieces the client has sent
          fin, reset,       \* the client has half-closed; has reset
          stalled,          \* the client has stopped reading responses
          armed,            \* the descriptor is in the epoll ready list
          pc,               \* where the worker is: "poll" between events
          got,              \* pieces read from the socket
          taken,            \* requests drained from the buffer
          replies           \* sequence numbers answered

vars == <<sent, fin, reset, stalled, armed, pc, got, taken, replies>>

client == <<sent, fin, reset, stalled>>

Buffered == got - HeaderLen * taken
-----------------------------------------------------------------------------
\* Just accepted and registered.
Init == /\ sent = 0 /\ fin = FALSE /\ reset = FALSE /\ stalled = FALSE
        /\ armed = FALSE
        /\ pc = "poll"
        /\ got = 0 /\ taken = 0
        /\ replies = <<>>

(* The client, and the kernel's edge-triggered notification of it. *)

ClientSend == /\ ~fin /\ ~reset /\ sent < HeaderLen * Len(Script)
              /\ sent' = sent + 1
              /\ armed' = (pc # "gone")
              /\ UNCHANGED <<fin, reset, stalled, pc, got, taken, replies>>

ClientFin == /\ ClientMayFin /\ ~fin /\ ~reset
             /\ fin' = TRUE
             /\ armed' = (pc # "gone")
             /\ UNCHANGED <<sent, reset, stalled, pc, got, taken, replies>>

ClientReset == /\ ClientMayReset /\ ~reset
               /\ reset' = TRUE
               /\ armed' = (pc # "gone")
               /\ UNCHANGED <<sent, fin, stalled, pc, got, taken, replies>>

ClientStall == /\ ClientMayReset /\ ~stalled
               /\ stalled' = TRUE
               /\ UNCHANGED <<sent, fin, reset, armed, pc, got, taken, replies>>

(* handle_conn_event. *)

\* The event is taken from the batch; a hangup or an error in its mask, which is
\* as old as the epoll_wait that returned it, closes.
BeginEvent == /\ pc = "poll" /\ armed
              /\ armed' = FALSE
              /\ pc' = "read" \/ (reset /\ pc' = "close")
              /\ UNCHANGED <<client, got, taken, replies>>

\* Mutation of Read: one read per event.
ReadOnce == /\ pc = "read" /\ got < sent
            /\ \E n \in 1 .. ReadBuf : got + n <= sent /\ got' = got + n
            /\ pc' = "process"
            /\ UNCHANGED <<client, armed, taken, replies>>

\* read() returns some of what is there, which a reset need not have discarded.
Read == /\ pc = "read" /\ got < sent
        /\ \E n \in 1 .. ReadBuf : got + n <= sent /\ got' = got + n
        /\ UNCHANGED <<client, armed, pc, taken, replies>>

\* Mutation of ReadAgain: the client being silent for now counts as its end.
ReadAgainCloses == /\ pc = "read" /\ ~reset /\ got = sent /\ ~fin
                   /\ pc' = "close"
                   /\ UNCHANGED <<client, armed, got, taken, replies>>

\* read() says EAGAIN: drained.
ReadAgain == /\ pc = "read" /\ ~reset /\ got = sent /\ ~fin
             /\ pc' = "process"
             /\ UNCHANGED <<client, armed, got, taken, replies>>

\* read() returns 0 (peer closed) or a real error: what was buffered is left.
ReadEnds == /\ pc = "read" /\ (reset \/ (got = sent /\ fin))
            /\ pc' = "close"
            /\ UNCHANGED <<client, armed, got, taken, replies>>

\* Mutation of TakeRequest: any buffered bytes are taken for a header.
TakePartial == /\ pc = "process" /\ Buffered > 0
               /\ taken' = taken + 1
               /\ pc' = IF Script[taken + 1] THEN "write" ELSE "close"
               /\ UNCHANGED <<client, armed, got, replies>>

\* A complete header is drained and decoded: serve it, or drop the connection.
TakeRequest == /\ pc = "process" /\ Buffered >= HeaderLen
               /\ taken' = taken + 1
               /\ pc' = IF Script[taken + 1] THEN "write" ELSE "close"
               /\ UNCHANGED <<client, armed, got, replies>>

\* Mutation of EndEvent: a header of exactly the buffered length is left too.
EndEventEarly == /\ pc = "process" /\ Buffered <= HeaderLen
                 /\ pc' = "poll"
                 /\ UNCHANGED <<client, armed, got, taken, replies>>

\* Less than a header is left: the event is done, the rest stays buffered.
EndEvent == /\ pc = "process" /\ Buffered < HeaderLen
            /\ pc' = "poll"
            /\ UNCHANGED <<client, armed, got, taken, replies>>

\* Mutation of WriteAll: the response carries the number of the next request.
WriteNext == /\ pc = "write"
             /\ replies' = Append(replies, taken + 1)
             /\ pc' = "process"
             /\ UNCHANGED <<client, armed, got, taken>>

\* After the service time the response is written.
WriteAll == /\ pc = "write"
            /\ replies' = Append(replies, taken)
            /\ pc' = "process"
            /\ UNCHANGED <<client, armed, got, taken>>

\* The write fails: the peer is gone, or its window stays full for 1000 tries.
WriteFails == /\ pc = "write" /\ (reset \/ stalled)
              /\ pc' = "close"
              /\ UNCHANGED <<client, armed, got, taken, replies>>

Close == /\ pc = "close"
         /\ armed' = FALSE
         /\ pc' = "gone"
         /\ UNCHANGED <<client, got, taken, replies>>

Client == ClientSend \/ ClientFin \/ ClientReset \/ ClientStall

Worker == \/ BeginEvent \/ Read \/ ReadAgain \/ ReadEnds \/ TakeRequest
          \/ EndEvent \/ WriteAll \/ Close

Next == Client \/ Worker \/ WriteFails

Spec == Init /\ [][Next]_vars

\* The worker polls for ever and blocks only for a bounded service time; the
\* client may stop whenever it likes.
FairSpec == Spec /\ WF_vars(Worker)
-----------------------------------------------------------------------------
TypeOK ==
    /\ sent \in Nat /\ got \in Nat /\ taken \in Nat /\ Buffered \in Nat
    /\ fin \in BOOLEAN /\ reset \in BOOLEAN /\ stalled \in BOOLEAN
    /\ armed \in BOOLEAN
    /\ pc \in {"poll", "read", "process", "write", "close", "gone"}
    /\ replies \in Seq(Nat)

\* Edge triggering loses nothing: between events everything the client did has
\* been seen, or another event is due, and what is kept is less than a request.
NothingUnseen ==
    pc = "poll" => /\ Buffered < HeaderLen
                   /\ armed \/ (got = sent /\ ~fin /\ ~reset)

\* Requests are answered in the order sent, each once, none that was not sent,
\* none that is malformed, whatever pieces they arrive in.
AnswersInOrder ==
    /\ HeaderLen * taken <= got /\ got <= sent
    /\ Len(replies) <= taken
    /\ \A k \in 1 .. Len(replies) : replies[k] = k /\ Script[k]

WellFormedUpTo(k) == \A j \in 1 .. k : Script[j]

\* A complete well-formed request is answered, unless a malformed one came before
\* it or the client closed, reset or stopped reading.
EveryRequestAnswered ==
    \A k \in 1 .. Len(Script) :
        sent >= HeaderLen * k /\ WellFormedUpTo(k)
            ~> Len(replies) >= k \/ fin \/ reset \/ stalled

\* The server gives up on a connection only for a reason the client gave: end of
\* stream, a reset, a malformed request or a response it does not take.
ClosedForCause ==
    pc \in {"close", "gone"} =>
        fin \/ reset \/ stalled \/ (taken > 0 /\ ~Script[taken])

\* "Process every complete request found, write the responses, and close on
\* EOF": a request that arrived in full before the end of the stream is answered
\* although the client has finished sending.
AnsweredBeforeEof ==
    \A k \in 1 .. Len(Script) :
        sent >= HeaderLen * k /\ WellFormedUpTo(k) ~> Len(replies) >= k \/ reset \/ stalled

=============================================================================
