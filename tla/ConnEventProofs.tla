-------------------------- MODULE ConnEventProofs --------------------------
(***************************************************************************)
(* The safety of one connection, for every request length, read buffer and *)
(* script of requests.                                                     *)
(***************************************************************************)
EXTENDS ConnEvent, TLAPS

\* What is drained was read, what is read was sent, and the client sends its
\* script.
Flow == /\ HeaderLen * taken <= got /\ got <= sent
        /\ sent <= HeaderLen * Len(Script)

\* Outside the handling of a request every drained request has been answered;
\* the one in hand is well-formed and next in line.
Answering ==
    /\ pc \in {"poll", "read", "process"} => Len(replies) = taken
    /\ pc = "write" => Len(replies) + 1 = taken /\ Script[taken]

\* From the drain on, an event is due for whatever the client has done since.
Noticed ==
    pc \in {"process", "write", "poll"} => armed \/ (got = sent /\ ~fin /\ ~reset)

IInv == /\ TypeOK /\ Flow /\ Answering /\ Noticed
        /\ NothingUnseen /\ AnswersInOrder /\ ClosedForCause

\* A complete header in the buffer is a request of the script (the bound behind
\* every look at Script).
LEMMA NextInScript ==
    ASSUME NEW h \in Nat \ {0}, NEW t \in Nat, NEW g \in Nat, NEW n \in Nat,
           g - h * t >= h, g <= h * n
    PROVE  t + 1 \in 1 .. n /\ h * (t + 1) <= g
<1>1. h * (t + 1) = h * t + h  OBVIOUS
<1>2. h * (t + 1) <= h * n  BY <1>1
<1>3. t + 1 <= n
  <2>1. SUFFICES ASSUME n < t + 1 PROVE FALSE  OBVIOUS
  <2>2. n <= t  BY <2>1
  <2>3. PICK d \in Nat : t = n + d
    <3>1. t - n \in Nat /\ t = n + (t - n)  BY <2>2
    <3>2. QED  BY <3>1
  <2>4. h * t = h * n + h * d  BY <2>3
  <2>5. h * d >= 0  OBVIOUS
  <2>6. QED  BY <1>1, <1>2, <2>4, <2>5
<1>4. QED  BY <1>1, <1>3

-----------------------------------------------------------------------------
\* The client's steps: they only add to what the worker has not seen, and mark
\* the descriptor ready.
LEMMA ClientStep == ASSUME IInv, Client PROVE IInv'
<1>. USE HeaderLenAssumption, ScriptAssumption
        DEF IInv, TypeOK, Flow, Answering, Noticed, NothingUnseen, AnswersInOrder,
            ClosedForCause, Buffered
<1>1. CASE ClientSend
  <2>1. /\ sent' = sent + 1 /\ sent < HeaderLen * Len(Script)
        /\ armed' = (pc # "gone")
        /\ UNCHANGED <<fin, reset, stalled, pc, got, taken, replies>>
        BY <1>1 DEF ClientSend
  <2>2. Len(Script) \in Nat /\ HeaderLen * Len(Script) \in Nat  OBVIOUS
  <2>3. sent' \in Nat /\ sent' >= sent /\ sent' <= HeaderLen * Len(Script)
        BY <2>1, <2>2
  <2>4. armed' \in BOOLEAN  BY <2>1
  <2>5. TypeOK' /\ Flow'  BY <2>1, <2>3, <2>4
  <2>6. Answering' /\ Noticed' /\ NothingUnseen'  BY <2>1
  <2>7. AnswersInOrder' /\ ClosedForCause'  BY <2>1, <2>3
  <2>8. QED  BY <2>5, <2>6, <2>7
<1>2. CASE ClientFin  BY <1>2 DEF ClientFin
<1>3. CASE ClientReset  BY <1>3 DEF ClientReset
<1>4. CASE ClientStall  BY <1>4 DEF ClientStall
<1>5. QED  BY <1>1, <1>2, <1>3, <1>4 DEF Client

\* The worker's steps that leave the requests alone.
LEMMA ReadStep ==
    ASSUME IInv, BeginEvent \/ Read \/ ReadAgain \/ ReadEnds \/ EndEvent
                   \/ WriteFails \/ Close
    PROVE  IInv'
<1>. USE HeaderLenAssumption, ScriptAssumption, ReadBufAssumption
        DEF IInv, TypeOK, Flow, Answering, Noticed, NothingUnseen, AnswersInOrder,
            ClosedForCause, Buffered, client
<1>1. CASE BeginEvent  BY <1>1 DEF BeginEvent
<1>2. CASE Read
  <2>1. PICK n \in 1 .. ReadBuf : got + n <= sent /\ got' = got + n
        BY <1>2 DEF Read
  <2>2. got' \in Nat /\ got' >= got /\ got' <= sent  BY <2>1
  <2>3. QED  BY <1>2, <2>2 DEF Read
<1>3. CASE ReadAgain  BY <1>3 DEF ReadAgain
<1>4. CASE ReadEnds  BY <1>4 DEF ReadEnds
<1>5. CASE EndEvent  BY <1>5 DEF EndEvent
<1>6. CASE WriteFails  BY <1>6 DEF WriteFails
<1>7. CASE Close  BY <1>7 DEF Close
<1>8. QED  BY <1>1, <1>2, <1>3, <1>4, <1>5, <1>6, <1>7

\* A request is drained: it is one of the script, and the next to be answered.
LEMMA TakeStep == ASSUME IInv, TakeRequest PROVE IInv'
<1>. USE HeaderLenAssumption, ScriptAssumption
<1>1. taken + 1 \in 1 .. Len(Script) /\ HeaderLen * (taken + 1) <= got
  <2>1. got - HeaderLen * taken >= HeaderLen  BY DEF TakeRequest, Buffered
  <2>2. got <= HeaderLen * Len(Script) /\ got \in Nat /\ taken \in Nat
        BY DEF IInv, TypeOK, Flow
  <2>3. QED  BY <2>1, <2>2, NextInScript
<1>2. Script[taken + 1] \in BOOLEAN  BY <1>1
<1>3. /\ taken' = taken + 1 /\ pc = "process"
      /\ pc' = (IF Script[taken + 1] THEN "write" ELSE "close")
      /\ UNCHANGED <<sent, fin, reset, stalled, armed, got, replies>>
      BY DEF TakeRequest, client
<1>4. TypeOK' /\ Flow'
  <2>1. HeaderLen * taken' \in Nat  BY <1>3 DEF IInv, TypeOK
  <2>2. HeaderLen * taken' <= got  BY <1>1, <1>3
  <2>3. Buffered' \in Nat  BY <1>3, <2>1, <2>2 DEF IInv, TypeOK, Buffered
  <2>4. QED  BY <1>3, <2>2, <2>3 DEF IInv, TypeOK, Flow
<1>5. Answering' /\ Noticed' /\ NothingUnseen'
      BY <1>2, <1>3 DEF IInv, TypeOK, Answering, Noticed, NothingUnseen
<1>6. AnswersInOrder'
      BY <1>1, <1>3 DEF IInv, TypeOK, Flow, AnswersInOrder
<1>7. ClosedForCause'
      BY <1>2, <1>3 DEF IInv, TypeOK, ClosedForCause
<1>8. QED  BY <1>4, <1>5, <1>6, <1>7 DEF IInv

\* A response is written: its number is the next one.
LEMMA WriteStep == ASSUME IInv, WriteAll PROVE IInv'
<1>. USE HeaderLenAssumption, ScriptAssumption
<1>1. /\ replies' = Append(replies, taken) /\ pc = "write" /\ pc' = "process"
      /\ UNCHANGED <<sent, fin, reset, stalled, armed, got, taken>>
      BY DEF WriteAll, client
<1>2. replies \in Seq(Nat) /\ taken \in Nat /\ Len(replies) + 1 = taken /\ Script[taken]
      BY <1>1 DEF IInv, TypeOK, Answering
<1>3. /\ replies' \in Seq(Nat) /\ Len(replies') = taken
      /\ \A k \in 1 .. taken :
            replies'[k] = IF k = taken THEN taken ELSE replies[k]
      BY <1>1, <1>2
<1>4. TypeOK' /\ Flow'
      BY <1>1, <1>3 DEF IInv, TypeOK, Flow, Buffered
<1>5. Answering' /\ Noticed' /\ NothingUnseen' /\ ClosedForCause'
      BY <1>1, <1>3 DEF IInv, TypeOK, Answering, Noticed, NothingUnseen, ClosedForCause
<1>6. AnswersInOrder'
  <2>1. \A k \in 1 .. Len(replies) : replies[k] = k /\ Script[k]
        BY DEF IInv, AnswersInOrder
  <2>2. \A k \in 1 .. taken : replies'[k] = k /\ Script[k]
    <3>1. taken - 1 = Len(replies)  BY <1>2
    <3>2. \A k \in 1 .. taken : k = taken \/ k \in 1 .. Len(replies)  BY <1>2, <3>1
    <3>3. QED  BY <1>2, <1>3, <2>1, <3>2
  <2>3. HeaderLen * taken <= got /\ got <= sent  BY DEF IInv, AnswersInOrder
  <2>4. Len(replies') <= taken  BY <1>2, <1>3
  <2>5. QED  BY <1>1, <1>3, <2>2, <2>3, <2>4 DEF AnswersInOrder
<1>7. QED  BY <1>4, <1>5, <1>6 DEF IInv

\* Every reachable state of a connection satisfies the strengthened invariant.
THEOREM InductiveInvariant == Spec => []IInv
<1>1. Init => IInv
  <2>1. SUFFICES ASSUME Init PROVE IInv  OBVIOUS
  <2>2. HeaderLen * taken = 0 /\ 0 <= HeaderLen * Len(Script)
        BY <2>1, HeaderLenAssumption, ScriptAssumption DEF Init
  <2>3. replies \in Seq(Nat) /\ Len(replies) = 0  BY <2>1 DEF Init
  <2>4. TypeOK
    <3>1. sent = 0 /\ got = 0 /\ taken = 0 /\ pc = "poll"  BY <2>1 DEF Init
    <3>2. Buffered = 0  BY <2>2, <3>1 DEF Buffered
    <3>3. fin \in BOOLEAN /\ reset \in BOOLEAN /\ stalled \in BOOLEAN /\ armed \in BOOLEAN
          BY <2>1, Zenon DEF Init
    <3>4. QED  BY <2>3, <3>1, <3>2, <3>3 DEF TypeOK
  <2>5. Flow /\ Answering /\ Noticed
    <3>1. got = 0 /\ sent = 0 /\ taken = 0 /\ pc = "poll" /\ fin = FALSE /\ reset = FALSE
          BY <2>1 DEF Init
    <3>2. Flow  BY <2>2, <3>1 DEF Flow
    <3>3. Answering  BY <2>3, <3>1 DEF Answering
    <3>4. Noticed  BY <3>1 DEF Noticed
    <3>5. QED  BY <3>2, <3>3, <3>4
  <2>6. NothingUnseen /\ AnswersInOrder /\ ClosedForCause
        BY <2>1, <2>2, <2>3, HeaderLenAssumption
           DEF Init, NothingUnseen, AnswersInOrder, ClosedForCause, Buffered
  <2>7. QED  BY <2>4, <2>5, <2>6 DEF IInv
<1>2. IInv /\ [Next]_vars => IInv'
  <2>1. SUFFICES ASSUME IInv, [Next]_vars PROVE IInv'  OBVIOUS
  <2>2. CASE UNCHANGED vars
        BY <2>1, <2>2 DEF vars, IInv, TypeOK, Flow, Answering, Noticed, NothingUnseen,
             AnswersInOrder, ClosedForCause, Buffered
  <2>3. CASE Next
        BY <2>1, <2>3, ClientStep, ReadStep, TakeStep, WriteStep DEF Next, Worker
  <2>4. QED  BY <2>1, <2>2, <2>3
<1>3. QED  BY <1>1, <1>2, PTL DEF Spec

\* TypeOK for every request length and script: the buffer never holds less than
\* nothing, so no header is drained before it is complete.
THEOREM TypeCorrect == Spec => []TypeOK
<1>1. IInv => TypeOK  BY DEF IInv
<1>2. QED  BY <1>1, InductiveInvariant, PTL

\* Draining to EAGAIN before waiting again misses nothing under edge triggering.
THEOREM NothingIsMissed == Spec => []NothingUnseen
<1>1. IInv => NothingUnseen  BY DEF IInv
<1>2. QED  BY <1>1, InductiveInvariant, PTL

\* However the stream is cut into reads, responses answer the well-formed
\* requests in order and once.
THEOREM ResponsesFollowRequests == Spec => []AnswersInOrder
<1>1. IInv => AnswersInOrder  BY DEF IInv
<1>2. QED  BY <1>1, InductiveInvariant, PTL

\* handle_conn_event closes a connection only for a reason the client gave.
THEOREM ClosesAreCaused == Spec => []ClosedForCause
<1>1. IInv => ClosedForCause  BY DEF IInv
<1>2. QED  BY <1>1, InductiveInvariant, PTL

=============================================================================
