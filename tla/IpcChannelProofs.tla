-------------------------- MODULE IpcChannelProofs --------------------------
(***************************************************************************)
(* Proofs about IpcChannel, for any number of messages and any choice of   *)
(* the ends that send, disconnect or crash.  The first part has the type   *)
(* invariant, the rule that a socket waits for its ACK only behind a queue *)
(* that is on, and that an end whose channel is gone has announced it.     *)
(* The second part follows the handles and the order of the messages.      *)
(***************************************************************************)
EXTENDS IpcChannel, FiniteSetTheorems, SequenceTheorems, WellFoundedInduction, TLAPS

Queues == [on : BOOLEAN, q : Seq(Messages)]

-----------------------------------------------------------------------------
(* Runs of _send() calls                                                   *)

\* A sequence of messages that holds a handle has a first one.
LEMMA FirstHandleExists ==
  ASSUME NEW ms \in Seq(Messages), NEW i \in 1 .. Len(ms), IsHandle(ms[i])
  PROVE  FirstHandle(ms) # {}
<1> DEFINE T == {j \in 1 .. Len(ms) : IsHandle(ms[j])}
<1>1. T \subseteq Nat /\ T # {}
  OBVIOUS
<1>2. PICK x \in T : \A y \in T : ~(<<y, x>> \in OpToRel(<, Nat))
  <2> HIDE DEF T
  <2> QED BY <1>1, NatLessThanWellFounded, WFMin
<1>3. \A y \in T : ~(y < x)
  BY <1>1, <1>2 DEF OpToRel
<1>4. x \in FirstHandle(ms)
  <2>1. x \in DOMAIN ms /\ IsHandle(ms[x])
    OBVIOUS
  <2>2. ASSUME NEW j \in 1 .. (x - 1), IsHandle(ms[j]) PROVE FALSE
    <3>1. j \in T /\ j < x
      BY <2>1, <2>2
    <3> QED BY <3>1, <1>3
  <2> QED BY <2>1, <2>2 DEF FirstHandle
<1> QED BY <1>4

\* Cut is an index of the sequence.
LEMMA CutIndex ==
  ASSUME NEW ms \in Seq(Messages), FirstHandle(ms) # {}
  PROVE  Cut(ms) \in 1 .. Len(ms)
<1>1. Cut(ms) \in FirstHandle(ms)
  BY DEF Cut
<1> QED BY <1>1 DEF FirstHandle

\* What is written and what stays queued are sequences of messages.
LEMMA WrittenType ==
  ASSUME NEW Q \in Queues, NEW ms \in Seq(Messages)
  PROVE  Written(Q, ms) \in Seq(Messages) /\ QueueAfter(Q, ms) \in Queues
<1>1. CASE Q.on
  BY <1>1, EmptySeq, ConcatProperties DEF Written, QueueAfter, Queues
<1>2. CASE ~Q.on /\ FirstHandle(ms) = {}
  BY <1>2 DEF Written, QueueAfter
<1>3. CASE ~Q.on /\ FirstHandle(ms) # {}
  <2>1. Cut(ms) \in 1 .. Len(ms)
    BY <1>3, CutIndex
  <2>2. SubSeq(ms, 1, Cut(ms)) \in Seq(Messages) /\ SubSeq(ms, Cut(ms) + 1, Len(ms)) \in Seq(Messages)
    BY <2>1, SubSeqProperties
  <2> QED BY <1>3, <2>2 DEF Written, QueueAfter, Queues
<1> QED BY <1>1, <1>2, <1>3

\* After a handle was written the queue is on.
LEMMA PostedQueues ==
  ASSUME NEW Q \in Queues, NEW ms \in Seq(Messages), Posted(Written(Q, ms))
  PROVE  QueueAfter(Q, ms).on
<1>1. CASE Q.on
  BY <1>1 DEF Written, Posted
<1>2. CASE ~Q.on /\ FirstHandle(ms) = {}
  <2>1. Written(Q, ms) = ms /\ Len(ms) \in 1 .. Len(ms) /\ IsHandle(ms[Len(ms)])
    BY <1>2, LenProperties DEF Written, Posted, IsHandle
  <2> QED BY <2>1, <1>2, FirstHandleExists
<1>3. CASE ~Q.on /\ FirstHandle(ms) # {}
  BY <1>3 DEF QueueAfter
<1> QED BY <1>1, <1>2, <1>3

-----------------------------------------------------------------------------
(* The type invariant                                                      *)

\* Every message the code builds is one of Messages.
LEMMA MessageTypes ==
  /\ \A k \in {"msg", "socket", "native", "NODE_HANDLE_ACK", "NODE_HANDLE_NACK", "EOF", "finish"} :
       \A id \in Nat : Msg(k, id) \in Messages
  /\ Ack \in Messages /\ Nack \in Messages /\ EOF \in Messages /\ Finish \in Messages
  /\ \A id \in Nat : Rewrapped(id) \in Messages
  /\ \A m \in Messages : Converted(m) \in Messages
<1>1. \A k \in {"msg", "socket", "native", "NODE_HANDLE_ACK", "NODE_HANDLE_NACK", "EOF", "finish"} :
        \A id \in Nat : Msg(k, id) \in Messages
  BY DEF Messages, Msg
<1>2. Ack \in Messages /\ Nack \in Messages /\ EOF \in Messages /\ Finish \in Messages
  BY <1>1 DEF Ack, Nack, EOF, Finish
<1>3. \A id \in Nat : Rewrapped(id) \in Messages
  BY DEF Messages, Msg, Rewrapped
<1>4. \A m \in Messages : m.id \in Nat
  BY DEF Messages
<1>5. \A m \in Messages : Converted(m) \in Messages
  BY <1>1, <1>4 DEF Converted
<1> QED BY <1>1, <1>2, <1>3, <1>5

\* The two ends are different.
LEMMA OtherEnd == ASSUME NEW p \in Ends PROVE Other(p) \in Ends /\ Other(p) # p
BY DEF Ends, Other

\* What a channel carries, and what it counts, keep their types.
LEMMA WriteType ==
  ASSUME TypeOK, NEW p \in Ends, NEW ws \in Seq(Messages), Write(p, ws)
  PROVE  /\ wire' \in [Ends -> Seq(Messages)]
         /\ DOMAIN writes' = Ends /\ \A e \in Ends : writes'[e] \in [1 .. MaxSends[e] -> Nat]
<1>1. wire' \in [Ends -> Seq(Messages)]
  <2>1. wire[Other(p)] \o ws \in Seq(Messages)
    BY OtherEnd, ConcatProperties DEF TypeOK
  <2> QED BY <2>1, OtherEnd DEF TypeOK, Write
<1>2. \A i \in Nat : Cardinality({j \in DOMAIN ws : ws[j].id = i}) \in Nat
  <2> SUFFICES ASSUME NEW i \in Nat PROVE Cardinality({j \in DOMAIN ws : ws[j].id = i}) \in Nat
    OBVIOUS
  <2>1. IsFiniteSet(1 .. Len(ws))
    BY LenProperties, FS_Interval
  <2>2. IsFiniteSet({j \in DOMAIN ws : ws[j].id = i})
    BY <2>1, FS_Subset, LenProperties
  <2> QED BY <2>2, FS_CardinalityType
<1>3. writes'[p] \in [1 .. MaxSends[p] -> Nat]
  <2>1. \A i \in 1 .. MaxSends[p] : i \in Nat /\ writes[p][i] \in Nat
    <3>1. MaxSends[p] \in Nat
      BY IpcAssumption
    <3>2. writes[p] \in [1 .. MaxSends[p] -> Nat]
      BY DEF TypeOK
    <3> QED BY <3>1, <3>2
  <2>2. writes'[p] = [i \in 1 .. MaxSends[p] |->
                        writes[p][i] + Cardinality({j \in DOMAIN ws : ws[j].id = i})]
    BY DEF TypeOK, Write
  <2> QED BY <2>1, <2>2, <1>2
<1>4. DOMAIN writes' = Ends /\ \A e \in Ends : e # p => writes'[e] = writes[e]
  BY DEF TypeOK, Write
<1> QED BY <1>1, <1>3, <1>4 DEF TypeOK

\* So do the queue and the pending handle of the end that sends.
LEMMA SendAllType ==
  ASSUME TypeOK, NEW p \in Ends, NEW Q \in Queues, NEW P \in Nat, NEW n \in Nat,
         NEW ms \in Seq(Messages), SendAll(p, Q, P, n, ms)
  PROVE  /\ handleQueue' \in [Ends -> Queues]
         /\ pending' \in [Ends -> Nat] /\ retransmissions' \in [Ends -> Nat]
         /\ wire' \in [Ends -> Seq(Messages)]
         /\ DOMAIN writes' = Ends /\ \A e \in Ends : writes'[e] \in [1 .. MaxSends[e] -> Nat]
<1> DEFINE ws == Written(Q, ms)
<1>1. ws \in Seq(Messages) /\ QueueAfter(Q, ms) \in Queues
  BY WrittenType
<1>2. Posted(ws) => ws[Len(ws)].id \in Nat
  <2> SUFFICES ASSUME Posted(ws) PROVE ws[Len(ws)].id \in Nat
    OBVIOUS
  <2>1. ws[Len(ws)] \in Messages
    BY <1>1, LenProperties DEF Posted
  <2> QED BY <2>1 DEF Messages
<1>3. Write(p, ws)
  BY DEF SendAll
<1> HIDE DEF ws
<1>4. handleQueue' \in [Ends -> Queues]
  BY <1>1 DEF SendAll, TypeOK, Queues
<1>5. pending' \in [Ends -> Nat] /\ retransmissions' \in [Ends -> Nat]
  BY <1>2 DEF SendAll, TypeOK, ws
<1> QED BY <1>1, <1>3, <1>4, <1>5, WriteType

\* Initially every variable has its type.
LEMMA TypeInit == Init => TypeOK
<1> SUFFICES ASSUME Init PROVE TypeOK
  OBVIOUS
<1>1. /\ <<>> \in Seq(Messages) /\ <<>> \in Seq(Nat)
      /\ <<>> \in Seq({"disconnect", "error"})
  BY EmptySeq
<1> QED BY <1>1 DEF Init, TypeOK, Off

\* send() keeps the types.
LEMMA TypeSend ==
  ASSUME TypeOK, NEW p \in Ends, NEW k \in Kinds, send(p, k)
  PROVE  TypeOK'
<1>0. sends[p] + 1 \in Nat
  <2>1. sends[p] \in Nat
    BY DEF TypeOK
  <2> QED BY <2>1
<1>1. <<Msg(k, sends[p] + 1)>> \in Seq(Messages)
  <2>1. k \in {"msg", "socket", "native"}
    BY IpcAssumption
  <2>2. Msg(k, sends[p] + 1) \in Messages
    BY <2>1, <1>0, MessageTypes
  <2> QED BY <2>2
<1>2. handleQueue[p] \in Queues /\ pending[p] \in Nat /\ retransmissions[p] \in Nat
  BY DEF TypeOK, Queues
<1>3. SendAll(p, handleQueue[p], pending[p], retransmissions[p], <<Msg(k, sends[p] + 1)>>)
  BY DEF send
<1>4. /\ handleQueue' \in [Ends -> Queues]
      /\ pending' \in [Ends -> Nat] /\ retransmissions' \in [Ends -> Nat]
      /\ wire' \in [Ends -> Seq(Messages)]
      /\ DOMAIN writes' = Ends /\ \A e \in Ends : writes'[e] \in [1 .. MaxSends[e] -> Nat]
  BY <1>1, <1>2, <1>3, SendAllType
<1>5. sends' \in [Ends -> Nat]
  <2>1. sends \in [Ends -> Nat]
    BY DEF TypeOK
  <2>2. sends' = [sends EXCEPT ![p] = sends[p] + 1]
    BY DEF send
  <2> QED BY <2>1, <2>2, <1>0
<1> QED BY <1>4, <1>5 DEF TypeOK, send, Queues

\* A process that ends keeps the types.
LEMMA TypeDie ==
  ASSUME TypeOK, NEW p \in Ends,
         NEW why \in {"killed", "ACK without a queue", "ACK after disconnect"}, Die(p, why)
  PROVE  TypeOK'
<1>1. /\ <<>> \in Seq(Messages) /\ Append(wire[Other(p)], EOF) \in Seq(Messages)
      /\ Other(p) \in Ends
  BY EmptySeq, OtherEnd, MessageTypes, AppendProperties DEF TypeOK
<1> QED BY <1>1 DEF TypeOK, Die

\* _disconnect() keeps the types of what it changes.
LEMMA Type_disconnect ==
  ASSUME TypeOK, NEW p \in Ends, _disconnect(p)
  PROVE  /\ channel' \in [Ends -> BOOLEAN] /\ closed' \in [Ends -> Seq(Nat)]
         /\ pending' \in [Ends -> Nat] /\ ticks' \in [Ends -> Seq(Messages)]
<1>1. closePendingHandle(p) \in Seq(Nat)
  BY AppendProperties DEF TypeOK, closePendingHandle
<1>2. Append(ticks[p], Finish) \in Seq(Messages)
  BY MessageTypes, AppendProperties DEF TypeOK
<1> QED BY <1>1, <1>2 DEF TypeOK, _disconnect

\* So do disconnect() and the finish() tick.
LEMMA TypeDisconnect ==
  ASSUME TypeOK, NEW p \in Ends, disconnect(p) \/ RunFinish(p)
  PROVE  TypeOK'
<1>1. CASE disconnect(p)
  <2>1. /\ channel' \in [Ends -> BOOLEAN] /\ closed' \in [Ends -> Seq(Nat)]
        /\ pending' \in [Ends -> Nat] /\ ticks' \in [Ends -> Seq(Messages)]
    BY <1>1, Type_disconnect DEF disconnect, TypeOK
  <2> QED BY <1>1, <2>1 DEF disconnect, TypeOK
<1>2. CASE RunFinish(p)
  <2>1. /\ <<>> \in Seq(Messages) /\ Append(wire[Other(p)], EOF) \in Seq(Messages)
        /\ Other(p) \in Ends
    BY EmptySeq, OtherEnd, MessageTypes, AppendProperties DEF TypeOK
  <2>2. Tail(ticks[p]) \in Seq(Messages)
    BY <1>2, HeadTailProperties DEF RunFinish, TypeOK
  <2>3. Append(events[p], "disconnect") \in Seq({"disconnect", "error"})
    BY AppendProperties DEF TypeOK
  <2> QED BY <1>2, <2>1, <2>2, <2>3 DEF RunFinish, TypeOK
<1> QED BY <1>1, <1>2

\* Reading the channel keeps the types.
LEMMA TypeRead ==
  ASSUME TypeOK, NEW p \in Ends, NEW n \in 1 .. Len(wire[p]), NEW drop \in BOOLEAN,
         Read(p, n, drop)
  PROVE  TypeOK'
<1>0. wire[p] \in Seq(Messages) /\ Other(p) \in Ends /\ Len(wire[p]) \in Nat
  BY OtherEnd, LenProperties DEF TypeOK
<1>1. \A i \in 1 .. n : wire[p][i] \in Messages
  BY <1>0
<1>2. ticks' \in [Ends -> Seq(Messages)]
  <2>1. \A i \in 1 .. n : [wire[p][i] EXCEPT !.has = @ /\ ~drop] \in Messages
    BY <1>1 DEF Messages
  <2>2. n \in Nat
    BY <1>0
  <2>3. [i \in 1 .. n |-> [wire[p][i] EXCEPT !.has = @ /\ ~drop]] \in Seq(Messages)
    <3> DEFINE f == [i \in 1 .. n |-> [wire[p][i] EXCEPT !.has = @ /\ ~drop]]
    <3>1. f \in [1 .. n -> Messages]
      BY <2>1
    <3> HIDE DEF f
    <3>2. f \in Seq(Messages)
      BY <3>1, <2>2
    <3> QED BY <3>2 DEF f
  <2>4. ticks' = [ticks EXCEPT ![p] = [i \in 1 .. n |-> [wire[p][i] EXCEPT !.has = @ /\ ~drop]]]
    BY DEF Read
  <2>5. ticks \in [Ends -> Seq(Messages)]
    BY DEF TypeOK
  <2> QED BY <2>3, <2>4, <2>5
<1>3. wire' \in [Ends -> Seq(Messages)]
  <2>1. SubSeq(wire[p], n + 1, Len(wire[p])) \in Seq(Messages)
    BY <1>0, SubSeqProperties
  <2> QED BY <2>1 DEF Read, TypeOK
<1>4. lost' \in [Ends -> SUBSET Nat]
  <2>1. {wire[p][i].id : i \in {j \in 1 .. n : IsHandle(wire[p][j])}} \in SUBSET Nat
    BY <1>1 DEF Messages
  <2>2. lost \in [Ends -> SUBSET Nat]
    BY DEF TypeOK
  <2> QED BY <2>1, <2>2, <1>0 DEF Read
<1> QED BY <1>2, <1>3, <1>4 DEF Read, TypeOK

\* So does its end.
LEMMA TypeReadEOF ==
  ASSUME TypeOK, NEW p \in Ends, ReadEOF(p)
  PROVE  TypeOK'
<1>1. /\ channel' \in [Ends -> BOOLEAN] /\ closed' \in [Ends -> Seq(Nat)]
      /\ pending' \in [Ends -> Nat] /\ ticks' \in [Ends -> Seq(Messages)]
  BY Type_disconnect DEF ReadEOF, TypeOK
<1>2. <<>> \in Seq(Messages) /\ Append(events[p], "error") \in Seq({"disconnect", "error"})
  BY EmptySeq, AppendProperties DEF TypeOK
<1> QED BY <1>1, <1>2 DEF ReadEOF, TypeOK

\* The head and the rest of the ticks are messages.
LEMMA TickType ==
  ASSUME TypeOK, NEW p \in Ends, ticks[p] # <<>>
  PROVE  /\ Head(ticks[p]) \in Messages /\ Head(ticks[p]).id \in Nat
         /\ Tail(ticks[p]) \in Seq(Messages)
<1>1. ticks[p] \in Seq(Messages)
  BY DEF TypeOK
<1>2. Head(ticks[p]) \in Messages /\ Tail(ticks[p]) \in Seq(Messages)
  BY <1>1, HeadTailProperties
<1> QED BY <1>2 DEF Messages

\* A tick that emits a message keeps the types.
LEMMA TypeEmitMessage ==
  ASSUME TypeOK, NEW p \in Ends, EmitMessage(p)
  PROVE  TypeOK'
<1>1. ticks[p] # <<>>
  BY DEF EmitMessage, Emitting
<1>2. Append(got[p], Head(ticks[p]).id) \in Seq(Nat)
  BY <1>1, TickType, AppendProperties DEF TypeOK
<1>3. Tail(ticks[p]) \in Seq(Messages)
  BY <1>1, TickType
<1> QED BY <1>2, <1>3 DEF EmitMessage, TypeOK

\* So does one that answers a handle.
LEMMA TypeEmitHandle ==
  ASSUME TypeOK, NEW p \in Ends, EmitHandle(p)
  PROVE  TypeOK'
<1>1. ticks[p] # <<>>
  BY DEF EmitHandle, Emitting
<1>2. /\ Tail(ticks[p]) \in Seq(Messages)
      /\ Append(Tail(ticks[p]), Converted(Head(ticks[p]))) \in Seq(Messages)
  BY <1>1, TickType, MessageTypes, AppendProperties
<1>3. <<IF Head(ticks[p]).has THEN Ack ELSE Nack>> \in Seq(Messages)
  BY MessageTypes
<1>4. Write(p, <<IF Head(ticks[p]).has THEN Ack ELSE Nack>>)
  BY DEF EmitHandle
<1>5. /\ wire' \in [Ends -> Seq(Messages)]
      /\ DOMAIN writes' = Ends /\ \A e \in Ends : writes'[e] \in [1 .. MaxSends[e] -> Nat]
  BY <1>3, <1>4, WriteType
<1> QED BY <1>2, <1>5 DEF EmitHandle, TypeOK

(* EmitAck with its local variables named. *)
AckPending(p) == IF GivenUp(p, Head(ticks[p])) THEN 0 ELSE pending[p]
AckSends(p) == (IF AckPending(p) = 0 THEN <<>> ELSE <<Rewrapped(AckPending(p))>>) \o handleQueue[p].q
AckRetries(p) == IF AckPending(p) = 0 THEN retransmissions[p] ELSE retransmissions[p] + 1

\* What the handler of an ACK or NACK does, in terms of those.
LEMMA EmitAckParts ==
  ASSUME NEW p, EmitAck(p)
  PROVE  /\ ticks[p] # <<>> /\ handleQueue[p].on
         /\ Alive(p) /\ Head(ticks[p]).k # "finish"
         /\ SendAll(p, Off, AckPending(p), AckRetries(p), AckSends(p))
         /\ closed' = [closed EXCEPT ![p] =
                          IF GivenUp(p, Head(ticks[p])) THEN Append(@, pending[p]) ELSE @]
         /\ channel' = [channel EXCEPT ![p] = @ /\ ~PendingDisconnect(p, AckSends(p))]
         /\ ticks' = [ticks EXCEPT ![p] =
                         IF PendingDisconnect(p, AckSends(p)) THEN Append(Tail(@), Finish) ELSE Tail(@)]
         /\ UNCHANGED <<connected, ended, got, sends, lost, left, events, fault>>
BY DEF EmitAck, Emitting, AckPending, AckSends, AckRetries

\* What it does to its own end, and that it leaves the other one alone.
LEMMA EmitAckAt ==
  ASSUME TypeOK, NEW p \in Ends, EmitAck(p)
  PROVE  /\ ticks'[p] = IF PendingDisconnect(p, AckSends(p)) THEN Append(Tail(ticks[p]), Finish)
                                                             ELSE Tail(ticks[p])
         /\ channel'[p] = (channel[p] /\ ~PendingDisconnect(p, AckSends(p)))
         /\ handleQueue'[p] = QueueAfter(Off, AckSends(p))
         /\ \A e \in Ends : e # p => /\ channel'[e] = channel[e] /\ ticks'[e] = ticks[e]
                                     /\ handleQueue'[e] = handleQueue[e]
<1>1. ticks \in [Ends -> Seq(Messages)] /\ channel \in [Ends -> BOOLEAN] /\ DOMAIN handleQueue = Ends
  BY DEF TypeOK
<1>2. /\ ticks' = [ticks EXCEPT ![p] = IF PendingDisconnect(p, AckSends(p))
                                       THEN Append(Tail(ticks[p]), Finish) ELSE Tail(ticks[p])]
      /\ channel' = [channel EXCEPT ![p] = channel[p] /\ ~PendingDisconnect(p, AckSends(p))]
  BY EmitAckParts, Zenon
<1>3. handleQueue' = [handleQueue EXCEPT ![p] = QueueAfter(Off, AckSends(p))]
  BY EmitAckParts, Zenon DEF SendAll
<1>4. ticks'[p] = IF PendingDisconnect(p, AckSends(p)) THEN Append(Tail(ticks[p]), Finish)
                                                       ELSE Tail(ticks[p])
  BY <1>1, <1>2, Zenon
<1>5. channel'[p] = (channel[p] /\ ~PendingDisconnect(p, AckSends(p)))
  BY <1>1, <1>2, Zenon
<1>6. handleQueue'[p] = QueueAfter(Off, AckSends(p))
  BY <1>1, <1>3, Zenon
<1>7. ASSUME NEW e \in Ends, e # p
      PROVE  channel'[e] = channel[e] /\ ticks'[e] = ticks[e] /\ handleQueue'[e] = handleQueue[e]
  BY <1>1, <1>2, <1>3, <1>7, Zenon
<1> QED BY <1>4, <1>5, <1>6, <1>7

\* The types of those.
LEMMA AckTypes ==
  ASSUME TypeOK, NEW p \in Ends
  PROVE  /\ AckPending(p) \in Nat /\ AckRetries(p) \in Nat /\ AckSends(p) \in Seq(Messages)
         /\ Off \in Queues
<1>1. pending[p] \in Nat /\ retransmissions[p] \in Nat /\ handleQueue[p].q \in Seq(Messages)
  BY DEF TypeOK
<1>2. AckPending(p) \in Nat
  BY <1>1 DEF AckPending
<1>3. AckRetries(p) \in Nat
  BY <1>1 DEF AckRetries
<1>4. <<>> \in Seq(Messages) /\ <<Rewrapped(AckPending(p))>> \in Seq(Messages)
  BY <1>2, MessageTypes, EmptySeq
<1>5. AckSends(p) \in Seq(Messages)
  BY <1>1, <1>4, ConcatProperties DEF AckSends
<1>6. Off \in Queues
  BY EmptySeq DEF Off, Queues
<1> QED BY <1>2, <1>3, <1>5, <1>6

\* The handler keeps the types.
LEMMA TypeEmitAck ==
  ASSUME TypeOK, NEW p \in Ends, EmitAck(p)
  PROVE  TypeOK'
<1>1. /\ handleQueue' \in [Ends -> Queues]
      /\ pending' \in [Ends -> Nat] /\ retransmissions' \in [Ends -> Nat]
      /\ wire' \in [Ends -> Seq(Messages)]
      /\ DOMAIN writes' = Ends /\ \A e \in Ends : writes'[e] \in [1 .. MaxSends[e] -> Nat]
  BY EmitAckParts, AckTypes, SendAllType
<1>2. Append(closed[p], pending[p]) \in Seq(Nat)
  BY AppendProperties DEF TypeOK
<1>3. closed' \in [Ends -> Seq(Nat)]
  <2>1. closed \in [Ends -> Seq(Nat)]
    BY DEF TypeOK
  <2>2. closed' = [closed EXCEPT ![p] =
                     IF GivenUp(p, Head(ticks[p])) THEN Append(closed[p], pending[p]) ELSE closed[p]]
    BY EmitAckParts
  <2> QED BY <1>2, <2>1, <2>2
<1>4. Tail(ticks[p]) \in Seq(Messages) /\ Append(Tail(ticks[p]), Finish) \in Seq(Messages)
  BY EmitAckParts, TickType, MessageTypes, AppendProperties
<1>5. ticks' \in [Ends -> Seq(Messages)]
  <2>1. ticks \in [Ends -> Seq(Messages)]
    BY DEF TypeOK
  <2>2. ticks' = [ticks EXCEPT ![p] = IF PendingDisconnect(p, AckSends(p))
                                      THEN Append(Tail(ticks[p]), Finish) ELSE Tail(ticks[p])]
    BY EmitAckParts
  <2> QED BY <1>4, <2>1, <2>2
<1>6. channel' \in [Ends -> BOOLEAN]
  BY EmitAckParts, Zenon DEF TypeOK, PendingDisconnect
<1>7. UNCHANGED <<connected, ended, got, sends, lost, left, events, fault>>
  BY EmitAckParts
<1> QED BY <1>1, <1>3, <1>5, <1>6, <1>7 DEF TypeOK, Queues

\* Every step keeps the types.
LEMMA TypeStep == TypeOK /\ [Next]_vars => TypeOK'
<1> SUFFICES ASSUME TypeOK, [Next]_vars PROVE TypeOK'
  OBVIOUS
<1>1. ASSUME NEW p \in Ends, NEW k \in Kinds, send(p, k) PROVE TypeOK'
  BY <1>1, TypeSend
<1>2. ASSUME NEW p \in Ends, disconnect(p) \/ RunFinish(p) PROVE TypeOK'
  BY <1>2, TypeDisconnect
<1>3. ASSUME NEW p \in Ends, Crash(p) \/ EmitAckFails(p) \/ EmitHandleFails(p) PROVE TypeOK'
  BY <1>3, TypeDie DEF Crash, EmitAckFails, EmitHandleFails
<1>4. ASSUME NEW p \in Ends, Reading(p) PROVE TypeOK'
  BY <1>4, TypeRead, TypeReadEOF DEF Reading
<1>5. ASSUME NEW p \in Ends, EmitMessage(p) \/ EmitAck(p) \/ EmitHandle(p) PROVE TypeOK'
  BY <1>5, TypeEmitMessage, TypeEmitAck, TypeEmitHandle
<1>6. CASE UNCHANGED vars
  BY <1>6 DEF TypeOK, vars
<1> QED BY <1>1, <1>2, <1>3, <1>4, <1>5, <1>6 DEF Next, Tick

\* Every variable of both ends has its type in every behaviour, for any number
\* of messages: every retransmission is a message the reader understands.
THEOREM TypeCorrect == Spec => []TypeOK
BY TypeInit, TypeStep, PTL DEF Spec

-----------------------------------------------------------------------------
(* One pending handle                                                      *)

\* Sending keeps the rule if it held for what the sender started from.
LEMMA SendAllPending ==
  ASSUME TypeOK, PendingMatches, NEW p \in Ends, NEW Q \in Queues, NEW P \in Nat, NEW n \in Nat,
         NEW ms \in Seq(Messages), SendAll(p, Q, P, n, ms), P # 0 => QueueAfter(Q, ms).on
  PROVE  PendingMatches'
<1> DEFINE ws == Written(Q, ms)
<1>1. Posted(ws) => QueueAfter(Q, ms).on
  BY PostedQueues
<1>2. handleQueue'[p] = QueueAfter(Q, ms) /\ pending'[p] = IF Posted(ws) THEN ws[Len(ws)].id ELSE P
  BY DEF SendAll, TypeOK
<1>3. \A e \in Ends : e # p => handleQueue'[e] = handleQueue[e] /\ pending'[e] = pending[e]
  BY DEF SendAll, TypeOK
<1>4. pending'[p] # 0 => handleQueue'[p].on
  BY <1>1, <1>2
<1> QED BY <1>3, <1>4 DEF PendingMatches

\* Every step keeps it.
LEMMA PendingStep == TypeOK /\ PendingMatches /\ [Next]_vars => PendingMatches'
<1> SUFFICES ASSUME TypeOK, PendingMatches, [Next]_vars PROVE PendingMatches'
  OBVIOUS
<1>1. ASSUME NEW p \in Ends, NEW k \in Kinds, send(p, k) PROVE PendingMatches'
  <2> DEFINE ms == <<Msg(k, sends[p] + 1)>>
  <2>1. ms \in Seq(Messages)
    <3>1. k \in {"msg", "socket", "native"} /\ sends[p] \in Nat
      BY IpcAssumption DEF TypeOK
    <3>2. Msg(k, sends[p] + 1) \in Messages
      BY <3>1, MessageTypes
    <3> QED BY <3>2
  <2>2. handleQueue[p] \in Queues /\ pending[p] \in Nat /\ retransmissions[p] \in Nat
    BY DEF TypeOK, Queues
  <2>3. pending[p] # 0 => QueueAfter(handleQueue[p], ms).on
    BY <2>2 DEF PendingMatches, QueueAfter, Queues
  <2>4. SendAll(p, handleQueue[p], pending[p], retransmissions[p], ms)
    BY <1>1 DEF send
  <2> HIDE DEF ms
  <2> QED BY <2>1, <2>2, <2>3, <2>4, SendAllPending
<1>2. ASSUME NEW p \in Ends, disconnect(p) \/ ReadEOF(p) PROVE PendingMatches'
  <2>1. UNCHANGED handleQueue /\ (UNCHANGED pending \/ _disconnect(p))
    BY <1>2 DEF disconnect, ReadEOF
  <2>2. \A e \in Ends : pending'[e] = pending[e] \/ pending'[e] = 0
    BY <2>1 DEF _disconnect, TypeOK
  <2> QED BY <2>1, <2>2 DEF PendingMatches
<1>3. ASSUME NEW p \in Ends, EmitAck(p) PROVE PendingMatches'
  <2>1. AckPending(p) # 0 => QueueAfter(Off, AckSends(p)).on
    <3> SUFFICES ASSUME AckPending(p) # 0 PROVE QueueAfter(Off, AckSends(p)).on
      OBVIOUS
    <3>1. AckSends(p) \in Seq(Messages) /\ Off \in Queues /\ AckPending(p) \in Nat
      BY AckTypes
    <3>2. AckSends(p) = <<Rewrapped(AckPending(p))>> \o handleQueue[p].q
      BY DEF AckSends
    <3>3. <<Rewrapped(AckPending(p))>> \in Seq(Messages) /\ handleQueue[p].q \in Seq(Messages)
      <4>1. Rewrapped(AckPending(p)) \in Messages
        BY <3>1, MessageTypes
      <4>2. handleQueue[p].q \in Seq(Messages)
        BY DEF TypeOK
      <4> QED BY <4>1, <4>2
    <3>4. 1 \in 1 .. Len(AckSends(p)) /\ AckSends(p)[1] = Rewrapped(AckPending(p))
      BY <3>2, <3>3, LenProperties, ConcatProperties
    <3>5. IsHandle(AckSends(p)[1])
      BY <3>4 DEF IsHandle, Rewrapped, Msg
    <3>6. FirstHandle(AckSends(p)) # {}
      BY <3>1, <3>4, <3>5, FirstHandleExists
    <3> QED BY <3>6 DEF QueueAfter, Off
  <2> QED BY <1>3, <2>1, EmitAckParts, AckTypes, SendAllPending
<1>4. ASSUME NEW p \in Ends,
             \/ Crash(p) \/ EmitAckFails(p) \/ EmitHandleFails(p) \/ RunFinish(p)
             \/ EmitMessage(p) \/ EmitHandle(p) \/ \E n \in 1 .. Len(wire[p]), drop \in BOOLEAN : Read(p, n, drop)
      PROVE  PendingMatches'
  <2>1. UNCHANGED <<handleQueue, pending>>
    BY <1>4 DEF Crash, EmitAckFails, EmitHandleFails, Die, RunFinish, EmitMessage, EmitHandle, Read
  <2> QED BY <2>1 DEF PendingMatches
<1>5. CASE UNCHANGED vars
  BY <1>5 DEF PendingMatches, vars
<1> QED BY <1>1, <1>2, <1>3, <1>4, <1>5 DEF Next, Tick, Reading

\* A socket waits for its ACK only behind a queue that is on, so postSend()
\* never finds another one in its place: for any number of messages, losses,
\* retransmissions and disconnects.
THEOREM OnePending == Spec => []PendingMatches
<1>1. Init => PendingMatches
  BY DEF Init, PendingMatches
<1> QED BY <1>1, TypeCorrect, PendingStep, PTL DEF Spec

-----------------------------------------------------------------------------
(* The 'disconnect' event                                                  *)

FinishScheduled(p) == \E i \in DOMAIN ticks[p] : ticks[p][i].k = "finish"

(* The inductive strengthening of SilentOnlyUnacknowledged.  An end that is   *)
(* not connected has a queue that waits, or finish() before it or behind it;  *)
(* one without a channel has finish() before or behind it, or has nothing     *)
(* left to run.                                                               *)
AnnouncedAt(p) ==
  Alive(p) =>
    /\ ended[p] => ~connected[p] \/ Disconnected(p)
    /\ ~connected[p] => handleQueue[p].on \/ Disconnected(p) \/ FinishScheduled(p)
    /\ ~channel[p] => \/ Disconnected(p) \/ FinishScheduled(p)
                      \/ ended[p] /\ ticks[p] = <<>>
Announced == \A p \in Ends : AnnouncedAt(p)

(* What the invariant says of an end depends on these variables of that end.  *)
SameAt(e) ==
  /\ connected'[e] = connected[e] /\ channel'[e] = channel[e] /\ ended'[e] = ended[e]
  /\ handleQueue'[e] = handleQueue[e] /\ ticks'[e] = ticks[e]
  /\ events'[e] = events[e] /\ fault'[e] = fault[e]

\* If those are the same, so is what the invariant says.
LEMMA SameAnnounced == ASSUME NEW e, AnnouncedAt(e), SameAt(e) PROVE AnnouncedAt(e)'
BY DEF AnnouncedAt, SameAt, Alive, Disconnected, FinishScheduled

\* A step of one end leaves those of the other alone.
LEMMA StepIsLocal ==
  ASSUME TypeOK, NEW p \in Ends, NEW e \in Ends, e # p,
         \/ \E k \in Kinds : send(p, k)
         \/ disconnect(p) \/ Crash(p) \/ Reading(p) \/ Tick(p)
  PROVE  SameAt(e)
<1>1. ASSUME NEW k \in Kinds, send(p, k) PROVE SameAt(e)
  BY <1>1 DEF SameAt, TypeOK, send, SendAll
<1>2. CASE disconnect(p)
  BY <1>2 DEF SameAt, TypeOK, disconnect, _disconnect
<1>3. ASSUME NEW why, Die(p, why) PROVE SameAt(e)
  BY <1>3 DEF SameAt, TypeOK, Die
<1>4. ASSUME NEW n, NEW drop, Read(p, n, drop) PROVE SameAt(e)
  BY <1>4 DEF SameAt, TypeOK, Read
<1>5. CASE ReadEOF(p)
  BY <1>5 DEF SameAt, TypeOK, ReadEOF, _disconnect
<1>6. CASE EmitMessage(p)
  BY <1>6 DEF SameAt, TypeOK, EmitMessage
<1>7. CASE EmitAck(p)
  <2>1. channel'[e] = channel[e] /\ ticks'[e] = ticks[e]
    BY <1>7, EmitAckAt
  <2>2. handleQueue'[e] = handleQueue[e]
    BY <1>7, EmitAckAt
  <2>3. UNCHANGED <<connected, ended, events, fault>>
    BY <1>7, EmitAckParts
  <2> QED BY <2>1, <2>2, <2>3 DEF SameAt
<1>8. CASE EmitHandle(p)
  BY <1>8 DEF SameAt, TypeOK, EmitHandle
<1>9. CASE RunFinish(p)
  BY <1>9 DEF SameAt, TypeOK, RunFinish
<1> QED BY <1>1, <1>2, <1>3, <1>4, <1>5, <1>6, <1>7, <1>8, <1>9
        DEF Crash, Reading, Tick, EmitAckFails, EmitHandleFails

\* finish() stays scheduled when another tick runs, also one that appends.
LEMMA FinishStays ==
  ASSUME NEW t \in Seq(Messages), t # <<>>, Head(t).k # "finish",
         NEW i \in DOMAIN t, t[i].k = "finish", NEW m \in Messages
  PROVE  /\ \E j \in DOMAIN Tail(t) : Tail(t)[j].k = "finish"
         /\ \E j \in DOMAIN Append(Tail(t), m) : Append(Tail(t), m)[j].k = "finish"
<1>1. i \in 2 .. Len(t)
  BY LenProperties
<1>2. Tail(t) \in Seq(Messages) /\ Len(Tail(t)) = Len(t) - 1 /\ Tail(t)[i - 1] = t[i]
  BY <1>1
<1>3. i - 1 \in DOMAIN Tail(t)
  BY <1>1, <1>2
<1>4. i - 1 \in DOMAIN Append(Tail(t), m) /\ Append(Tail(t), m)[i - 1] = Tail(t)[i - 1]
  BY <1>1, <1>2
<1> QED BY <1>2, <1>3, <1>4

\* A finish() that is appended is scheduled.
LEMMA FinishAppended ==
  ASSUME NEW t \in Seq(Messages)
  PROVE  \E j \in DOMAIN Append(t, Finish) : Append(t, Finish)[j].k = "finish"
<1>1. Finish \in Messages /\ Finish.k = "finish"
  BY MessageTypes DEF Finish, Msg
<1>2. Len(t) + 1 \in DOMAIN Append(t, Finish) /\ Append(t, Finish)[Len(t) + 1] = Finish
  BY <1>1
<1> QED BY <1>1, <1>2

\* send() and disconnect() keep the invariant of their end.
LEMMA AnnouncedCalls ==
  ASSUME TypeOK, NEW p \in Ends, AnnouncedAt(p),
         (\E k \in Kinds : send(p, k)) \/ disconnect(p)
  PROVE  AnnouncedAt(p)'
<1>1. ASSUME NEW k \in Kinds, send(p, k) PROVE AnnouncedAt(p)'
  <2>1. UNCHANGED <<connected, channel, ended, ticks, events, fault>>
    BY <1>1 DEF send
  <2>2. handleQueue[p].on => handleQueue'[p].on
    BY <1>1 DEF send, SendAll, QueueAfter, TypeOK
  <2> QED BY <2>1, <2>2 DEF AnnouncedAt, Alive, Disconnected, FinishScheduled
<1>2. CASE disconnect(p)
  <2>1. UNCHANGED <<handleQueue, ended, events, fault>> /\ connected'[p] = FALSE
    BY <1>2 DEF disconnect, TypeOK
  <2>2. CASE handleQueue[p].on
    <3>1. UNCHANGED <<channel, ticks>>
      BY <1>2, <2>2 DEF disconnect, Unacknowledged
    <3> QED BY <2>1, <2>2, <3>1 DEF AnnouncedAt, Alive, Disconnected, FinishScheduled
  <2>3. CASE ~handleQueue[p].on
    <3>1. _disconnect(p)
      BY <1>2, <2>3 DEF disconnect, Unacknowledged
    <3>2. FinishScheduled(p)'
      <4>1. ticks'[p] = Append(ticks[p], Finish) /\ ticks[p] \in Seq(Messages)
        BY <3>1 DEF _disconnect, TypeOK
      <4> QED BY <4>1, FinishAppended DEF FinishScheduled
    <3> QED BY <2>1, <3>2 DEF AnnouncedAt
  <2> QED BY <2>2, <2>3
<1> QED BY <1>1, <1>2

\* So does reading, which happens when no tick is left.
LEMMA AnnouncedRead ==
  ASSUME TypeOK, NEW p \in Ends, AnnouncedAt(p), Reading(p)
  PROVE  AnnouncedAt(p)'
<1>1. ASSUME NEW n, NEW drop, Read(p, n, drop) PROVE AnnouncedAt(p)'
  <2>1. UNCHANGED <<connected, channel, handleQueue, ended, events, fault>>
    BY <1>1 DEF Read
  <2>2. Alive(p) /\ ~ended[p] /\ ~FinishScheduled(p)
    BY <1>1 DEF Read, FinishScheduled
  <2> QED BY <2>1, <2>2 DEF AnnouncedAt, Alive, Disconnected
<1>2. CASE ReadEOF(p)
  <2>1. UNCHANGED <<handleQueue, fault>> /\ connected'[p] = FALSE /\ ended'[p] = TRUE
    BY <1>2 DEF ReadEOF, TypeOK
  <2>2. Alive(p) /\ ticks[p] = <<>> /\ ~FinishScheduled(p)
    BY <1>2 DEF ReadEOF, FinishScheduled
  <2>3. Disconnected(p) => Disconnected(p)'
    <3>1. events'[p] = events[p] \/ events'[p] = Append(events[p], "error")
      BY <1>2 DEF ReadEOF, TypeOK
    <3>2. events[p] \in Seq({"disconnect", "error"})
      BY DEF TypeOK
    <3> QED BY <3>1, <3>2 DEF Disconnected
  <2>4. CASE connected[p] /\ ~handleQueue[p].on
    <3>1. _disconnect(p)
      BY <1>2, <2>4 DEF ReadEOF, Unacknowledged
    <3>2. FinishScheduled(p)'
      <4>1. ticks'[p] = Append(ticks[p], Finish) /\ ticks[p] \in Seq(Messages)
        BY <3>1 DEF _disconnect, TypeOK
      <4> QED BY <4>1, FinishAppended DEF FinishScheduled
    <3> QED BY <2>1, <3>2 DEF AnnouncedAt
  <2>5. CASE ~(connected[p] /\ ~handleQueue[p].on)
    <3>1. UNCHANGED ticks
      BY <1>2, <2>5 DEF ReadEOF, Unacknowledged
    <3>2. handleQueue[p].on \/ Disconnected(p)
      BY <2>2, <2>5 DEF AnnouncedAt
    <3> QED BY <2>1, <2>2, <2>3, <3>1, <3>2 DEF AnnouncedAt
  <2> QED BY <2>4, <2>5
<1> QED BY <1>1, <1>2 DEF Reading

\* So does every tick.
LEMMA AnnouncedTick ==
  ASSUME TypeOK, NEW p \in Ends, AnnouncedAt(p),
         EmitMessage(p) \/ EmitAck(p) \/ EmitHandle(p) \/ RunFinish(p)
  PROVE  AnnouncedAt(p)'
<1>0. ticks[p] \in Seq(Messages)
  BY DEF TypeOK
<1>1. CASE EmitMessage(p) \/ EmitHandle(p)
  <2>1. UNCHANGED <<connected, channel, handleQueue, ended, events, fault>>
    BY <1>1 DEF EmitMessage, EmitHandle
  <2>2. ticks[p] # <<>> /\ Head(ticks[p]).k # "finish"
    BY <1>1 DEF EmitMessage, EmitHandle, Emitting
  <2>3. ticks'[p] = Tail(ticks[p]) \/ ticks'[p] = Append(Tail(ticks[p]), Converted(Head(ticks[p])))
    BY <1>1 DEF EmitMessage, EmitHandle, TypeOK
  <2>4. Converted(Head(ticks[p])) \in Messages
    BY <2>2, TickType, MessageTypes
  <2>5. FinishScheduled(p) => FinishScheduled(p)'
    BY <1>0, <2>2, <2>3, <2>4, FinishStays DEF FinishScheduled
  <2> QED BY <2>1, <2>2, <2>5 DEF AnnouncedAt, Alive, Disconnected
<1>2. CASE EmitAck(p)
  <2>1. UNCHANGED <<connected, ended, events, fault>>
    BY <1>2, EmitAckParts
  <2>2. ticks[p] # <<>> /\ Head(ticks[p]).k # "finish" /\ Alive(p)
    BY <1>2, EmitAckParts
  <2>3. Finish \in Messages /\ Tail(ticks[p]) \in Seq(Messages)
    BY <2>2, TickType, MessageTypes
  <2>4. ticks'[p] = IF PendingDisconnect(p, AckSends(p)) THEN Append(Tail(ticks[p]), Finish)
                                                         ELSE Tail(ticks[p])
    BY <1>2, EmitAckAt
  <2>5. FinishScheduled(p) => FinishScheduled(p)'
    BY <1>0, <2>2, <2>3, <2>4, FinishStays DEF FinishScheduled
  <2>6. PendingDisconnect(p, AckSends(p)) => FinishScheduled(p)'
    BY <2>3, <2>4, FinishAppended DEF FinishScheduled
  <2>7. channel'[p] = (channel[p] /\ ~PendingDisconnect(p, AckSends(p)))
    BY <1>2, EmitAckAt
  <2>8. handleQueue'[p] = QueueAfter(Off, AckSends(p))
    BY <1>2, EmitAckAt
  <2>9. ~channel[p] => Disconnected(p) \/ FinishScheduled(p)
    BY <2>2 DEF AnnouncedAt
  <2>10. Disconnected(p)' <=> Disconnected(p)
    BY <2>1 DEF Disconnected
  <2>11. ~connected[p] => handleQueue'[p].on \/ Disconnected(p) \/ FinishScheduled(p)'
    BY <2>5, <2>6, <2>8, <2>9 DEF PendingDisconnect
  <2>12. ~channel'[p] => Disconnected(p) \/ FinishScheduled(p)'
    BY <2>5, <2>6, <2>7, <2>9
  <2> QED BY <2>1, <2>2, <2>10, <2>11, <2>12 DEF AnnouncedAt
<1>3. CASE RunFinish(p)
  <2>1. events'[p] = Append(events[p], "disconnect") /\ events[p] \in Seq({"disconnect", "error"})
    BY <1>3 DEF RunFinish, TypeOK
  <2>2. /\ Len(events[p]) + 1 \in DOMAIN Append(events[p], "disconnect")
        /\ Append(events[p], "disconnect")[Len(events[p]) + 1] = "disconnect"
    BY <2>1
  <2>3. Disconnected(p)'
    BY <2>1, <2>2 DEF Disconnected
  <2> QED BY <2>3 DEF AnnouncedAt
<1> QED BY <1>1, <1>2, <1>3

\* Every step keeps the invariant at both ends.
LEMMA AnnouncedStep == TypeOK /\ Announced /\ [Next]_vars => Announced'
<1> SUFFICES ASSUME TypeOK, Announced, [Next]_vars PROVE Announced'
  OBVIOUS
<1>1. ASSUME NEW p \in Ends,
             \/ \E k \in Kinds : send(p, k)
             \/ disconnect(p) \/ Crash(p) \/ Reading(p) \/ Tick(p)
      PROVE  Announced'
  <2>1. AnnouncedAt(p)
    BY DEF Announced
  <2>2. CASE Crash(p) \/ EmitAckFails(p) \/ EmitHandleFails(p)
    <3>1. fault'[p] # "none"
      BY <2>2 DEF Crash, EmitAckFails, EmitHandleFails, Die, TypeOK
    <3> QED BY <3>1, <2>1, <1>1, StepIsLocal, SameAnnounced DEF Announced, AnnouncedAt, Alive
  <2>3. CASE ~(Crash(p) \/ EmitAckFails(p) \/ EmitHandleFails(p))
    <3>1. AnnouncedAt(p)'
      BY <1>1, <2>1, <2>3, AnnouncedCalls, AnnouncedRead, AnnouncedTick DEF Tick
    <3>2. \A e \in Ends : e # p => AnnouncedAt(e)'
      BY <1>1, StepIsLocal, SameAnnounced DEF Announced
    <3> QED BY <3>1, <3>2 DEF Announced
  <2> QED BY <2>2, <2>3
<1>2. CASE UNCHANGED vars
  <2>1. \A e \in Ends : SameAt(e)
    BY <1>2 DEF SameAt, vars
  <2> QED BY <2>1, SameAnnounced DEF Announced
<1> QED BY <1>1, <1>2 DEF Next

\* An end whose channel is gone has emitted 'disconnect', unless the other end
\* went away while a handle was not acknowledged; whatever was queued, lost or
\* asked for when the channel ended.
THEOREM DisconnectAnnounced == Spec => []SilentOnlyUnacknowledged
<1>1. Init => Announced
  BY DEF Init, Announced, AnnouncedAt
<1>2. Announced => SilentOnlyUnacknowledged
  BY DEF Announced, AnnouncedAt, SilentOnlyUnacknowledged, FinishScheduled
<1> QED BY <1>1, <1>2, TypeCorrect, AnnouncedStep, PTL DEF Spec


-----------------------------------------------------------------------------
(***************************************************************************)
(* The second part: a handle is sent a bounded number of times and closed  *)
(* at most once (HandlesSettled), the two assertions of the channel fail   *)
(* only where the code has a reason (AckFindsQueue), and messages arrive *)
(* in order as long as no handle was lost (InOrderUnlessLost).  The        *)
(* inductive invariant is, at each end,                                    *)
(*   Settled: what was written, queued, pending and closed;                *)
(*   OneFlight, LeftBehind, Explained: what is under way and unanswered;   *)
(*   NoLoss, OnTime: what holds until the kernel drops a handle.           *)
(***************************************************************************)

(* The messages of the user, the handles among them, the answers to a handle. *)
UserKinds == {"msg", "socket", "native"}
HandleKinds == {"socket", "native"}
AckKinds == {"NODE_HANDLE_ACK", "NODE_HANDLE_NACK"}

(* What the user of an end gave to a run of _send() calls, numbered from b on. *)
Given(ms, b) ==
  \A i \in 1 .. Len(ms) : /\ ms[i].id = b + i /\ ms[i].k \in UserKinds
                          /\ ~ms[i].wraps /\ (IsHandle(ms[i]) => ms[i].has)

(* The number of the last message that was written, and whether one was written again. *)
Base(p) == sends[p] - Len(handleQueue[p].q)
Retried(p) == \E i \in 1 .. MaxSends[p] : writes[p][i] > 1

(* What is queued is not written yet, and is numbered on from the last written *)
(* one; a pending socket was written once and once more for each               *)
(* retransmission, and is not closed yet.                                      *)
Numbered(p) ==
  /\ sends[p] <= MaxSends[p]
  /\ ~handleQueue[p].on => handleQueue[p].q = <<>>
  /\ Len(handleQueue[p].q) <= sends[p]
  /\ Given(handleQueue[p].q, Base(p))
  /\ pending[p] <= Base(p)
  /\ \A i \in 1 .. MaxSends[p] : i > Base(p) => writes[p][i] = 0
  /\ pending[p] # 0 => /\ writes[p][pending[p]] = retransmissions[p] + 1
                       /\ retransmissions[p] <= MAX_HANDLE_RETRANSMISSIONS
Bounded(p) == \A i \in 1 .. MaxSends[p] : writes[p][i] <= MAX_HANDLE_RETRANSMISSIONS + 1
Closings(p) ==
  /\ \A i \in DOMAIN closed[p] :
       closed[p][i] # 0 /\ closed[p][i] <= Base(p) /\ closed[p][i] # pending[p]
  /\ \A i, j \in DOMAIN closed[p] : i # j => closed[p][i] # closed[p][j]
Settled(p) == Numbered(p) /\ Bounded(p) /\ Closings(p)

(* How many messages of a sequence have one of the kinds K. *)
CountOf(s, K) == Cardinality({i \in DOMAIN s : s[i].k \in K})

(* Of a handle and its answer only one is under way, and the queue is on. *)
Flight(p) ==
  CountOf(wire[Other(p)], HandleKinds) + CountOf(ticks[Other(p)], HandleKinds)
    + CountOf(wire[p], AckKinds) + CountOf(ticks[p], AckKinds)
NoWraps(s) == \A i \in DOMAIN s : ~s[i].wraps
OneFlight(p) ==
  Retried(p) \/ /\ Flight(p) <= 1
                /\ Flight(p) > 0 => handleQueue[p].on
                /\ NoWraps(wire[Other(p)]) /\ NoWraps(ticks[Other(p)])

(* An end that disconnected without its user has nothing left to answer. *)
LeftBehind(p) ==
  left[p] \/ connected[p] \/ (ended[p] /\ \A i \in DOMAIN ticks[p] : ticks[p][i].k = "finish")

(* As long as no handle was lost none is refused and none sent again. *)
HasHandle(s) == \A i \in DOMAIN s : IsHandle(s[i]) => s[i].has
NoNack(s) == \A i \in DOMAIN s : s[i].k # "NODE_HANDLE_NACK"
NoLoss(p) ==
  /\ HasHandle(wire[Other(p)])
  /\ lost[p] # {} \/ /\ HasHandle(ticks[Other(p)]) /\ ~Retried(p)
                     /\ NoNack(wire[p]) /\ NoNack(ticks[p])

(* What the other end was given, is about to be given and has still to read is *)
(* in order, and a handle is the last of it.                                   *)
IsUser(m) == m.k \in UserKinds
Rising(s) ==
  \A i, j \in DOMAIN s : i < j /\ IsUser(s[i]) /\ IsUser(s[j]) => s[i].id < s[j].id
Before(s, t) ==
  \A i \in DOMAIN s, j \in DOMAIN t : IsUser(s[i]) /\ IsUser(t[j]) => s[i].id < t[j].id
Passed(g, s) == \A i \in DOMAIN g, j \in DOMAIN s : IsUser(s[j]) => g[i] < s[j].id
UpTo(s, b) ==
  \A i \in DOMAIN s : IsUser(s[i]) => s[i].id <= b /\ (IsHandle(s[i]) => s[i].id = b)
InLine(g, t, w, b) ==
  /\ \A i \in DOMAIN g : g[i] <= b
  /\ Passed(g, t) /\ Passed(g, w)
  /\ Rising(t) /\ Rising(w) /\ Before(t, w)
  /\ UpTo(t, b) /\ UpTo(w, b)
OnTime(p) ==
  Ordered(Other(p)) /\ InLine(got[Other(p)], ticks[Other(p)], wire[Other(p)], Base(p))

-----------------------------------------------------------------------------
(* Runs of _send() calls                                                   *)

\* A run written with the queue off is a prefix of what is sent, up to the
\* first handle; the rest is queued, and the queue is on exactly after a handle.
LEMMA RunParts ==
  ASSUME NEW Q \in Queues, ~Q.on, Q.q = <<>>, NEW ms \in Seq(Messages)
  PROVE  /\ Written(Q, ms) \in Seq(Messages) /\ QueueAfter(Q, ms) \in Queues
         /\ Len(Written(Q, ms)) \in 0 .. Len(ms)
         /\ \A i \in 1 .. Len(Written(Q, ms)) : Written(Q, ms)[i] = ms[i]
         /\ \A i \in 1 .. Len(Written(Q, ms)) : IsHandle(ms[i]) =>
              i = Len(Written(Q, ms)) /\ QueueAfter(Q, ms).on
         /\ Len(QueueAfter(Q, ms).q) = Len(ms) - Len(Written(Q, ms))
         /\ \A i \in 1 .. (Len(ms) - Len(Written(Q, ms))) :
              QueueAfter(Q, ms).q[i] = ms[Len(Written(Q, ms)) + i]
         /\ ~QueueAfter(Q, ms).on => Len(Written(Q, ms)) = Len(ms)
<1>0. Written(Q, ms) \in Seq(Messages) /\ QueueAfter(Q, ms) \in Queues /\ Len(ms) \in Nat
  BY WrittenType, LenProperties
<1>1. CASE FirstHandle(ms) = {}
  <2>1. Written(Q, ms) = ms /\ QueueAfter(Q, ms) = Q
    BY <1>1 DEF Written, QueueAfter
  <2>2. \A i \in 1 .. Len(ms) : ~IsHandle(ms[i])
    BY <1>1, FirstHandleExists
  <2> QED BY <2>1, <2>2, <1>0
<1>2. CASE FirstHandle(ms) # {}
  <2> DEFINE c == Cut(ms)
  <2>1. c \in FirstHandle(ms) /\ c \in 1 .. Len(ms)
    BY <1>2, CutIndex DEF Cut
  <2>2. IsHandle(ms[c]) /\ \A j \in 1 .. (c - 1) : ~IsHandle(ms[j])
    BY <2>1 DEF FirstHandle
  <2>3. /\ Written(Q, ms) = SubSeq(ms, 1, c)
        /\ QueueAfter(Q, ms) = [on |-> TRUE, q |-> SubSeq(ms, c + 1, Len(ms))]
    BY <1>2 DEF Written, QueueAfter
  <2> HIDE DEF c
  <2>4. Len(SubSeq(ms, 1, c)) = c /\ \A i \in 1 .. c : SubSeq(ms, 1, c)[i] = ms[i]
    BY <2>1, <1>0
  <2>5. /\ Len(SubSeq(ms, c + 1, Len(ms))) = Len(ms) - c
        /\ \A i \in 1 .. (Len(ms) - c) : SubSeq(ms, c + 1, Len(ms))[i] = ms[c + i]
    BY <2>1, <1>0
  <2>6. \A i \in 1 .. c : IsHandle(ms[i]) => i = c
    BY <2>1, <2>2
  <2> QED BY <1>0, <2>1, <2>3, <2>4, <2>5, <2>6
<1> QED BY <1>1, <1>2

\* Messages with different numbers are counted once each.
LEMMA CountedOnce ==
  ASSUME NEW ws \in Seq(Messages), NEW i \in Nat,
         \A j, l \in DOMAIN ws : ws[j].id = ws[l].id => j = l
  PROVE  Cardinality({j \in DOMAIN ws : ws[j].id = i}) =
           IF \E j \in DOMAIN ws : ws[j].id = i THEN 1 ELSE 0
<1>1. CASE \E j \in DOMAIN ws : ws[j].id = i
  <2>1. PICK j \in DOMAIN ws : ws[j].id = i
    BY <1>1
  <2>2. {l \in DOMAIN ws : ws[l].id = i} = {j}
    BY <2>1
  <2> QED BY <1>1, <2>2, FS_Singleton
<1>2. CASE ~\E j \in DOMAIN ws : ws[j].id = i
  <2>1. {l \in DOMAIN ws : ws[l].id = i} = {}
    BY <1>2
  <2> QED BY <1>2, <2>1, FS_EmptySet
<1> QED BY <1>1, <1>2

\* What a write adds to the counts of its end.
LEMMA WriteCounts ==
  ASSUME TypeOK, NEW p \in Ends, NEW ws \in Seq(Messages), Write(p, ws),
         \A j, l \in DOMAIN ws : ws[j].id = ws[l].id => j = l
  PROVE  /\ \A i \in 1 .. MaxSends[p] :
              writes'[p][i] = writes[p][i] + (IF \E j \in DOMAIN ws : ws[j].id = i THEN 1 ELSE 0)
         /\ \A e \in Ends : e # p => writes'[e] = writes[e]
<1>1. writes'[p] = [i \in 1 .. MaxSends[p] |->
                      writes[p][i] + Cardinality({j \in DOMAIN ws : ws[j].id = i})]
  BY DEF Write, TypeOK
<1>2. \A i \in 1 .. MaxSends[p] : i \in Nat
  BY IpcAssumption
<1>3. \A i \in 1 .. MaxSends[p] : Cardinality({j \in DOMAIN ws : ws[j].id = i}) =
        IF \E j \in DOMAIN ws : ws[j].id = i THEN 1 ELSE 0
  BY <1>2, CountedOnce
<1>4. \A e \in Ends : e # p => writes'[e] = writes[e]
  BY DEF Write, TypeOK
<1> QED BY <1>1, <1>3, <1>4

\* The counts are numbers.
LEMMA WritesNat ==
  ASSUME TypeOK, NEW p \in Ends
  PROVE  /\ MaxSends[p] \in Nat /\ sends[p] \in Nat /\ pending[p] \in Nat
         /\ retransmissions[p] \in Nat /\ Len(handleQueue[p].q) \in Nat
         /\ handleQueue[p] \in Queues
         /\ \A i \in 1 .. MaxSends[p] : i \in Nat /\ writes[p][i] \in Nat
<1>1. MaxSends[p] \in Nat
  BY IpcAssumption
<1>2. writes[p] \in [1 .. MaxSends[p] -> Nat]
  BY DEF TypeOK
<1>3. handleQueue[p] \in Queues
  BY DEF TypeOK, Queues
<1>4. Len(handleQueue[p].q) \in Nat
  BY <1>3, LenProperties DEF Queues
<1>5. sends[p] \in Nat /\ pending[p] \in Nat /\ retransmissions[p] \in Nat
  BY DEF TypeOK
<1> QED BY <1>1, <1>2, <1>3, <1>4, <1>5

-----------------------------------------------------------------------------
(* Sent handles: HandlesSettled                                            *)

(* A write by p of the next messages of its user, with none after a handle. *)
FreshWrite(p, ws) ==
  /\ Write(p, ws) /\ ws \in Seq(Messages) /\ Given(ws, Base(p)) /\ Base(p)' = Base(p) + Len(ws)
  /\ \A i \in DOMAIN ws : IsHandle(ws[i]) => i = Len(ws) /\ handleQueue'[p].on
  /\ Numbered(p)' /\ (Bounded(p) => Bounded(p)') /\ (Retried(p)' => Retried(p))

\* A run of the user's messages that starts with the queue off and no pending
\* handle: it goes on where the writes stopped, each message is written for the
\* first time, and the rest of it is queued.
LEMMA FreshRun ==
  ASSUME TypeOK, NEW p \in Ends, NEW Q \in Queues, ~Q.on, Q.q = <<>>,
         NEW ms \in Seq(Messages), NEW n \in Nat, NEW b \in Nat, b = Base(p), Given(ms, b),
         SendAll(p, Q, 0, n, ms), sends'[p] = b + Len(ms), b + Len(ms) <= MaxSends[p],
         \A i \in 1 .. MaxSends[p] : i > b => writes[p][i] = 0
  PROVE  /\ FreshWrite(p, Written(Q, ms))
         /\ pending'[p] = 0 \/ pending'[p] > b
<1> DEFINE ws == Written(Q, ms)
           c == Len(ws)
           r == QueueAfter(Q, ms)
<1>1. ws \in Seq(Messages) /\ r \in Queues /\ c \in 0 .. Len(ms)
  BY RunParts
<1>20. \A i \in 1 .. c : ws[i] = ms[i] /\ (IsHandle(ms[i]) => i = c /\ r.on)
  BY RunParts
<1>21. Len(r.q) = Len(ms) - c /\ (~r.on => c = Len(ms))
  BY RunParts
<1>22. \A i \in 1 .. (Len(ms) - c) : r.q[i] = ms[c + i]
  BY RunParts
<1>2. Write(p, ws) /\ handleQueue'[p] = r
      /\ pending'[p] = (IF Posted(ws) THEN ws[c].id ELSE 0)
      /\ retransmissions'[p] = (IF Posted(ws) THEN 0 ELSE n)
  BY DEF SendAll, TypeOK
<1>3. Len(ms) \in Nat /\ c \in Nat /\ DOMAIN ws = 1 .. c /\ MaxSends[p] \in Nat
  BY <1>1, LenProperties, WritesNat
<1>4. Posted(ws) => c \in 1 .. c
  <2>1. ws # <<>> => c > 0
    BY <1>1, EmptySeq, LenProperties
  <2> QED BY <2>1, <1>3 DEF Posted
<1> HIDE DEF ws, c, r
<1>5. Given(ws, b)
  <2>1. \A i \in 1 .. c : i \in 1 .. Len(ms) /\ ws[i] = ms[i]
    BY <1>1, <1>20, <1>3
  <2> QED BY <2>1 DEF Given, c
<1>6. Base(p)' = b + c
  <2>1. Base(p)' = sends'[p] - Len(handleQueue'[p].q)
    BY DEF Base
  <2> QED BY <2>1, <1>2, <1>3, <1>21
<1>7. \A i \in DOMAIN ws : IsHandle(ws[i]) => i = c /\ handleQueue'[p].on
  BY <1>20, <1>2, <1>3
<1>8. \A i \in DOMAIN ws : ws[i].id = b + i
  BY <1>5, <1>3 DEF Given, c
<1>9. \A i \in 1 .. MaxSends[p] :
        writes'[p][i] = writes[p][i] + (IF \E j \in DOMAIN ws : ws[j].id = i THEN 1 ELSE 0)
  <2>1. \A j, l \in DOMAIN ws : ws[j].id = ws[l].id => j = l
    BY <1>3, <1>8
  <2> QED BY <2>1, <1>1, <1>2, WriteCounts
<1>10. \A i \in 1 .. MaxSends[p] :
         /\ i <= b => writes'[p][i] = writes[p][i]
         /\ i > b /\ i <= b + c => writes'[p][i] = 1
         /\ i > b + c => writes'[p][i] = 0
  <2> SUFFICES ASSUME NEW i \in 1 .. MaxSends[p]
               PROVE  /\ i <= b => writes'[p][i] = writes[p][i]
                      /\ i > b /\ i <= b + c => writes'[p][i] = 1
                      /\ i > b + c => writes'[p][i] = 0
    OBVIOUS
  <2>1. i \in Nat /\ writes[p][i] \in Nat
    BY WritesNat
  <2>2. (\E j \in DOMAIN ws : ws[j].id = i) <=> (i > b /\ i <= b + c)
    <3>1. ASSUME i > b /\ i <= b + c PROVE \E j \in DOMAIN ws : ws[j].id = i
      <4>1. i - b \in DOMAIN ws /\ ws[i - b].id = i
        BY <3>1, <2>1, <1>3, <1>8
      <4> QED BY <4>1
    <3>2. ASSUME NEW j \in DOMAIN ws, ws[j].id = i PROVE i > b /\ i <= b + c
      BY <3>2, <1>3, <1>8
    <3> QED BY <3>1, <3>2
  <2>3. writes'[p][i] = writes[p][i] + (IF i > b /\ i <= b + c THEN 1 ELSE 0)
    BY <2>2, <1>9
  <2>4. i > b => writes[p][i] = 0
    OBVIOUS
  <2> QED BY <2>1, <2>3, <2>4, <1>3
<1>16. \A i \in 1 .. MaxSends[p] :
         \/ writes'[p][i] = writes[p][i] \/ writes'[p][i] = 0
         \/ writes'[p][i] = 1
  <2>1. \A i \in 1 .. MaxSends[p] : i \in Nat
    BY WritesNat
  <2>2. \A i \in Nat : i <= b \/ (i > b /\ i <= b + c) \/ i > b + c
    BY <1>3
  <2> QED BY <2>1, <2>2, <1>10
<1>11. Posted(ws) => pending'[p] = b + c /\ c > 0 /\ retransmissions'[p] = 0
  BY <1>2, <1>3, <1>4, <1>8
<1>12. Numbered(p)'
  <2>1. Given(handleQueue'[p].q, b + c)
    <3> SUFFICES ASSUME NEW i \in 1 .. Len(r.q)
                 PROVE  /\ r.q[i].id = b + c + i /\ r.q[i].k \in UserKinds
                        /\ ~r.q[i].wraps /\ (IsHandle(r.q[i]) => r.q[i].has)
      BY <1>2 DEF Given
    <3>1. r.q[i] = ms[c + i] /\ c + i \in 1 .. Len(ms)
      BY <1>1, <1>21, <1>22, <1>3
    <3>2. ms[c + i].id = b + (c + i)
      BY <3>1 DEF Given
    <3>3. ms[c + i].k \in UserKinds /\ ~ms[c + i].wraps /\ (IsHandle(ms[c + i]) => ms[c + i].has)
      BY <3>1 DEF Given
    <3>4. b + (c + i) = b + c + i
      BY <1>3
    <3> QED BY <3>1, <3>2, <3>3, <3>4
  <2>2. handleQueue'[p].q \in Seq(Messages)
    BY <1>1, <1>2 DEF Queues
  <2>3. ~handleQueue'[p].on => handleQueue'[p].q = <<>>
    BY <1>21, <1>2, <1>3, <2>2, EmptySeq
  <2>4. sends'[p] <= MaxSends[p] /\ Len(handleQueue'[p].q) <= sends'[p]
    BY <1>1, <1>21, <1>2, <1>3
  <2>5. pending'[p] <= b + c
    BY <1>2, <1>3, <1>11
  <2>6. pending'[p] # 0 => /\ writes'[p][pending'[p]] = retransmissions'[p] + 1
                           /\ retransmissions'[p] <= MAX_HANDLE_RETRANSMISSIONS
    <3> SUFFICES ASSUME Posted(ws)
                 PROVE  /\ writes'[p][pending'[p]] = retransmissions'[p] + 1
                        /\ retransmissions'[p] <= MAX_HANDLE_RETRANSMISSIONS
      BY <1>2
    <3>1. b + c \in 1 .. MaxSends[p]
      BY <1>1, <1>3, <1>11
    <3>2. writes'[p][b + c] = 1
      BY <3>1, <1>3, <1>10, <1>11
    <3> QED BY <3>2, <1>11 DEF MAX_HANDLE_RETRANSMISSIONS
  <2> QED BY <2>1, <2>3, <2>4, <2>5, <2>6, <1>6, <1>10 DEF Numbered
<1>13. Bounded(p) => Bounded(p)'
  <2> SUFFICES ASSUME Bounded(p), NEW i \in 1 .. MaxSends[p] PROVE writes'[p][i] <= 4
    BY DEF Bounded, MAX_HANDLE_RETRANSMISSIONS
  <2>1. i \in Nat /\ writes[p][i] \in Nat /\ writes[p][i] <= 4
    BY WritesNat DEF Bounded, MAX_HANDLE_RETRANSMISSIONS
  <2> QED BY <2>1, <1>16
<1>14. Retried(p)' => Retried(p)
  <2> SUFFICES ASSUME NEW i \in 1 .. MaxSends[p], writes'[p][i] > 1 PROVE writes[p][i] > 1
    BY DEF Retried
  <2> QED BY <1>16
<1>15. pending'[p] = 0 \/ pending'[p] > b
  BY <1>2, <1>3, <1>11
<1> QED BY <1>1, <1>2, <1>5, <1>6, <1>7, <1>12, <1>13, <1>14, <1>15 DEF ws, c, FreshWrite

\* What send() writes, and what it leaves of the numbers.
LEMMA SendRun ==
  ASSUME TypeOK, PendingMatches, NEW p \in Ends, NEW k \in Kinds, send(p, k), Numbered(p)
  PROVE  \E ws \in Seq(Messages) :
           /\ FreshWrite(p, ws) /\ (ws # <<>> => ~handleQueue[p].on)
           /\ handleQueue[p].on => handleQueue'[p].on
           /\ pending'[p] = pending[p] \/ pending'[p] = 0 \/ pending'[p] > Base(p)
<1> DEFINE m == Msg(k, sends[p] + 1)
           ms == <<m>>
           Q == handleQueue[p]
<1>1. /\ MaxSends[p] \in Nat /\ sends[p] \in Nat /\ pending[p] \in Nat
      /\ retransmissions[p] \in Nat /\ Len(Q.q) \in Nat /\ Q \in Queues
      /\ \A i \in 1 .. MaxSends[p] : i \in Nat /\ writes[p][i] \in Nat
  BY WritesNat
<1>2. k \in UserKinds
  BY IpcAssumption DEF UserKinds
<1>3. m \in Messages /\ m.id = sends[p] + 1 /\ m.k = k /\ ~m.wraps /\ (IsHandle(m) => m.has)
  <2>1. m \in Messages
    BY <1>1, <1>2, MessageTypes DEF UserKinds
  <2> QED BY <2>1, <1>2 DEF Msg, IsHandle, UserKinds
<1>4. ms \in Seq(Messages) /\ Len(ms) = 1 /\ ms[1] = m
  BY <1>3
<1>5. sends'[p] = sends[p] + 1 /\ sends[p] < MaxSends[p]
  BY DEF send, TypeOK
<1>6. SendAll(p, Q, pending[p], retransmissions[p], ms)
  BY DEF send
<1>7. Base(p) \in Nat
  BY <1>1 DEF Numbered, Base
<1> HIDE DEF m, ms
<1>8. CASE ~Q.on
  <2>1. pending[p] = 0
    BY <1>8 DEF PendingMatches
  <2>2. Q.q = <<>> /\ Base(p) = sends[p]
    BY <1>8, <1>1 DEF Numbered, Base
  <2>3. Given(ms, Base(p))
    BY <1>2, <1>3, <1>4, <2>2 DEF Given
  <2>4. FreshWrite(p, Written(Q, ms)) /\ (pending'[p] = 0 \/ pending'[p] > Base(p))
    <3>1. sends'[p] = Base(p) + Len(ms) /\ Base(p) + Len(ms) <= MaxSends[p]
      BY <1>1, <1>4, <1>5, <2>2
    <3>2. \A i \in 1 .. MaxSends[p] : i > Base(p) => writes[p][i] = 0
      BY DEF Numbered
    <3>3. SendAll(p, Q, 0, retransmissions[p], ms)
      BY <1>6, <2>1
    <3> HIDE DEF Q
    <3> QED BY <3>1, <3>2, <3>3, <1>1, <1>4, <1>7, <1>8, <2>2, <2>3, FreshRun DEF Q
  <2>5. Written(Q, ms) \in Seq(Messages)
    BY <1>1, <1>4, WrittenType
  <2> QED BY <2>4, <2>5, <1>8
<1>9. CASE Q.on
  <2>1. Written(Q, ms) = <<>> /\ QueueAfter(Q, ms) = [Q EXCEPT !.q = @ \o ms]
    BY <1>9 DEF Written, QueueAfter
  <2>2. ~Posted(<<>>) /\ <<>> \in Seq(Messages) /\ Len(<<>>) = 0
    BY EmptySeq DEF Posted
  <2>3. /\ Write(p, <<>>) /\ pending'[p] = pending[p] /\ retransmissions'[p] = retransmissions[p]
        /\ handleQueue'[p] = [Q EXCEPT !.q = @ \o ms]
    BY <1>6, <2>1, <2>2 DEF SendAll, TypeOK
  <2>4. handleQueue'[p].on /\ handleQueue'[p].q = Q.q \o ms
    BY <2>3, <1>1, <1>9 DEF Queues
  <2>5. /\ Len(Q.q \o ms) = Len(Q.q) + 1 /\ (Q.q \o ms)[Len(Q.q) + 1] = m
        /\ \A i \in 1 .. Len(Q.q) : (Q.q \o ms)[i] = Q.q[i]
    <3>1. Q.q \in Seq(Messages)
      BY <1>1 DEF Queues
    <3> QED BY <3>1, <1>4, ConcatProperties
  <2>6. Base(p)' = Base(p)
    <3>1. Base(p)' = sends'[p] - Len(handleQueue'[p].q)
      BY DEF Base
    <3> QED BY <3>1, <2>4, <2>5, <1>1, <1>5 DEF Base
  <2>7. \A i \in 1 .. MaxSends[p] : writes'[p][i] = writes[p][i]
    <3> DEFINE e == <<>>
    <3>1. DOMAIN e = {} /\ e \in Seq(Messages)
      BY <2>2
    <3>2. Write(p, e)
      BY <2>3
    <3> HIDE DEF e
    <3>3. \A j, l \in DOMAIN e : e[j].id = e[l].id => j = l
      BY <3>1
    <3>4. \A i \in 1 .. MaxSends[p] :
            writes'[p][i] = writes[p][i] + (IF \E j \in DOMAIN e : e[j].id = i THEN 1 ELSE 0)
      BY <3>1, <3>2, <3>3, WriteCounts
    <3> QED BY <3>1, <3>4, <1>1
  <2>8. Given(handleQueue'[p].q, Base(p))
    <3> SUFFICES ASSUME NEW i \in 1 .. (Len(Q.q) + 1), NEW x, x = (Q.q \o ms)[i]
                 PROVE  /\ x.id = Base(p) + i /\ x.k \in UserKinds
                        /\ ~x.wraps /\ (IsHandle(x) => x.has)
      BY <2>4, <2>5 DEF Given
    <3>1. CASE i = Len(Q.q) + 1
      <4>1. x = m
        BY <3>1, <2>5
      <4>2. Base(p) + i = sends[p] + 1
        BY <3>1, <1>1 DEF Base
      <4> QED BY <4>1, <4>2, <1>2, <1>3
    <3>2. CASE i \in 1 .. Len(Q.q)
      <4>1. x = Q.q[i]
        BY <3>2, <2>5
      <4> QED BY <4>1, <3>2 DEF Numbered, Given
    <3>3. i = Len(Q.q) + 1 \/ i \in 1 .. Len(Q.q)
      BY <1>1
    <3> QED BY <3>1, <3>2, <3>3
  <2>9. Numbered(p)'
    <3>1. sends'[p] <= MaxSends[p] /\ Len(handleQueue'[p].q) <= sends'[p]
      BY <1>1, <1>5, <2>4, <2>5 DEF Numbered
    <3>2. pending'[p] <= Base(p)'
      BY <2>3, <2>6 DEF Numbered
    <3>3. \A i \in 1 .. MaxSends[p] : i > Base(p)' => writes'[p][i] = 0
      BY <2>6, <2>7 DEF Numbered
    <3>4. pending'[p] # 0 => /\ writes'[p][pending'[p]] = retransmissions'[p] + 1
                             /\ retransmissions'[p] <= MAX_HANDLE_RETRANSMISSIONS
      <4> SUFFICES ASSUME pending[p] # 0
                   PROVE  /\ writes'[p][pending[p]] = retransmissions[p] + 1
                          /\ retransmissions[p] <= MAX_HANDLE_RETRANSMISSIONS
        BY <2>3
      <4>1. pending[p] \in 1 .. MaxSends[p]
        BY <1>1, <1>7 DEF Numbered, Base
      <4> QED BY <4>1, <2>7 DEF Numbered
    <3>5. Given(handleQueue'[p].q, Base(p)')
      BY <2>6, <2>8
    <3> QED BY <3>1, <3>2, <3>3, <3>4, <3>5, <2>4 DEF Numbered
  <2>10. Given(<<>>, Base(p)) /\ Base(p)' = Base(p) + Len(<<>>)
    BY <2>6, <1>7 DEF Given
  <2>11. (Bounded(p) => Bounded(p)') /\ (Retried(p)' => Retried(p))
    BY <2>7 DEF Bounded, Retried
  <2>12. FreshWrite(p, <<>>)
    BY <2>2, <2>3, <2>9, <2>10, <2>11 DEF FreshWrite
  <2> QED BY <2>2, <2>3, <2>4, <2>12
<1> QED BY <1>8, <1>9

\* What the ACK of the pending handle writes, or any answer when there is none.
LEMMA AckRun ==
  ASSUME TypeOK, NEW p \in Ends, EmitAck(p), Numbered(p), AckPending(p) = 0
  PROVE  \E ws \in Seq(Messages) : /\ FreshWrite(p, ws)
                                   /\ pending'[p] = 0 \/ pending'[p] > Base(p)
<1> DEFINE q == handleQueue[p].q
           ws == Written(Off, q)
<1>1. /\ MaxSends[p] \in Nat /\ sends[p] \in Nat /\ Len(q) \in Nat
      /\ handleQueue[p] \in Queues /\ retransmissions[p] \in Nat
  BY WritesNat
<1>2. q \in Seq(Messages) /\ Off \in Queues /\ ~Off.on /\ Off.q = <<>>
  BY <1>1, AckTypes DEF Queues, Off
<1>3. AckSends(p) = q
  <2>1. AckSends(p) = <<>> \o q
    BY DEF AckSends
  <2> QED BY <2>1, <1>2, ConcatEmptySeq
<1>4. SendAll(p, Off, 0, AckRetries(p), q) /\ sends'[p] = sends[p]
  BY <1>3, EmitAckParts
<1>5. AckRetries(p) \in Nat
  BY AckTypes
<1>6. /\ Base(p) \in Nat /\ Base(p) + Len(q) = sends[p] /\ sends[p] <= MaxSends[p]
      /\ Given(q, Base(p)) /\ \A i \in 1 .. MaxSends[p] : i > Base(p) => writes[p][i] = 0
  BY <1>1 DEF Numbered, Base
<1>7. ws \in Seq(Messages)
  BY <1>2, WrittenType
<1> HIDE DEF q
<1>8. FreshWrite(p, ws) /\ (pending'[p] = 0 \/ pending'[p] > Base(p))
  BY <1>2, <1>4, <1>5, <1>6, FreshRun
<1> QED BY <1>7, <1>8

\* What a NACK of the pending handle does while there are attempts left: the
\* handle alone is written again, and the queue stays as it is.
LEMMA AckAgain ==
  ASSUME TypeOK, NEW p \in Ends, EmitAck(p), Numbered(p), AckPending(p) # 0
  PROVE  /\ Write(p, <<Rewrapped(pending[p])>>) /\ Head(ticks[p]).k = "NODE_HANDLE_NACK"
         /\ handleQueue'[p].on /\ handleQueue'[p].q = handleQueue[p].q /\ Base(p)' = Base(p)
         /\ pending'[p] = pending[p] /\ closed'[p] = closed[p]
         /\ Numbered(p)' /\ (Bounded(p) => Bounded(p)') /\ Retried(p)'
<1> DEFINE q == handleQueue[p].q
           P == pending[p]
           m == Rewrapped(P)
           ws == <<m>>
           ms == ws \o q
<1>1. /\ MaxSends[p] \in Nat /\ sends[p] \in Nat /\ Len(q) \in Nat /\ P \in Nat
      /\ handleQueue[p] \in Queues /\ retransmissions[p] \in Nat
      /\ \A i \in 1 .. MaxSends[p] : i \in Nat /\ writes[p][i] \in Nat
  BY WritesNat
<1>2. q \in Seq(Messages) /\ Off \in Queues /\ ~Off.on
  BY <1>1, AckTypes DEF Queues, Off
<1>3. ~GivenUp(p, Head(ticks[p])) /\ AckPending(p) = P /\ P # 0
  BY DEF AckPending
<1>4. m \in Messages /\ IsHandle(m) /\ m.k = "native" /\ m.id = P
  <2>1. m \in Messages
    BY <1>1, MessageTypes
  <2> QED BY <2>1 DEF Rewrapped, Msg, IsHandle
<1>5. /\ EmitAck(p) => Head(ticks[p]).k \in {"NODE_HANDLE_ACK", "NODE_HANDLE_NACK"}
      /\ Head(ticks[p]).k # "NODE_HANDLE_ACK" /\ retransmissions[p] # MAX_HANDLE_RETRANSMISSIONS
  BY <1>3 DEF EmitAck, Emitting, GivenUp
<1>6. /\ AckSends(p) = ms /\ AckRetries(p) = retransmissions[p] + 1
      /\ SendAll(p, Off, P, retransmissions[p] + 1, ms) /\ sends'[p] = sends[p]
      /\ closed'[p] = closed[p]
  <2>1. AckSends(p) = ms /\ AckRetries(p) = retransmissions[p] + 1
    BY <1>3 DEF AckSends, AckRetries
  <2>2. /\ SendAll(p, Off, AckPending(p), AckRetries(p), AckSends(p)) /\ sends' = sends
        /\ closed' = [closed EXCEPT ![p] =
                        IF GivenUp(p, Head(ticks[p])) THEN Append(closed[p], pending[p]) ELSE closed[p]]
    BY EmitAckParts
  <2>3. closed'[p] = closed[p]
    BY <2>2, <1>3 DEF TypeOK
  <2>4. SendAll(p, Off, P, retransmissions[p] + 1, ms)
    BY <2>1, <2>2, <1>3
  <2> QED BY <2>1, <2>2, <2>3, <2>4
<1> HIDE DEF m
<1>7. ws \in Seq(Messages) /\ Len(ws) = 1 /\ ws[1] = m
  BY <1>4
<1>8. /\ ms \in Seq(Messages) /\ Len(ms) = Len(q) + 1 /\ ms[1] = m
      /\ \A i \in 1 .. Len(q) : ms[i + 1] = q[i]
  <2> HIDE DEF q, ws
  <2>1. ws \o q \in Seq(Messages) /\ Len(ws \o q) = Len(ws) + Len(q)
    BY <1>2, <1>7, ConcatProperties
  <2>2. \A i \in 1 .. (Len(ws) + Len(q)) :
          (ws \o q)[i] = IF i <= Len(ws) THEN ws[i] ELSE q[i - Len(ws)]
    BY <1>2, <1>7, ConcatProperties
  <2> QED BY <2>1, <2>2, <1>1, <1>7 DEF q
<1>9. Written(Off, ms) = ws /\ QueueAfter(Off, ms) = [on |-> TRUE, q |-> q]
  <2>1. FirstHandle(ms) = {1}
    <3> HIDE DEF ms, ws
    <3>1. DOMAIN ms = 1 .. Len(ms) /\ Len(ms) \in Nat /\ Len(ms) > 0
      BY <1>1, <1>8
    <3>2. IsHandle(ms[1])
      BY <1>4, <1>8
    <3> QED BY <3>1, <3>2 DEF FirstHandle
  <2>2. Cut(ms) = 1
    BY <2>1 DEF Cut
  <2> HIDE DEF ms, ws, q
  <2>3. Written(Off, ms) = SubSeq(ms, 1, 1)
        /\ QueueAfter(Off, ms) = [on |-> TRUE, q |-> SubSeq(ms, 2, Len(ms))]
    BY <1>2, <2>1, <2>2 DEF Written, QueueAfter
  <2>4. SubSeq(ms, 1, 1) = ws
    <3>1. SubSeq(ms, 1, 1) \in Seq(Messages) /\ Len(SubSeq(ms, 1, 1)) = 1
          /\ SubSeq(ms, 1, 1)[1] = ms[1]
      BY <1>1, <1>8, SubSeqProperties
    <3> QED BY <3>1, <1>7, <1>8, SeqEqual
  <2>5. SubSeq(ms, 2, Len(ms)) = q
    <3>1. SubSeq(ms, 2, Len(ms)) \in Seq(Messages) /\ Len(SubSeq(ms, 2, Len(ms))) = Len(q)
          /\ \A i \in 1 .. Len(q) : SubSeq(ms, 2, Len(ms))[i] = ms[i + 1]
      BY <1>1, <1>8, SubSeqProperties DEF q
    <3> QED BY <3>1, <1>2, <1>8, SeqEqual
  <2> QED BY <2>3, <2>4, <2>5
<1> HIDE DEF ms
<1>10. ~Posted(ws)
  BY <1>4, <1>7 DEF Posted
<1>11. /\ handleQueue'[p] = [on |-> TRUE, q |-> q] /\ pending'[p] = P
       /\ retransmissions'[p] = retransmissions[p] + 1 /\ Write(p, ws)
  BY <1>6, <1>9, <1>10 DEF SendAll, TypeOK
<1>12. Base(p)' = Base(p)
  <2>1. Base(p)' = sends'[p] - Len(handleQueue'[p].q)
    BY DEF Base
  <2> QED BY <2>1, <1>6, <1>11 DEF Base
<1>13. \A i \in 1 .. MaxSends[p] : writes'[p][i] = writes[p][i] + (IF i = P THEN 1 ELSE 0)
  <2> HIDE DEF ws
  <2>1. DOMAIN ws = {1} /\ \A j, l \in DOMAIN ws : ws[j].id = ws[l].id => j = l
    BY <1>7
  <2>2. \A i \in 1 .. MaxSends[p] :
          writes'[p][i] = writes[p][i] + (IF \E j \in DOMAIN ws : ws[j].id = i THEN 1 ELSE 0)
    BY <2>1, <1>7, <1>11, WriteCounts
  <2> QED BY <2>1, <2>2, <1>4, <1>7
<1>14. /\ P \in 1 .. MaxSends[p] /\ writes[p][P] = retransmissions[p] + 1
       /\ retransmissions[p] < 3
  <2>1. retransmissions[p] # 3 /\ retransmissions[p] <= 3 /\ writes[p][P] = retransmissions[p] + 1
    BY <1>3, <1>5 DEF Numbered, MAX_HANDLE_RETRANSMISSIONS
  <2>2. P <= sends[p] /\ sends[p] <= MaxSends[p]
    BY <1>1 DEF Numbered, Base
  <2> QED BY <2>1, <2>2, <1>1, <1>3
<1>15. writes'[p][P] = retransmissions[p] + 2
  BY <1>1, <1>13, <1>14
<1>16. Numbered(p)'
  <2>1. /\ sends'[p] <= MaxSends[p] /\ Len(handleQueue'[p].q) <= sends'[p]
        /\ pending'[p] <= Base(p)' /\ handleQueue'[p].on /\ Given(handleQueue'[p].q, Base(p)')
    BY <1>6, <1>11, <1>12 DEF Numbered
  <2>2. \A i \in 1 .. MaxSends[p] : i > Base(p)' => writes'[p][i] = 0
    <3> SUFFICES ASSUME NEW i \in 1 .. MaxSends[p], i > Base(p) PROVE writes'[p][i] = 0
      BY <1>12
    <3>1. i \in Nat /\ Base(p) \in Int /\ P <= Base(p) /\ writes[p][i] = 0
      BY <1>1 DEF Numbered, Base
    <3>2. i # P /\ i \in Nat
      BY <3>1, <1>1
    <3>3. writes'[p][i] = writes[p][i] + 0
      BY <3>2, <1>13
    <3> QED BY <3>1, <3>3
  <2>3. /\ writes'[p][pending'[p]] = retransmissions'[p] + 1
        /\ retransmissions'[p] <= MAX_HANDLE_RETRANSMISSIONS
    BY <1>1, <1>11, <1>14, <1>15 DEF MAX_HANDLE_RETRANSMISSIONS
  <2> QED BY <2>1, <2>2, <2>3 DEF Numbered
<1>17. Bounded(p) => Bounded(p)'
  <2> SUFFICES ASSUME Bounded(p), NEW i \in 1 .. MaxSends[p] PROVE writes'[p][i] <= 4
    BY DEF Bounded, MAX_HANDLE_RETRANSMISSIONS
  <2>1. writes[p][i] \in Nat /\ writes[p][i] <= 4
    BY WritesNat DEF Bounded, MAX_HANDLE_RETRANSMISSIONS
  <2>2. CASE i = P
    BY <2>2, <1>1, <1>14, <1>15
  <2>3. CASE i # P
    <3>1. writes'[p][i] = writes[p][i] + 0
      BY <2>3, <1>13
    <3> QED BY <3>1, <2>1
  <2> QED BY <2>2, <2>3
<1>18. Retried(p)'
  BY <1>1, <1>14, <1>15 DEF Retried
<1> QED BY <1>5, <1>6, <1>11, <1>12, <1>16, <1>17, <1>18 DEF ws, m

\* What a message of the channel itself (its number is 0) counts as: nothing.
LEMMA UncountedWrite ==
  ASSUME TypeOK, NEW p \in Ends, NEW m \in Messages, m.id = 0, Write(p, <<m>>)
  PROVE  /\ \A i \in 1 .. MaxSends[p] : writes'[p][i] = writes[p][i]
         /\ \A e \in Ends : e # p => writes'[e] = writes[e]
<1> DEFINE ws == <<m>>
<1>1. ws \in Seq(Messages) /\ DOMAIN ws = {1} /\ ws[1] = m
  OBVIOUS
<1>2. Write(p, ws)
  OBVIOUS
<1>3. \A i \in 1 .. MaxSends[p] : i \in Nat /\ i # 0 /\ writes[p][i] \in Nat
  BY WritesNat
<1> HIDE DEF ws
<1>4. \A j, l \in DOMAIN ws : ws[j].id = ws[l].id => j = l
  BY <1>1
<1>5. /\ \A i \in 1 .. MaxSends[p] :
           writes'[p][i] = writes[p][i] + (IF \E j \in DOMAIN ws : ws[j].id = i THEN 1 ELSE 0)
      /\ \A e \in Ends : e # p => writes'[e] = writes[e]
  BY <1>1, <1>2, <1>4, WriteCounts
<1>6. \A i \in 1 .. MaxSends[p] : ~\E j \in DOMAIN ws : ws[j].id = i
  BY <1>1, <1>3
<1> QED BY <1>3, <1>5, <1>6

\* A handle that is closed leaves nothing pending: what was closed stays
\* different from what is still to be closed.
LEMMA ClosingsKept ==
  ASSUME TypeOK, NEW p \in Ends, Closings(p), Base(p) \in Nat, Base(p)' \in Nat,
         pending[p] <= Base(p), Base(p) <= Base(p)', TypeOK',
         \/ closed'[p] = closed[p] /\ pending'[p] = pending[p]
         \/ /\ \/ closed'[p] = closed[p]
               \/ (pending[p] # 0 /\ closed'[p] = Append(closed[p], pending[p]))
            /\ pending'[p] = 0 \/ pending'[p] > Base(p)
  PROVE  Closings(p)'
<1>1. closed[p] \in Seq(Nat) /\ pending[p] \in Nat /\ pending'[p] \in Nat
  BY DEF TypeOK
<1>2. DOMAIN closed[p] = 1 .. Len(closed[p]) /\ Len(closed[p]) \in Nat
      /\ \A i \in DOMAIN closed[p] : closed[p][i] \in Nat
  BY <1>1
<1>3. CASE closed'[p] = closed[p]
  <2>1. ASSUME NEW i \in DOMAIN closed[p]
        PROVE  closed[p][i] # 0 /\ closed[p][i] <= Base(p)' /\ closed[p][i] # pending'[p]
    <3>1. closed[p][i] \in Nat /\ closed[p][i] # 0 /\ closed[p][i] <= Base(p)
          /\ closed[p][i] # pending[p]
      BY <1>2 DEF Closings
    <3>2. pending'[p] = pending[p] \/ pending'[p] = 0 \/ pending'[p] > Base(p)
      OBVIOUS
    <3> QED BY <3>1, <3>2, <1>1
  <2> QED BY <2>1, <1>3 DEF Closings
<1>4. CASE /\ pending[p] # 0 /\ closed'[p] = Append(closed[p], pending[p])
           /\ pending'[p] = 0 \/ pending'[p] > Base(p)
  <2> DEFINE n == Len(closed[p])
             s == Append(closed[p], pending[p])
  <2>1. DOMAIN s = 1 .. (n + 1) /\ s[n + 1] = pending[p] /\ \A i \in 1 .. n : s[i] = closed[p][i]
    BY <1>1, <1>2
  <2>2. \A i \in 1 .. n : /\ s[i] \in Nat /\ s[i] # 0 /\ s[i] <= Base(p) /\ s[i] # pending[p]
    BY <2>1, <1>2 DEF Closings
  <2>3. \A i \in 1 .. (n + 1) : s[i] \in Nat /\ s[i] # 0 /\ s[i] <= Base(p)
    BY <2>1, <2>2, <1>1, <1>2, <1>4
  <2>4. \A i \in 1 .. (n + 1) : s[i] # pending'[p] /\ s[i] <= Base(p)'
    BY <2>3, <1>1, <1>4
  <2>5. \A i, j \in 1 .. n : i # j => s[i] # s[j]
    BY <2>1, <1>2 DEF Closings
  <2>6. \A i, j \in 1 .. (n + 1) : i # j => s[i] # s[j]
    <3> HIDE DEF s
    <3> SUFFICES ASSUME NEW i \in 1 .. (n + 1), NEW j \in 1 .. (n + 1), i # j PROVE s[i] # s[j]
      OBVIOUS
    <3>1. n \in Nat
      BY <1>2
    <3>2. CASE i = n + 1
      BY <3>1, <3>2, <2>1, <2>2
    <3>3. CASE j = n + 1
      BY <3>1, <3>3, <2>1, <2>2
    <3>4. CASE i # n + 1 /\ j # n + 1
      BY <3>1, <3>4, <2>5
    <3> QED BY <3>2, <3>3, <3>4
  <2> HIDE DEF s
  <2>7. closed'[p] = s
    BY <1>4 DEF s
  <2> QED BY <2>1, <2>3, <2>4, <2>6, <2>7 DEF Closings
<1> QED BY <1>3, <1>4

\* Settled depends on these variables of its end.
SameSends(e) ==
  /\ handleQueue'[e] = handleQueue[e] /\ sends'[e] = sends[e] /\ pending'[e] = pending[e]
  /\ retransmissions'[e] = retransmissions[e] /\ closed'[e] = closed[e]
  /\ \A i \in 1 .. MaxSends[e] : writes'[e][i] = writes[e][i]

\* If those are the same, so is what it says.
LEMMA SameSettled ==
  ASSUME TypeOK, NEW e \in Ends, SameSends(e), Settled(e)
  PROVE  Settled(e)' /\ Base(e)' = Base(e) /\ (Retried(e)' <=> Retried(e))
<1>1. Base(e)' = Base(e)
  BY DEF SameSends, Base
<1>2. /\ MaxSends[e] \in Nat /\ sends[e] \in Nat /\ pending[e] \in Nat
      /\ Len(handleQueue[e].q) \in Nat
  BY WritesNat
<1>3. Closings(e)' /\ Bounded(e)'
  BY <1>1 DEF SameSends, Settled, Closings, Bounded
<1>4. pending[e] # 0 => pending[e] \in 1 .. MaxSends[e]
  BY <1>2 DEF Settled, Numbered, Base
<1>5. Given(handleQueue'[e].q, Base(e)')
  BY <1>1 DEF SameSends, Settled, Numbered
<1>6. \A i \in 1 .. MaxSends[e] : i > Base(e)' => writes'[e][i] = 0
  BY <1>1 DEF SameSends, Settled, Numbered
<1>7. pending'[e] # 0 => /\ writes'[e][pending'[e]] = retransmissions'[e] + 1
                         /\ retransmissions'[e] <= MAX_HANDLE_RETRANSMISSIONS
  BY <1>4 DEF SameSends, Settled, Numbered
<1>8. Numbered(e)'
  BY <1>1, <1>5, <1>6, <1>7 DEF SameSends, Settled, Numbered
<1> QED BY <1>1, <1>3, <1>8 DEF Settled, Retried, SameSends

\* A step of one end leaves what the other one sent and queued alone.
LEMMA OtherSends ==
  ASSUME TypeOK, NEW p \in Ends, NEW e \in Ends, e # p,
         \/ \E k \in Kinds : send(p, k)
         \/ disconnect(p) \/ Crash(p) \/ Reading(p) \/ Tick(p)
  PROVE  SameSends(e)
<1>1. ASSUME NEW Q, NEW P, NEW n, NEW ms, SendAll(p, Q, P, n, ms)
      PROVE  /\ handleQueue'[e] = handleQueue[e] /\ pending'[e] = pending[e]
             /\ retransmissions'[e] = retransmissions[e] /\ writes'[e] = writes[e]
  BY <1>1 DEF TypeOK, SendAll, Write
<1>2. ASSUME NEW k \in Kinds, send(p, k) PROVE SameSends(e)
  <2>1. sends'[e] = sends[e] /\ closed'[e] = closed[e]
    BY <1>2 DEF TypeOK, send
  <2>2. /\ handleQueue'[e] = handleQueue[e] /\ pending'[e] = pending[e]
        /\ retransmissions'[e] = retransmissions[e] /\ writes'[e] = writes[e]
    BY <1>1, <1>2 DEF send
  <2> QED BY <2>1, <2>2 DEF SameSends
<1>3. CASE EmitAck(p)
  <2>1. /\ sends' = sends /\ SendAll(p, Off, AckPending(p), AckRetries(p), AckSends(p))
        /\ closed' = [closed EXCEPT ![p] =
                        IF GivenUp(p, Head(ticks[p])) THEN Append(closed[p], pending[p]) ELSE closed[p]]
    BY <1>3, EmitAckParts
  <2>2. closed'[e] = closed[e]
    BY <2>1 DEF TypeOK
  <2> QED BY <1>1, <2>1, <2>2 DEF SameSends
<1>4. ASSUME disconnect(p) \/ ReadEOF(p) PROVE SameSends(e)
  <2>1. UNCHANGED <<handleQueue, retransmissions, sends, writes>>
        /\ (UNCHANGED <<pending, closed>> \/ _disconnect(p))
    BY <1>4 DEF disconnect, ReadEOF
  <2> QED BY <2>1 DEF SameSends, _disconnect, TypeOK
<1>5. CASE EmitHandle(p)
  <2>1. UNCHANGED <<handleQueue, pending, retransmissions, sends, closed>>
    BY <1>5 DEF EmitHandle
  <2>2. writes'[e] = writes[e]
    BY <1>5 DEF EmitHandle, Write, TypeOK
  <2> QED BY <2>1, <2>2 DEF SameSends
<1>6. ASSUME Crash(p) \/ EmitAckFails(p) \/ EmitHandleFails(p) \/ EmitMessage(p) \/ RunFinish(p)
      PROVE  SameSends(e)
  BY <1>6 DEF SameSends, Crash, EmitAckFails, EmitHandleFails, Die, EmitMessage, RunFinish
<1>7. ASSUME NEW n, NEW drop, Read(p, n, drop) PROVE SameSends(e)
  BY <1>7 DEF SameSends, Read
<1> QED BY <1>2, <1>3, <1>4, <1>5, <1>6, <1>7 DEF Reading, Tick

\* Every step of an end keeps what it sent and queued settled.
LEMMA SettledStep ==
  ASSUME TypeOK, TypeOK', PendingMatches, NEW p \in Ends, Settled(p),
         \/ \E k \in Kinds : send(p, k)
         \/ disconnect(p) \/ Crash(p) \/ Reading(p) \/ Tick(p)
  PROVE  Settled(p)'
<1>1. /\ MaxSends[p] \in Nat /\ sends[p] \in Nat /\ pending[p] \in Nat
      /\ Len(handleQueue[p].q) \in Nat
  BY WritesNat
<1>2. Base(p) \in Nat /\ pending[p] <= Base(p) /\ Numbered(p) /\ Bounded(p) /\ Closings(p)
  BY <1>1 DEF Settled, Numbered, Base
<1>3. ASSUME NEW k \in Kinds, send(p, k) PROVE Settled(p)'
  <2>1. PICK ws \in Seq(Messages) :
          /\ FreshWrite(p, ws)
          /\ pending'[p] = pending[p] \/ pending'[p] = 0 \/ pending'[p] > Base(p)
    BY <1>2, <1>3, SendRun
  <2>2. Base(p)' = Base(p) + Len(ws) /\ Len(ws) \in Nat /\ Numbered(p)' /\ Bounded(p)'
    BY <2>1, <1>2, LenProperties DEF FreshWrite
  <2>3. closed'[p] = closed[p]
    BY <1>3 DEF send
  <2>4. Base(p)' \in Nat /\ Base(p) <= Base(p)'
    BY <1>2, <2>2
  <2>5. Closings(p)'
    BY <1>2, <2>1, <2>3, <2>4, ClosingsKept
  <2> QED BY <2>2, <2>5 DEF Settled
<1>4. CASE EmitAck(p)
  <2>1. CASE AckPending(p) = 0
    <3>1. PICK ws \in Seq(Messages) :
            FreshWrite(p, ws) /\ (pending'[p] = 0 \/ pending'[p] > Base(p))
      BY <1>2, <1>4, <2>1, AckRun
    <3>2. Base(p)' = Base(p) + Len(ws) /\ Len(ws) \in Nat /\ Numbered(p)' /\ Bounded(p)'
      BY <3>1, <1>2, LenProperties DEF FreshWrite
    <3>3. closed'[p] = closed[p] \/ (pending[p] # 0 /\ closed'[p] = Append(closed[p], pending[p]))
      <4>1. closed' = [closed EXCEPT ![p] =
                         IF GivenUp(p, Head(ticks[p])) THEN Append(closed[p], pending[p])
                                                       ELSE closed[p]]
        BY <1>4, EmitAckParts
      <4> QED BY <4>1 DEF TypeOK, GivenUp
    <3>4. Base(p)' \in Nat /\ Base(p) <= Base(p)'
      BY <1>2, <3>2
    <3>5. Closings(p)'
      BY <1>2, <3>1, <3>3, <3>4, ClosingsKept
    <3> QED BY <3>2, <3>5 DEF Settled
  <2>2. CASE AckPending(p) # 0
    <3>1. /\ Base(p)' = Base(p) /\ pending'[p] = pending[p] /\ closed'[p] = closed[p]
          /\ Numbered(p)' /\ Bounded(p)'
      BY <1>2, <1>4, <2>2, AckAgain
    <3>2. Closings(p)'
      BY <1>2, <3>1, ClosingsKept
    <3> QED BY <3>1, <3>2 DEF Settled
  <2> QED BY <2>1, <2>2
<1>5. ASSUME disconnect(p) \/ ReadEOF(p) PROVE Settled(p)'
  <2>1. /\ UNCHANGED <<handleQueue, retransmissions, sends, writes>>
        /\ UNCHANGED <<pending, closed>> \/ _disconnect(p)
    BY <1>5 DEF disconnect, ReadEOF
  <2>2. CASE UNCHANGED <<pending, closed>>
    <3>1. SameSends(p)
      BY <2>1, <2>2 DEF SameSends
    <3> QED BY <3>1, SameSettled
  <2>3. CASE _disconnect(p)
    <3>1. pending'[p] = 0 /\ closed'[p] = closePendingHandle(p) /\ Base(p)' = Base(p)
      BY <2>1, <2>3 DEF _disconnect, TypeOK, Base
    <3>2. closed'[p] = closed[p] \/ (pending[p] # 0 /\ closed'[p] = Append(closed[p], pending[p]))
      BY <3>1 DEF closePendingHandle
    <3>3. Closings(p)'
      BY <1>2, <3>1, <3>2, ClosingsKept
    <3>4. Numbered(p)' /\ Bounded(p)'
      BY <1>2, <2>1, <3>1 DEF Numbered, Bounded
    <3> QED BY <3>3, <3>4 DEF Settled
  <2> QED BY <2>1, <2>2, <2>3
<1>6. CASE EmitHandle(p)
  <2>1. UNCHANGED <<handleQueue, pending, retransmissions, sends, closed>>
    BY <1>6 DEF EmitHandle
  <2>2. \A i \in 1 .. MaxSends[p] : writes'[p][i] = writes[p][i]
    <3>1. \E m \in {Ack, Nack} : Write(p, <<m>>)
      BY <1>6 DEF EmitHandle
    <3>2. \A m \in {Ack, Nack} : m \in Messages /\ m.id = 0
      BY MessageTypes DEF Ack, Nack, Msg
    <3> QED BY <3>1, <3>2, UncountedWrite
  <2>3. SameSends(p)
    BY <2>1, <2>2 DEF SameSends
  <2> QED BY <2>3, SameSettled
<1>7. ASSUME Crash(p) \/ EmitAckFails(p) \/ EmitHandleFails(p) \/ EmitMessage(p) \/ RunFinish(p)
      PROVE  Settled(p)'
  <2>1. SameSends(p)
    BY <1>7 DEF SameSends, Crash, EmitAckFails, EmitHandleFails, Die, EmitMessage, RunFinish
  <2> QED BY <2>1, SameSettled
<1>8. ASSUME NEW n, NEW drop, Read(p, n, drop) PROVE Settled(p)'
  <2>1. SameSends(p)
    BY <1>8 DEF SameSends, Read
  <2> QED BY <2>1, SameSettled
<1> QED BY <1>3, <1>4, <1>5, <1>6, <1>7, <1>8 DEF Reading, Tick

\* What is pending was never closed and is the last one written, and what is
\* queued was never written.
LEMMA EndsSettled == Spec => [](\A p \in Ends : Settled(p))
<1> DEFINE SInv == \A p \in Ends : Settled(p)
<1>1. Init => SInv
  <2> SUFFICES ASSUME Init, NEW p \in Ends PROVE Settled(p)
    OBVIOUS
  <2>1. /\ handleQueue[p] = Off /\ pending[p] = 0 /\ sends[p] = 0 /\ closed[p] = <<>>
        /\ \A i \in 1 .. MaxSends[p] : writes[p][i] = 0
    BY DEF Init
  <2>2. Base(p) = 0 /\ MaxSends[p] \in Nat
    <3>1. handleQueue[p].q = <<>> /\ Len(<<>>) = 0
      BY <2>1, EmptySeq DEF Off
    <3>2. MaxSends[p] \in Nat
      BY IpcAssumption
    <3>3. Base(p) = sends[p] - Len(handleQueue[p].q) /\ sends[p] = 0
      BY <2>1 DEF Base
    <3>4. Len(handleQueue[p].q) = 0
      BY <3>1
    <3> QED BY <3>2, <3>3, <3>4
  <2>3. Numbered(p)
    BY <2>1, <2>2 DEF Numbered, Given, Off
  <2>4. Closings(p) /\ Bounded(p)
    BY <2>1, <2>2 DEF Closings, Bounded, MAX_HANDLE_RETRANSMISSIONS
  <2> QED BY <2>3, <2>4 DEF Settled
<1>2. TypeOK /\ TypeOK' /\ PendingMatches /\ SInv /\ [Next]_vars => SInv'
  <2> SUFFICES ASSUME TypeOK, TypeOK', PendingMatches, SInv, [Next]_vars, NEW e \in Ends
               PROVE  Settled(e)'
    OBVIOUS
  <2>1. ASSUME NEW p \in Ends,
               \/ \E k \in Kinds : send(p, k)
               \/ disconnect(p) \/ Crash(p) \/ Reading(p) \/ Tick(p)
        PROVE  Settled(e)'
    <3>1. CASE e = p
      BY <2>1, <3>1, SettledStep
    <3>2. CASE e # p
      BY <2>1, <3>2, OtherSends, SameSettled
    <3> QED BY <3>1, <3>2
  <2>2. CASE UNCHANGED vars
    <3>1. SameSends(e)
      BY <2>2 DEF SameSends, vars
    <3> QED BY <3>1, SameSettled
  <2> QED BY <2>1, <2>2 DEF Next
<1>3. Spec => []SInv
  <2> HIDE DEF SInv
  <2> QED BY <1>1, <1>2, TypeCorrect, OnePending, PTL DEF Spec
<1> QED BY <1>3

\* A handle is written at most 1 + MAX_HANDLE_RETRANSMISSIONS times and closed
\* at most once, for any number of messages and losses and whenever the ends
\* disconnect or die.
THEOREM HandlesAreSettled == Spec => []HandlesSettled
<1>1. (\A p \in Ends : Settled(p)) => HandlesSettled
  BY DEF Settled, Closings, Bounded, HandlesSettled, ClosedOnce, RetriesBounded
<1> QED BY <1>1, EndsSettled, PTL

-----------------------------------------------------------------------------
(* Counting the messages under way                                         *)

\* A set of numbers has as many members wherever it is moved to.
LEMMA ShiftedSet ==
  ASSUME NEW S, IsFiniteSet(S), S \subseteq Int, NEW d \in Int
  PROVE  /\ IsFiniteSet({i + d : i \in S})
         /\ Cardinality({i + d : i \in S}) = Cardinality(S)
<1> DEFINE T == {i + d : i \in S}
           f == [i \in S |-> i + d]
<1>1. f \in [S -> T]
  OBVIOUS
<1>2. \A a, b \in S : f[a] = f[b] => a = b
  OBVIOUS
<1>3. \A t \in T : \E s \in S : f[s] = t
  OBVIOUS
<1>4. f \in Bijection(S, T)
  BY <1>1, <1>2, <1>3 DEF Bijection, Injection, Surjection, IsInjective
<1>5. ExistsBijection(S, T)
  BY <1>4 DEF ExistsBijection
<1> HIDE DEF T, f
<1>6. IsFiniteSet(T) /\ Cardinality(T) = Cardinality(S)
  BY <1>5, FS_Bijection
<1> QED BY <1>6 DEF T

\* A count is a number, and 0 exactly when no message has one of the kinds.
LEMMA CountNat ==
  ASSUME NEW s \in Seq(Messages), NEW K
  PROVE  /\ IsFiniteSet({i \in DOMAIN s : s[i].k \in K})
         /\ CountOf(s, K) \in Nat /\ (CountOf(s, K) = 0 <=> \A i \in DOMAIN s : s[i].k \notin K)
<1> DEFINE S == {i \in DOMAIN s : s[i].k \in K}
<1>1. DOMAIN s = 1 .. Len(s) /\ Len(s) \in Nat
  BY LenProperties
<1>2. IsFiniteSet(DOMAIN s)
  BY <1>1, FS_Interval
<1>3. IsFiniteSet(S)
  BY <1>2, FS_Subset
<1>4. Cardinality(S) \in Nat /\ (Cardinality(S) = 0 <=> S = {})
  BY <1>3, FS_CardinalityType, FS_EmptySet
<1> QED BY <1>3, <1>4 DEF CountOf

(* t and u have the kinds of the two parts of s. *)
Parts(s, t, u) ==
  /\ Len(s) = Len(t) + Len(u)
  /\ \A i \in 1 .. Len(t) : s[i].k = t[i].k
  /\ \A i \in 1 .. Len(u) : s[i + Len(t)].k = u[i].k

\* A sequence that is cut in two is counted in two parts.
LEMMA CountSplit ==
  ASSUME NEW s \in Seq(Messages), NEW t \in Seq(Messages), NEW u \in Seq(Messages), NEW K,
         Parts(s, t, u)
  PROVE  /\ CountOf(s, K) = CountOf(t, K) + CountOf(u, K)
         /\ CountOf(s, K) \in Nat /\ CountOf(t, K) \in Nat /\ CountOf(u, K) \in Nat
<1> DEFINE n == Len(t)
           S == {i \in DOMAIN s : s[i].k \in K}
           T == {i \in DOMAIN t : t[i].k \in K}
           U == {i \in DOMAIN u : u[i].k \in K}
           V == {i + n : i \in U}
<1>0. /\ Len(s) = Len(t) + Len(u) /\ \A i \in 1 .. Len(t) : s[i].k = t[i].k
      /\ \A i \in 1 .. Len(u) : s[i + Len(t)].k = u[i].k
  BY DEF Parts
<1>1. /\ n \in Nat /\ Len(u) \in Nat /\ DOMAIN s = 1 .. (n + Len(u))
      /\ DOMAIN t = 1 .. n /\ DOMAIN u = 1 .. Len(u)
  BY <1>0, LenProperties
<1>2. IsFiniteSet(T) /\ IsFiniteSet(U)
  BY CountNat
<1>3. IsFiniteSet(V) /\ Cardinality(V) = Cardinality(U)
  <2>1. U \subseteq Int /\ n \in Int
    BY <1>1
  <2> HIDE DEF U, n
  <2> QED BY <2>1, <1>2, ShiftedSet
<1>4. T \cap V = {}
  BY <1>1
<1>5. S = T \cup V
  <2> HIDE DEF n
  <2>1. ASSUME NEW i \in S PROVE i \in T \cup V
    <3>1. i \in 1 .. (n + Len(u)) /\ s[i].k \in K
      BY <1>1
    <3>2. CASE i <= n
      <4>1. i \in 1 .. n
        BY <3>1, <3>2, <1>1
      <4>2. i \in T
        BY <3>1, <4>1, <1>0, <1>1 DEF n
      <4> QED BY <4>2
    <3>3. CASE i > n
      <4>1. i - n \in 1 .. Len(u) /\ (i - n) + n = i
        BY <3>1, <3>3, <1>1
      <4>2. i - n \in U
        BY <3>1, <4>1, <1>0, <1>1 DEF n
      <4> QED BY <4>1, <4>2
    <3> QED BY <3>1, <3>2, <3>3, <1>1
  <2>2. ASSUME NEW i \in T PROVE i \in S
    BY <1>0, <1>1 DEF n
  <2>3. ASSUME NEW i \in U PROVE i + n \in S
    BY <1>0, <1>1 DEF n
  <2> QED BY <2>1, <2>2, <2>3
<1>6. Cardinality(T \cup V) = Cardinality(T) + Cardinality(V) - Cardinality(T \cap V)
  <2> HIDE DEF T, V
  <2> QED BY <1>2, <1>3, FS_Union
<1>7. CountOf(s, K) = Cardinality(S) /\ CountOf(t, K) = Cardinality(T)
      /\ CountOf(u, K) = Cardinality(U)
  BY DEF CountOf
<1>8. CountOf(s, K) \in Nat /\ CountOf(t, K) \in Nat /\ CountOf(u, K) \in Nat
  BY CountNat
<1>9. Cardinality(T \cap V) = 0
  BY <1>4, FS_EmptySet
<1> HIDE DEF S, T, U, V
<1> QED BY <1>3, <1>5, <1>6, <1>7, <1>8, <1>9

\* One message.
LEMMA CountSingle ==
  ASSUME NEW m \in Messages, NEW K
  PROVE  CountOf(<<m>>, K) = IF m.k \in K THEN 1 ELSE 0
<1>1. DOMAIN <<m>> = {1} /\ <<m>>[1] = m
  OBVIOUS
<1>2. {i \in DOMAIN <<m>> : <<m>>[i].k \in K} = IF m.k \in K THEN {1} ELSE {}
  BY <1>1
<1> QED BY <1>2, FS_Singleton, FS_EmptySet DEF CountOf

\* What is written to an end.
LEMMA CountConcat ==
  ASSUME NEW s \in Seq(Messages), NEW t \in Seq(Messages), NEW K
  PROVE  /\ s \o t \in Seq(Messages)
         /\ CountOf(s \o t, K) = CountOf(s, K) + CountOf(t, K)
         /\ CountOf(s \o t, K) \in Nat /\ CountOf(s, K) \in Nat /\ CountOf(t, K) \in Nat
<1>1. /\ s \o t \in Seq(Messages) /\ Len(s \o t) = Len(s) + Len(t)
      /\ \A i \in 1 .. Len(s) + Len(t) : (s \o t)[i] = IF i <= Len(s) THEN s[i] ELSE t[i - Len(s)]
  BY ConcatProperties
<1>2. Len(s) \in Nat /\ Len(t) \in Nat
  BY LenProperties
<1> DEFINE r == s \o t
<1>3. r \in Seq(Messages) /\ Len(r) = Len(s) + Len(t)
  BY <1>1
<1>4. \A i \in 1 .. Len(s) : r[i] = s[i]
  BY <1>1, <1>2
<1>5. \A i \in 1 .. Len(t) : r[i + Len(s)] = t[i]
  BY <1>1, <1>2
<1> HIDE DEF r
<1>6. /\ CountOf(r, K) = CountOf(s, K) + CountOf(t, K)
      /\ CountOf(r, K) \in Nat /\ CountOf(s, K) \in Nat /\ CountOf(t, K) \in Nat
  <2>1. Parts(r, s, t)
    BY <1>3, <1>4, <1>5 DEF Parts
  <2> QED BY <2>1, <1>3, CountSplit
<1> QED BY <1>3, <1>6 DEF r

\* What a tick takes away.
LEMMA CountTail ==
  ASSUME NEW s \in Seq(Messages), s # <<>>, NEW K
  PROVE  /\ Tail(s) \in Seq(Messages) /\ Head(s) \in Messages
         /\ CountOf(s, K) = CountOf(Tail(s), K) + (IF Head(s).k \in K THEN 1 ELSE 0)
         /\ CountOf(s, K) \in Nat /\ CountOf(Tail(s), K) \in Nat
<1> DEFINE h == <<Head(s)>>
           u == Tail(s)
<1>1. u \in Seq(Messages) /\ Head(s) \in Messages /\ Head(s) = s[1]
  BY HeadTailProperties
<1>2. Len(s) = 1 + Len(u) /\ \A i \in 1 .. Len(u) : s[i + 1] = u[i]
  BY <1>1
<1>3. h \in Seq(Messages) /\ Len(h) = 1 /\ h[1] = s[1]
  BY <1>1
<1>4. CountOf(h, K) = IF Head(s).k \in K THEN 1 ELSE 0
  BY <1>1, CountSingle
<1> HIDE DEF h, u
<1>5. \A i \in 1 .. Len(h) : s[i].k = h[i].k
  BY <1>3
<1>6. \A i \in 1 .. Len(u) : s[i + Len(h)].k = u[i].k
  BY <1>2, <1>3
<1>7. Len(s) = Len(h) + Len(u)
  BY <1>2, <1>3
<1>8. /\ CountOf(s, K) = CountOf(h, K) + CountOf(u, K)
      /\ CountOf(s, K) \in Nat /\ CountOf(h, K) \in Nat /\ CountOf(u, K) \in Nat
  <2>1. Parts(s, h, u)
    BY <1>5, <1>6, <1>7 DEF Parts
  <2> QED BY <2>1, <1>1, <1>3, CountSplit
<1>9. CountOf(s, K) = CountOf(u, K) + (IF Head(s).k \in K THEN 1 ELSE 0)
  BY <1>4, <1>8
<1> QED BY <1>1, <1>8, <1>9 DEF u

(* t has the messages of s from some place on, and EOF or finish() beside them. *)
Trimmed(t, s) ==
  /\ t \in Seq(Messages)
  /\ \E d \in Nat : \A i \in DOMAIN t :
       t[i] \in {EOF, Finish} \/ (i + d \in DOMAIN s /\ t[i] = s[i + d])

\* The ways the code trims a channel or the ticks.
LEMMA TrimmedForms ==
  ASSUME NEW s \in Seq(Messages)
  PROVE  /\ Trimmed(s, s) /\ Trimmed(<<>>, s) /\ \A m \in {EOF, Finish} : Trimmed(Append(s, m), s)
         /\ s # <<>> => Trimmed(Tail(s), s) /\ Trimmed(Append(Tail(s), Finish), s)
<1>0. EOF \in Messages /\ Finish \in Messages
  BY MessageTypes
<1>1. Trimmed(s, s)
  <2>1. \A i \in DOMAIN s : i + 0 \in DOMAIN s /\ s[i] = s[i + 0]
    OBVIOUS
  <2> QED BY <2>1 DEF Trimmed
<1>2. Trimmed(<<>>, s)
  <2> DEFINE t == <<>>
  <2>1. t \in Seq(Messages) /\ DOMAIN t = {}
    BY EmptySeq
  <2> HIDE DEF t
  <2>2. Trimmed(t, s)
    <3>1. \E d \in Nat : \A i \in DOMAIN t :
            t[i] \in {EOF, Finish} \/ (i + d \in DOMAIN s /\ t[i] = s[i + d])
      <4> WITNESS 0 \in Nat
      <4> QED BY <2>1
    <3> QED BY <2>1, <3>1 DEF Trimmed
  <2> QED BY <2>2 DEF t
<1>3. ASSUME NEW m \in {EOF, Finish}, NEW r \in Seq(Messages), NEW d \in Nat,
             \A i \in DOMAIN r : i + d \in DOMAIN s /\ r[i] = s[i + d]
      PROVE  Trimmed(Append(r, m), s)
  <2> DEFINE t == Append(r, m)
  <2>1. /\ t \in Seq(Messages) /\ DOMAIN t = 1 .. (Len(r) + 1) /\ t[Len(r) + 1] = m
        /\ Len(r) \in Nat /\ DOMAIN r = 1 .. Len(r) /\ \A i \in 1 .. Len(r) : t[i] = r[i]
    BY <1>0
  <2> HIDE DEF t
  <2>2. \A i \in DOMAIN t : t[i] \in {EOF, Finish} \/ (i + d \in DOMAIN s /\ t[i] = s[i + d])
    <3> SUFFICES ASSUME NEW i \in DOMAIN t
                 PROVE  t[i] \in {EOF, Finish} \/ (i + d \in DOMAIN s /\ t[i] = s[i + d])
      OBVIOUS
    <3>1. i = Len(r) + 1 \/ i \in 1 .. Len(r)
      BY <2>1
    <3> QED BY <3>1, <2>1, <1>3
  <2> QED BY <2>1, <2>2 DEF Trimmed, t
<1>4. \A m \in {EOF, Finish} : Trimmed(Append(s, m), s)
  <2>1. \A i \in DOMAIN s : i + 0 \in DOMAIN s /\ s[i] = s[i + 0]
    OBVIOUS
  <2> QED BY <2>1, <1>3
<1>5. ASSUME s # <<>> PROVE Trimmed(Tail(s), s) /\ Trimmed(Append(Tail(s), Finish), s)
  <2> DEFINE r == Tail(s)
  <2>1. r \in Seq(Messages) /\ \A i \in DOMAIN r : i + 1 \in DOMAIN s /\ r[i] = s[i + 1]
    BY <1>5
  <2> HIDE DEF r
  <2>2. Trimmed(Append(r, Finish), s)
    BY <2>1, <1>3
  <2>3. Trimmed(r, s)
    BY <2>1 DEF Trimmed
  <2> QED BY <2>2, <2>3 DEF r
<1> QED BY <1>1, <1>2, <1>4, <1>5

\* Trimming adds no handle and no answer.
LEMMA TrimmedCount ==
  ASSUME NEW s \in Seq(Messages), NEW t, Trimmed(t, s), NEW K \in {HandleKinds, AckKinds}
  PROVE  /\ CountOf(t, K) \in Nat /\ CountOf(s, K) \in Nat /\ CountOf(t, K) <= CountOf(s, K)
         /\ NoWraps(s) => NoWraps(t)
<1>1. PICK d \in Nat : \A i \in DOMAIN t :
        t[i] \in {EOF, Finish} \/ (i + d \in DOMAIN s /\ t[i] = s[i + d])
  BY DEF Trimmed
<1>2. t \in Seq(Messages) /\ DOMAIN t = 1 .. Len(t) /\ Len(t) \in Nat
  BY LenProperties DEF Trimmed
<1>3. EOF.k = "EOF" /\ Finish.k = "finish" /\ ~EOF.wraps /\ ~Finish.wraps
  BY DEF EOF, Finish, Msg
<1> DEFINE S == {i \in DOMAIN s : s[i].k \in K}
           T == {i \in DOMAIN t : t[i].k \in K}
           V == {i + d : i \in T}
<1>4. IsFiniteSet(S) /\ IsFiniteSet(T) /\ CountOf(t, K) \in Nat /\ CountOf(s, K) \in Nat
  BY <1>2, CountNat
<1>5. V \in SUBSET S
  <2> SUFFICES ASSUME NEW i \in T PROVE i + d \in S
    OBVIOUS
  <2>1. t[i].k # "EOF" /\ t[i].k # "finish"
    BY DEF HandleKinds, AckKinds
  <2> QED BY <2>1, <1>1, <1>3
<1>6. Cardinality(V) = Cardinality(T)
  <2>1. T \subseteq Int /\ d \in Int
    BY <1>2
  <2> HIDE DEF T
  <2> QED BY <2>1, <1>4, ShiftedSet
<1>7. Cardinality(V) <= Cardinality(S)
  <2> HIDE DEF S, V
  <2> QED BY <1>4, <1>5, FS_Subset
<1>8. NoWraps(s) => NoWraps(t)
  BY <1>1, <1>3 DEF NoWraps
<1> QED BY <1>4, <1>6, <1>7, <1>8 DEF CountOf

(* A step that neither writes nor reads a message. *)
Quiet ==
  /\ UNCHANGED <<handleQueue, sends, writes, lost>>
  /\ \A e \in Ends : Trimmed(ticks'[e], ticks[e]) /\ Trimmed(wire'[e], wire[e])

\* disconnect(), the end of a process or a channel, and the tick of a message are such steps.
LEMMA QuietSteps ==
  ASSUME TypeOK, NEW p \in Ends,
         \/ disconnect(p) \/ Crash(p) \/ ReadEOF(p) \/ EmitMessage(p) \/ RunFinish(p)
         \/ EmitAckFails(p) \/ EmitHandleFails(p)
  PROVE  Quiet
<1>0. /\ ticks \in [Ends -> Seq(Messages)] /\ wire \in [Ends -> Seq(Messages)]
      /\ Other(p) \in Ends /\ Other(p) # p /\ \A e \in Ends : e = p \/ e = Other(p)
  BY OtherEnd DEF TypeOK, Ends, Other
<1>1. \A e \in Ends :
        /\ Trimmed(wire[e], wire[e]) /\ Trimmed(<<>>, wire[e])
        /\ Trimmed(Append(wire[e], EOF), wire[e])
        /\ Trimmed(ticks[e], ticks[e]) /\ Trimmed(<<>>, ticks[e])
        /\ Trimmed(Append(ticks[e], Finish), ticks[e])
        /\ ticks[e] # <<>> => Trimmed(Tail(ticks[e]), ticks[e])
  BY <1>0, TrimmedForms
<1>2. CASE disconnect(p) \/ ReadEOF(p)
  <2>1. UNCHANGED <<handleQueue, sends, writes, lost>>
    BY <1>2 DEF disconnect, ReadEOF
  <2>2. UNCHANGED ticks \/ ticks' = [ticks EXCEPT ![p] = Append(@, Finish)]
    BY <1>2 DEF disconnect, ReadEOF, _disconnect
  <2>3. UNCHANGED wire \/ wire' = [wire EXCEPT ![p] = <<>>]
    BY <1>2 DEF disconnect, ReadEOF
  <2>4. \A e \in Ends : Trimmed(ticks'[e], ticks[e])
    BY <2>2, <1>0, <1>1
  <2>5. \A e \in Ends : Trimmed(wire'[e], wire[e])
    BY <2>3, <1>0, <1>1
  <2> QED BY <2>1, <2>4, <2>5 DEF Quiet
<1>3. CASE EmitMessage(p)
  <2>1. /\ UNCHANGED <<handleQueue, sends, writes, lost, wire>>
        /\ ticks[p] # <<>> /\ ticks' = [ticks EXCEPT ![p] = Tail(@)]
    BY <1>3 DEF EmitMessage, Emitting
  <2>2. \A e \in Ends : Trimmed(ticks'[e], ticks[e])
    BY <2>1, <1>0, <1>1
  <2> QED BY <2>1, <2>2, <1>1 DEF Quiet
<1>4. ASSUME /\ wire' = [wire EXCEPT ![p] = <<>>,
                            ![Other(p)] = IF ended[p] \/ ended[Other(p)] THEN @ ELSE Append(@, EOF)]
      PROVE  \A e \in Ends : Trimmed(wire'[e], wire[e])
  <2>1. wire'[p] = <<>>
    BY <1>0, <1>4
  <2>2. wire'[Other(p)] = wire[Other(p)] \/ wire'[Other(p)] = Append(wire[Other(p)], EOF)
    BY <1>0, <1>4
  <2>3. Trimmed(wire'[Other(p)], wire[Other(p)]) /\ Trimmed(wire'[p], wire[p])
    BY <2>1, <2>2, <1>0, <1>1
  <2> QED BY <2>3, <1>0
<1>5. CASE RunFinish(p)
  <2>1. /\ UNCHANGED <<handleQueue, sends, writes, lost>>
        /\ ticks[p] # <<>> /\ ticks' = [ticks EXCEPT ![p] = Tail(@)]
    BY <1>5 DEF RunFinish
  <2>2. \A e \in Ends : Trimmed(ticks'[e], ticks[e])
    BY <2>1, <1>0, <1>1
  <2>3. \A e \in Ends : Trimmed(wire'[e], wire[e])
    BY <1>4, <1>5 DEF RunFinish
  <2> QED BY <2>1, <2>2, <2>3 DEF Quiet
<1>6. CASE Crash(p) \/ EmitAckFails(p) \/ EmitHandleFails(p)
  <2>1. PICK why : Die(p, why)
    BY <1>6 DEF Crash, EmitAckFails, EmitHandleFails
  <2>2. UNCHANGED <<handleQueue, sends, writes, lost>> /\ ticks' = [ticks EXCEPT ![p] = <<>>]
    BY <2>1 DEF Die
  <2>3. \A e \in Ends : Trimmed(ticks'[e], ticks[e])
    BY <2>2, <1>0, <1>1
  <2>4. \A e \in Ends : Trimmed(wire'[e], wire[e])
    BY <1>4, <2>1 DEF Die
  <2> QED BY <2>2, <2>3, <2>4 DEF Quiet
<1> QED BY <1>2, <1>3, <1>5, <1>6

\* A run of the user's messages has at most one handle, and no answer.
LEMMA FreshCounts ==
  ASSUME NEW p \in Ends, NEW ws \in Seq(Messages), FreshWrite(p, ws)
  PROVE  /\ CountOf(ws, HandleKinds) \in Nat /\ CountOf(ws, HandleKinds) <= 1
         /\ CountOf(ws, HandleKinds) > 0 => handleQueue'[p].on
         /\ CountOf(ws, AckKinds) = 0 /\ NoWraps(ws)
<1> DEFINE S == {i \in DOMAIN ws : ws[i].k \in HandleKinds}
<1>1. \A i \in DOMAIN ws : ws[i].k \in HandleKinds => i = Len(ws) /\ handleQueue'[p].on
  BY DEF FreshWrite, IsHandle, HandleKinds
<1>2. S \subseteq {Len(ws)}
  BY <1>1
<1>3. Cardinality(S) <= 1
  <2>1. IsFiniteSet({Len(ws)}) /\ Cardinality({Len(ws)}) = 1
    BY FS_Singleton
  <2> HIDE DEF S
  <2> QED BY <1>2, <2>1, FS_Subset
<1>4. /\ CountOf(ws, HandleKinds) \in Nat
      /\ CountOf(ws, HandleKinds) = 0 <=> \A i \in DOMAIN ws : ws[i].k \notin HandleKinds
  BY CountNat
<1>5. CountOf(ws, HandleKinds) > 0 => handleQueue'[p].on
  BY <1>1, <1>4
<1>6. \A i \in DOMAIN ws : ws[i].k \in UserKinds /\ ~ws[i].wraps
  BY LenProperties DEF FreshWrite, Given
<1>7. \A i \in DOMAIN ws : ws[i].k \notin AckKinds
  BY <1>6 DEF UserKinds, AckKinds
<1>8. CountOf(ws, AckKinds) = 0
  BY <1>7, CountNat
<1> QED BY <1>3, <1>4, <1>5, <1>6, <1>8 DEF CountOf, NoWraps

\* What a write of an end does to the channels.
LEMMA WriteAt ==
  ASSUME TypeOK, NEW p \in Ends, NEW ws \in Seq(Messages), Write(p, ws)
  PROVE  /\ wire'[p] = wire[p]
         /\ wire'[Other(p)] = wire[Other(p)] \/ wire'[Other(p)] = wire[Other(p)] \o ws
         /\ \A e \in Ends : Retried(e) => Retried(e)'
<1>1. /\ wire'[p] = wire[p]
      /\ wire'[Other(p)] = wire[Other(p)] \/ wire'[Other(p)] = wire[Other(p)] \o ws
  BY OtherEnd DEF Write, TypeOK
<1>2. ASSUME NEW e \in Ends, NEW i \in 1 .. MaxSends[e], writes[e][i] > 1 PROVE writes'[e][i] > 1
  <2>1. CASE e # p
    <3>1. writes'[e] = writes[e]
      BY <2>1 DEF Write, TypeOK
    <3> QED BY <3>1, <1>2
  <2>2. CASE e = p
    <3>1. writes'[e][i] = writes[e][i] + Cardinality({j \in DOMAIN ws : ws[j].id = i})
      BY <2>2 DEF Write, TypeOK
    <3>2. IsFiniteSet(DOMAIN ws)
      BY LenProperties, FS_Interval
    <3>3. IsFiniteSet({j \in DOMAIN ws : ws[j].id = i})
      BY <3>2, FS_Subset
    <3>4. Cardinality({j \in DOMAIN ws : ws[j].id = i}) \in Nat
      BY <3>3, FS_CardinalityType
    <3>5. writes[e][i] \in Nat
      BY WritesNat
    <3> QED BY <3>1, <3>4, <3>5, <1>2
  <2> QED BY <2>1, <2>2
<1> QED BY <1>1, <1>2 DEF Retried

\* The other end of a channel is the other one.
LEMMA OtherOther == ASSUME NEW p \in Ends PROVE Other(Other(p)) = p /\ Ends = {p, Other(p)}
BY DEF Ends, Other

-----------------------------------------------------------------------------
(* One handle or answer under way                                          *)

\* The counts are numbers.
LEMMA FlightNat ==
  ASSUME TypeOK, NEW p \in Ends, NEW K
  PROVE  CountOf(wire[p], K) \in Nat /\ CountOf(ticks[p], K) \in Nat
BY CountNat DEF TypeOK

\* A quiet step keeps the rule at both ends.
LEMMA QuietFlight ==
  ASSUME TypeOK, Quiet, NEW e \in Ends, OneFlight(e)
  PROVE  OneFlight(e)'
<1>0. Other(e) \in Ends /\ wire[e] \in Seq(Messages) /\ ticks[e] \in Seq(Messages)
      /\ wire[Other(e)] \in Seq(Messages) /\ ticks[Other(e)] \in Seq(Messages)
  BY OtherEnd DEF TypeOK
<1>1. /\ Trimmed(wire'[Other(e)], wire[Other(e)]) /\ Trimmed(ticks'[Other(e)], ticks[Other(e)])
      /\ Trimmed(wire'[e], wire[e]) /\ Trimmed(ticks'[e], ticks[e])
  BY <1>0 DEF Quiet
<1>2. /\ CountOf(wire'[Other(e)], HandleKinds) \in Nat
      /\ CountOf(wire[Other(e)], HandleKinds) \in Nat
      /\ CountOf(wire'[Other(e)], HandleKinds) <= CountOf(wire[Other(e)], HandleKinds)
      /\ NoWraps(wire[Other(e)]) => NoWraps(wire'[Other(e)])
  BY <1>0, <1>1, TrimmedCount
<1>3. /\ CountOf(ticks'[Other(e)], HandleKinds) \in Nat
      /\ CountOf(ticks[Other(e)], HandleKinds) \in Nat
      /\ CountOf(ticks'[Other(e)], HandleKinds) <= CountOf(ticks[Other(e)], HandleKinds)
      /\ NoWraps(ticks[Other(e)]) => NoWraps(ticks'[Other(e)])
  BY <1>0, <1>1, TrimmedCount
<1>4. /\ CountOf(wire'[e], AckKinds) \in Nat /\ CountOf(wire[e], AckKinds) \in Nat
      /\ CountOf(wire'[e], AckKinds) <= CountOf(wire[e], AckKinds)
  BY <1>0, <1>1, TrimmedCount
<1>5. /\ CountOf(ticks'[e], AckKinds) \in Nat /\ CountOf(ticks[e], AckKinds) \in Nat
      /\ CountOf(ticks'[e], AckKinds) <= CountOf(ticks[e], AckKinds)
  BY <1>0, <1>1, TrimmedCount
<1>6. Flight(e) \in Nat /\ Flight(e)' \in Nat /\ Flight(e)' <= Flight(e)
  BY <1>2, <1>3, <1>4, <1>5 DEF Flight
<1>7. handleQueue' = handleQueue /\ (Retried(e)' <=> Retried(e))
  BY DEF Quiet, Retried
<1> QED BY <1>2, <1>3, <1>6, <1>7 DEF OneFlight

\* A write of messages that wrap nothing keeps a channel so.
LEMMA NoWrapsConcat ==
  ASSUME NEW s \in Seq(Messages), NEW t \in Seq(Messages), NoWraps(s), NoWraps(t)
  PROVE  NoWraps(s \o t)
<1>1. /\ s \o t \in Seq(Messages) /\ Len(s \o t) = Len(s) + Len(t)
      /\ \A i \in 1 .. Len(s) + Len(t) : (s \o t)[i] = IF i <= Len(s) THEN s[i] ELSE t[i - Len(s)]
  BY ConcatProperties
<1>2. Len(s) \in Nat /\ Len(t) \in Nat /\ DOMAIN s = 1 .. Len(s) /\ DOMAIN t = 1 .. Len(t)
      /\ DOMAIN (s \o t) = 1 .. (Len(s) + Len(t))
  BY <1>1, LenProperties
<1>3. ASSUME NEW i \in 1 .. (Len(s) + Len(t)) PROVE ~(s \o t)[i].wraps
  <2>1. CASE i <= Len(s)
    <3>1. i \in DOMAIN s /\ (s \o t)[i] = s[i]
      BY <2>1, <1>1, <1>2
    <3> QED BY <3>1 DEF NoWraps
  <2>2. CASE i > Len(s)
    <3>1. i - Len(s) \in DOMAIN t /\ (s \o t)[i] = t[i - Len(s)]
      BY <2>2, <1>1, <1>2
    <3> QED BY <3>1 DEF NoWraps
  <2> QED BY <2>1, <2>2, <1>2
<1> QED BY <1>2, <1>3 DEF NoWraps

\* The sender: what it writes is under way, what it has answered is not.
LEMMA SenderFlight ==
  ASSUME TypeOK, NEW p \in Ends, NEW ws \in Seq(Messages), Write(p, ws),
         ticks'[Other(p)] = ticks[Other(p)], NEW f \in Nat, NEW g \in Nat,
         f = CountOf(wire[Other(p)], HandleKinds) + CountOf(ticks[Other(p)], HandleKinds)
               + CountOf(wire[p], AckKinds) + CountOf(ticks'[p], AckKinds),
         g = CountOf(ws, HandleKinds),
         \/ Retried(p)'
         \/ /\ f + g <= 1 /\ (f + g > 0 => handleQueue'[p].on)
            /\ NoWraps(wire[Other(p)]) /\ NoWraps(ticks[Other(p)]) /\ NoWraps(ws),
         CountOf(ticks'[p], AckKinds) \in Nat
  PROVE  OneFlight(p)'
<1>0. Other(p) \in Ends /\ wire[Other(p)] \in Seq(Messages) /\ wire[p] \in Seq(Messages)
      /\ ticks[Other(p)] \in Seq(Messages)
  BY OtherEnd DEF TypeOK
<1>1. /\ wire'[p] = wire[p]
      /\ wire'[Other(p)] = wire[Other(p)] \/ wire'[Other(p)] = wire[Other(p)] \o ws
  BY WriteAt
<1>2. /\ CountOf(wire[Other(p)] \o ws, HandleKinds) = CountOf(wire[Other(p)], HandleKinds) + g
      /\ CountOf(wire[Other(p)], HandleKinds) \in Nat
  <2>1. CountOf(wire[Other(p)] \o ws, HandleKinds)
          = CountOf(wire[Other(p)], HandleKinds) + CountOf(ws, HandleKinds)
    <3>1. \A s, t \in Seq(Messages) :
            CountOf(s \o t, HandleKinds) = CountOf(s, HandleKinds) + CountOf(t, HandleKinds)
      BY CountConcat
    <3> QED BY <1>0, <3>1
  <2>2. CountOf(wire[Other(p)], HandleKinds) \in Nat
    BY <1>0, CountNat
  <2> QED BY <2>1, <2>2
<1>3. CountOf(ticks[Other(p)], HandleKinds) \in Nat /\ CountOf(wire[p], AckKinds) \in Nat
  BY <1>0, CountNat
<1>4. NoWraps(wire[Other(p)]) /\ NoWraps(ws) => NoWraps(wire[Other(p)] \o ws)
  BY <1>0, NoWrapsConcat
<1>5. Flight(p)' = CountOf(wire'[Other(p)], HandleKinds) + CountOf(ticks[Other(p)], HandleKinds)
                     + CountOf(wire[p], AckKinds) + CountOf(ticks'[p], AckKinds)
  BY <1>1 DEF Flight
<1>6. Flight(p)' \in Nat /\ Flight(p)' <= f + g
  <2> DEFINE a == CountOf(wire'[Other(p)], HandleKinds)
             b == CountOf(wire[Other(p)], HandleKinds)
             c == CountOf(ticks[Other(p)], HandleKinds)
             d == CountOf(wire[p], AckKinds)
             x == CountOf(ticks'[p], AckKinds)
  <2>1. a = b \/ a = b + g
    BY <1>1, <1>2
  <2>2. b \in Nat /\ c \in Nat /\ d \in Nat /\ x \in Nat
    BY <1>2, <1>3
  <2>3. Flight(p)' = a + c + d + x /\ f = b + c + d + x
    BY <1>5
  <2> HIDE DEF a, b, c, d, x
  <2> QED BY <2>1, <2>2, <2>3
<1>7. CASE Retried(p)'
  BY <1>7 DEF OneFlight
<1>8. CASE ~Retried(p)'
  <2>1. NoWraps(wire'[Other(p)]) /\ NoWraps(ticks'[Other(p)])
    BY <1>1, <1>4, <1>8
  <2>2. f + g <= 1 /\ (f + g > 0 => handleQueue'[p].on)
    BY <1>8
  <2>3. Flight(p)' <= 1 /\ (Flight(p)' > 0 => handleQueue'[p].on)
    BY <2>2, <1>6
  <2> QED BY <2>1, <2>3 DEF OneFlight
<1> QED BY <1>7, <1>8

\* The end it writes to: what is written answers no more than what was taken.
LEMMA AnswerFlight ==
  ASSUME TypeOK, NEW p \in Ends, NEW ws \in Seq(Messages), Write(p, ws), SameSends(Other(p)),
         ticks'[p] \in Seq(Messages), ticks'[Other(p)] = ticks[Other(p)], OneFlight(Other(p)),
         \/ Retried(Other(p))
         \/ /\ CountOf(ws, AckKinds) + CountOf(ticks'[p], HandleKinds)
                 <= CountOf(ticks[p], HandleKinds)
            /\ NoWraps(ticks'[p])
  PROVE  OneFlight(Other(p))'
<1> DEFINE o == Other(p)
<1>0. o \in Ends /\ Other(o) = p /\ wire[o] \in Seq(Messages) /\ wire[p] \in Seq(Messages)
      /\ ticks[o] \in Seq(Messages) /\ ticks[p] \in Seq(Messages)
  BY OtherEnd, OtherOther DEF TypeOK
<1> HIDE DEF o
<1>1. wire'[p] = wire[p] /\ (wire'[o] = wire[o] \/ wire'[o] = wire[o] \o ws)
  BY WriteAt DEF o
<1>2. /\ CountOf(wire[o] \o ws, AckKinds) = CountOf(wire[o], AckKinds) + CountOf(ws, AckKinds)
      /\ CountOf(wire[o], AckKinds) \in Nat /\ CountOf(ws, AckKinds) \in Nat
  BY <1>0, CountConcat
<1>3. /\ CountOf(ticks[o], AckKinds) \in Nat /\ CountOf(wire[p], HandleKinds) \in Nat
      /\ CountOf(ticks[p], HandleKinds) \in Nat /\ CountOf(ticks'[p], HandleKinds) \in Nat
  BY <1>0, CountNat
<1>4. handleQueue'[o] = handleQueue[o] /\ (Retried(o)' <=> Retried(o))
  BY DEF SameSends, Retried, o
<1>5. Flight(o) = CountOf(wire[p], HandleKinds) + CountOf(ticks[p], HandleKinds)
                    + CountOf(wire[o], AckKinds) + CountOf(ticks[o], AckKinds)
  BY <1>0 DEF Flight
<1>6. Flight(o)' = CountOf(wire[p], HandleKinds) + CountOf(ticks'[p], HandleKinds)
                     + CountOf(wire'[o], AckKinds) + CountOf(ticks[o], AckKinds)
  BY <1>0, <1>1 DEF Flight, o
<1>7. CASE Retried(o)
  BY <1>4, <1>7 DEF OneFlight, o
<1>8. CASE ~Retried(o)
  <2>1. Flight(o)' \in Nat /\ Flight(o) \in Nat /\ Flight(o)' <= Flight(o)
    <3> DEFINE a == CountOf(wire'[o], AckKinds)
               b == CountOf(wire[o], AckKinds)
               g == CountOf(ws, AckKinds)
               c == CountOf(wire[p], HandleKinds)
               d == CountOf(ticks[o], AckKinds)
               x == CountOf(ticks[p], HandleKinds)
               y == CountOf(ticks'[p], HandleKinds)
    <3>1. a = b \/ a = b + g
      BY <1>1, <1>2
    <3>2. b \in Nat /\ c \in Nat /\ d \in Nat /\ x \in Nat /\ y \in Nat /\ g \in Nat
      BY <1>2, <1>3
    <3>3. Flight(o) = c + x + b + d /\ Flight(o)' = c + y + a + d /\ g + y <= x
      BY <1>5, <1>6, <1>8 DEF o
    <3> HIDE DEF a, b, c, d, x, y, g
    <3> QED BY <3>1, <3>2, <3>3
  <2>2. Flight(o) <= 1 /\ (Flight(o) > 0 => handleQueue[o].on) /\ NoWraps(wire[p])
    BY <1>0, <1>8 DEF OneFlight, o
  <2>3. NoWraps(wire'[Other(o)]) /\ NoWraps(ticks'[Other(o)])
    BY <1>0, <1>1, <1>8, <2>2 DEF o
  <2>4. OneFlight(o)'
    BY <2>1, <2>2, <2>3, <1>4, <1>0 DEF OneFlight
  <2> QED BY <2>4 DEF o
<1> QED BY <1>7, <1>8

\* What a tick that is put behind the others adds.
LEMMA CountAppend ==
  ASSUME NEW s \in Seq(Messages), NEW m \in Messages, NEW K
  PROVE  /\ Append(s, m) \in Seq(Messages) /\ CountOf(s, K) \in Nat
         /\ CountOf(Append(s, m), K) = CountOf(s, K) + (IF m.k \in K THEN 1 ELSE 0)
<1> DEFINE t == <<m>>
<1>1. t \in Seq(Messages) /\ CountOf(t, K) = IF m.k \in K THEN 1 ELSE 0
  BY CountSingle
<1>2. Append(s, m) = s \o t
  BY AppendIsConcat
<1> HIDE DEF t
<1>3. /\ s \o t \in Seq(Messages) /\ CountOf(s \o t, K) = CountOf(s, K) + CountOf(t, K)
      /\ CountOf(s, K) \in Nat
  BY <1>1, CountConcat
<1> QED BY <1>1, <1>2, <1>3

\* What a read does: the messages that were read are the ticks, in their order,
\* with the kind and the number they had; the others stay.
LEMMA ReadParts ==
  ASSUME TypeOK, NEW p \in Ends, NEW n \in 1 .. Len(wire[p]), NEW drop \in BOOLEAN, Read(p, n, drop)
  PROVE  /\ ticks[p] = <<>> /\ ticks'[p] \in Seq(Messages) /\ wire'[p] \in Seq(Messages)
         /\ Len(ticks'[p]) = n /\ Len(wire'[p]) = Len(wire[p]) - n
         /\ n \in Nat /\ Len(wire[p]) \in Nat /\ n <= Len(wire[p])
         /\ \A i \in 1 .. n : /\ ticks'[p][i].k = wire[p][i].k /\ ticks'[p][i].id = wire[p][i].id
                              /\ ticks'[p][i].wraps = wire[p][i].wraps
                              /\ ticks'[p][i].has = (wire[p][i].has /\ ~drop)
         /\ \A i \in 1 .. (Len(wire[p]) - n) : wire'[p][i] = wire[p][i + n]
         /\ ticks'[Other(p)] = ticks[Other(p)] /\ wire'[Other(p)] = wire[Other(p)]
         /\ UNCHANGED <<handleQueue, sends, writes, got>>
<1>0. wire[p] \in Seq(Messages) /\ Other(p) \in Ends /\ Other(p) # p /\ Len(wire[p]) \in Nat
      /\ n \in Nat /\ n <= Len(wire[p]) /\ ticks \in [Ends -> Seq(Messages)]
      /\ wire \in [Ends -> Seq(Messages)]
  <2>1. wire[p] \in Seq(Messages) /\ ticks \in [Ends -> Seq(Messages)]
        /\ wire \in [Ends -> Seq(Messages)]
    BY DEF TypeOK
  <2>2. Len(wire[p]) \in Nat
    BY <2>1, LenProperties
  <2> QED BY <2>1, <2>2, OtherEnd
<1> DEFINE t == [i \in 1 .. n |-> [wire[p][i] EXCEPT !.has = @ /\ ~drop]]
           u == SubSeq(wire[p], n + 1, Len(wire[p]))
<1>1. ticks' = [ticks EXCEPT ![p] = t] /\ wire' = [wire EXCEPT ![p] = u] /\ ticks[p] = <<>>
      /\ UNCHANGED <<handleQueue, sends, writes, got>>
  BY DEF Read
<1>2. \A i \in 1 .. n : wire[p][i] \in Messages
  BY <1>0
<1>3. \A i \in 1 .. n : /\ t[i] \in Messages /\ t[i].k = wire[p][i].k /\ t[i].id = wire[p][i].id
                        /\ t[i].wraps = wire[p][i].wraps
                        /\ t[i].has = (wire[p][i].has /\ ~drop)
  BY <1>2 DEF Messages
<1>4. t \in Seq(Messages) /\ Len(t) = n
  <2>1. t \in [1 .. n -> Messages]
    BY <1>3
  <2> HIDE DEF t
  <2> QED BY <2>1, <1>0
<1>5. u \in Seq(Messages) /\ Len(u) = Len(wire[p]) - n
      /\ \A i \in 1 .. (Len(wire[p]) - n) : u[i] = wire[p][i + n]
  BY <1>0
<1> HIDE DEF t, u
<1>6. ticks'[p] = t /\ wire'[p] = u /\ ticks'[Other(p)] = ticks[Other(p)]
      /\ wire'[Other(p)] = wire[Other(p)]
  BY <1>0, <1>1
<1>7. TypeOK'
  BY TypeRead
<1> QED BY <1>0, <1>1, <1>3, <1>4, <1>5, <1>6

\* send() keeps the rule at both ends.
LEMMA SendFlight ==
  ASSUME TypeOK, PendingMatches, NEW p \in Ends, NEW k \in Kinds, send(p, k), Settled(p),
         NEW e \in Ends, OneFlight(e)
  PROVE  OneFlight(e)'
<1> DEFINE o == Other(p)
<1>1. PICK ws \in Seq(Messages) : /\ FreshWrite(p, ws) /\ (ws # <<>> => ~handleQueue[p].on)
                                  /\ handleQueue[p].on => handleQueue'[p].on
  BY SendRun DEF Settled
<1>2. Write(p, ws)
  BY <1>1 DEF FreshWrite
<1>3. /\ CountOf(ws, HandleKinds) \in Nat /\ CountOf(ws, HandleKinds) <= 1
      /\ CountOf(ws, HandleKinds) > 0 => handleQueue'[p].on
      /\ CountOf(ws, AckKinds) = 0 /\ NoWraps(ws)
  BY <1>1, FreshCounts
<1>4. ticks' = ticks
  BY DEF send
<1>5. o \in Ends /\ ticks[p] \in Seq(Messages) /\ \A x \in Ends : x = p \/ x = o
  BY OtherEnd, OtherOther DEF TypeOK
<1>6. CASE e = p
  <2> DEFINE f == CountOf(wire[o], HandleKinds) + CountOf(ticks[o], HandleKinds)
                    + CountOf(wire[p], AckKinds) + CountOf(ticks[p], AckKinds)
             g == CountOf(ws, HandleKinds)
  <2>1. f \in Nat /\ g \in Nat /\ CountOf(ticks'[p], AckKinds) \in Nat
    <3>1. /\ CountOf(wire[o], HandleKinds) \in Nat /\ CountOf(ticks[o], HandleKinds) \in Nat
          /\ CountOf(wire[p], AckKinds) \in Nat /\ CountOf(ticks[p], AckKinds) \in Nat
      BY <1>5, FlightNat
    <3> QED BY <3>1, <1>3, <1>4
  <2>2. f = Flight(p)
    BY DEF Flight
  <2>3. ws = <<>> => g = 0
    <3>1. ASSUME ws = <<>> PROVE \A i \in DOMAIN ws : ws[i].k \notin HandleKinds
      BY <3>1
    <3> QED BY <3>1, CountNat
  <2>4. CASE Retried(p)
    <3>1. Retried(p)'
      BY <2>4, <1>2, WriteAt
    <3>2. f = CountOf(wire[o], HandleKinds) + CountOf(ticks[o], HandleKinds)
                + CountOf(wire[p], AckKinds) + CountOf(ticks'[p], AckKinds)
      BY <1>4
    <3> HIDE DEF f
    <3> QED BY <3>1, <3>2, <2>1, <1>2, <1>4, <1>6, SenderFlight
  <2>5. CASE ~Retried(p)
    <3>1. f <= 1 /\ (f > 0 => handleQueue[p].on) /\ NoWraps(wire[o]) /\ NoWraps(ticks[o])
      BY <2>2, <2>5, <1>6 DEF OneFlight
    <3>2. f = CountOf(wire[o], HandleKinds) + CountOf(ticks[o], HandleKinds)
                + CountOf(wire[p], AckKinds) + CountOf(ticks'[p], AckKinds)
      BY <1>4
    <3> HIDE DEF f
    <3>3. f + g <= 1 /\ (f + g > 0 => handleQueue'[p].on)
      <4>1. CASE ws = <<>>
        BY <4>1, <3>1, <2>1, <2>3, <1>1
      <4>2. CASE ws # <<>>
        <5>1. f = 0
          BY <4>2, <3>1, <2>1, <1>1
        <5> QED BY <5>1, <2>1, <1>3
      <4> QED BY <4>1, <4>2
    <3> QED BY <3>1, <3>2, <3>3, <2>1, <1>2, <1>3, <1>4, <1>6, SenderFlight
  <2> QED BY <2>4, <2>5
<1>7. CASE e = o
  <2>1. SameSends(o)
    BY OtherSends, OtherEnd
  <2>2. CountOf(ticks[p], HandleKinds) \in Nat
    BY FlightNat
  <2>3. Retried(o) \/ NoWraps(ticks[p])
    BY <1>7, OtherOther DEF OneFlight
  <2>4. CountOf(ws, AckKinds) + CountOf(ticks'[p], HandleKinds) <= CountOf(ticks[p], HandleKinds)
    BY <2>2, <1>3, <1>4
  <2> QED BY <2>1, <2>3, <2>4, <1>2, <1>4, <1>5, <1>7, AnswerFlight
<1> QED BY <1>5, <1>6, <1>7

\* What the handler of an answer leaves of the ticks.
LEMMA AckTicks ==
  ASSUME TypeOK, NEW p \in Ends, EmitAck(p)
  PROVE  /\ ticks[p] # <<>> /\ Head(ticks[p]).k \in AckKinds
         /\ ticks'[p] \in Seq(Messages) /\ Trimmed(ticks'[p], Tail(ticks[p]))
         /\ Trimmed(ticks'[p], ticks[p]) /\ ticks'[Other(p)] = ticks[Other(p)]
         /\ UNCHANGED <<got, lost, sends>>
         /\ CountOf(ticks'[p], AckKinds) \in Nat
         /\ CountOf(ticks'[p], AckKinds) + 1 <= CountOf(ticks[p], AckKinds)
         /\ CountOf(ticks'[p], HandleKinds) \in Nat
         /\ CountOf(ticks'[p], HandleKinds) <= CountOf(ticks[p], HandleKinds)
         /\ NoWraps(ticks[p]) => NoWraps(ticks'[p])
<1> DEFINE s == ticks[p]
           u == Tail(s)
           t == ticks'[p]
<1>1. s # <<>> /\ UNCHANGED <<got, lost, sends>>
  BY EmitAckParts
<1>2. Head(s).k \in AckKinds
  BY DEF EmitAck, Emitting, AckKinds
<1>3. s \in Seq(Messages) /\ Finish \in Messages
  BY MessageTypes DEF TypeOK
<1>4. u \in Seq(Messages) /\ Head(s) \in Messages
  BY <1>1, <1>3, HeadTailProperties
<1>5. t = u \/ t = Append(u, Finish)
  BY EmitAckAt
<1>6. t \in Seq(Messages)
  BY <1>3, <1>4, <1>5, AppendProperties
<1>7. Trimmed(t, u)
  BY <1>4, <1>5, TrimmedForms
<1>8. Trimmed(t, s)
  BY <1>1, <1>3, <1>5, TrimmedForms
<1>9. ticks'[Other(p)] = ticks[Other(p)]
  BY EmitAckAt, OtherEnd
<1> HIDE DEF s, u, t
<1>10. /\ CountOf(t, AckKinds) \in Nat /\ CountOf(u, AckKinds) \in Nat
       /\ CountOf(t, AckKinds) <= CountOf(u, AckKinds)
  BY <1>4, <1>7, TrimmedCount
<1>11. CountOf(s, AckKinds) = CountOf(u, AckKinds) + 1
  BY <1>1, <1>2, <1>3, CountTail DEF u
<1>12. /\ CountOf(t, HandleKinds) \in Nat /\ CountOf(t, HandleKinds) <= CountOf(s, HandleKinds)
       /\ NoWraps(s) => NoWraps(t)
  BY <1>3, <1>8, TrimmedCount
<1>13. CountOf(t, AckKinds) + 1 <= CountOf(s, AckKinds)
  BY <1>10, <1>11
<1> QED BY <1>1, <1>2, <1>6, <1>7, <1>8, <1>9, <1>10, <1>12, <1>13 DEF s, u, t

\* So does the handler of an answer: it takes the one that is under way, and
\* what it writes has at most one handle, or is a handle that is sent again.
LEMMA AckFlight ==
  ASSUME TypeOK, NEW p \in Ends, EmitAck(p), Settled(p), NEW e \in Ends, OneFlight(e)
  PROVE  OneFlight(e)'
<1> DEFINE o == Other(p)
           Y == CountOf(ticks'[p], AckKinds)
           X == CountOf(ticks[p], AckKinds)
<1>1. /\ ticks'[p] \in Seq(Messages) /\ ticks'[o] = ticks[o] /\ Y \in Nat /\ Y + 1 <= X
      /\ CountOf(ticks'[p], HandleKinds) \in Nat
      /\ CountOf(ticks'[p], HandleKinds) <= CountOf(ticks[p], HandleKinds)
      /\ NoWraps(ticks[p]) => NoWraps(ticks'[p])
  BY AckTicks
<1>2. o \in Ends /\ o # p /\ \A x \in Ends : x = p \/ x = o
  BY OtherEnd, OtherOther
<1>3. /\ CountOf(wire[o], HandleKinds) \in Nat /\ CountOf(ticks[o], HandleKinds) \in Nat
      /\ CountOf(wire[p], AckKinds) \in Nat /\ X \in Nat /\ CountOf(ticks[p], HandleKinds) \in Nat
  BY <1>2, FlightNat
<1> DEFINE f == CountOf(wire[o], HandleKinds) + CountOf(ticks[o], HandleKinds)
                  + CountOf(wire[p], AckKinds) + Y
<1>4. \E ws \in Seq(Messages) :
        /\ Write(p, ws) /\ CountOf(ws, AckKinds) = 0 /\ CountOf(ws, HandleKinds) \in Nat
        /\ \/ Retried(p)'
           \/ /\ CountOf(ws, HandleKinds) <= 1 /\ NoWraps(ws)
              /\ CountOf(ws, HandleKinds) > 0 => handleQueue'[p].on
  <2>1. CASE AckPending(p) = 0
    <3>1. PICK ws \in Seq(Messages) : FreshWrite(p, ws)
      BY <2>1, AckRun DEF Settled
    <3>2. Write(p, ws)
      BY <3>1 DEF FreshWrite
    <3>3. /\ CountOf(ws, HandleKinds) \in Nat /\ CountOf(ws, HandleKinds) <= 1
          /\ CountOf(ws, HandleKinds) > 0 => handleQueue'[p].on
          /\ CountOf(ws, AckKinds) = 0 /\ NoWraps(ws)
      BY <3>1, FreshCounts
    <3> QED BY <3>2, <3>3
  <2>2. CASE AckPending(p) # 0
    <3> DEFINE m == Rewrapped(pending[p])
               ws == <<m>>
    <3>1. Write(p, ws) /\ Retried(p)'
      BY <2>2, AckAgain DEF Settled
    <3>2. m \in Messages /\ m.k = "native"
      <4>1. m \in Messages
        BY WritesNat, MessageTypes
      <4> QED BY <4>1 DEF Rewrapped, Msg
    <3> HIDE DEF m
    <3>3. CountOf(ws, AckKinds) = 0
      BY <3>2, CountSingle DEF AckKinds
    <3>4. ws \in Seq(Messages)
      BY <3>2
    <3> HIDE DEF ws
    <3>5. CountOf(ws, HandleKinds) \in Nat
      BY <3>4, CountNat
    <3> QED BY <3>1, <3>3, <3>4, <3>5
  <2> QED BY <2>1, <2>2
<1>5. PICK ws \in Seq(Messages) :
        /\ Write(p, ws) /\ CountOf(ws, AckKinds) = 0 /\ CountOf(ws, HandleKinds) \in Nat
        /\ \/ Retried(p)'
           \/ /\ CountOf(ws, HandleKinds) <= 1 /\ NoWraps(ws)
              /\ CountOf(ws, HandleKinds) > 0 => handleQueue'[p].on
  BY <1>4
<1>6. CASE e = p
  <2> DEFINE g == CountOf(ws, HandleKinds)
  <2>1. f \in Nat /\ g \in Nat /\ f + 1 <= Flight(p) /\ Flight(p) \in Nat
    <3>1. Flight(p) = CountOf(wire[o], HandleKinds) + CountOf(ticks[o], HandleKinds)
                        + CountOf(wire[p], AckKinds) + X
      BY DEF Flight
    <3> QED BY <3>1, <1>1, <1>3, <1>5
  <2>2. CASE Retried(p)'
    <3> HIDE DEF Y
    <3>1. f = CountOf(wire[o], HandleKinds) + CountOf(ticks[o], HandleKinds)
                + CountOf(wire[p], AckKinds) + CountOf(ticks'[p], AckKinds)
      BY DEF Y
    <3> HIDE DEF f
    <3> QED BY <3>1, <2>1, <2>2, <1>1, <1>5, <1>6, SenderFlight DEF Y
  <2>3. CASE ~Retried(p)'
    <3>1. ~Retried(p)
      BY <2>3, <1>5, WriteAt
    <3>2. Flight(p) <= 1 /\ NoWraps(wire[o]) /\ NoWraps(ticks[o])
      BY <3>1, <1>6 DEF OneFlight
    <3>3. f = CountOf(wire[o], HandleKinds) + CountOf(ticks[o], HandleKinds)
                + CountOf(wire[p], AckKinds) + CountOf(ticks'[p], AckKinds)
      OBVIOUS
    <3> HIDE DEF f
    <3>4. f = 0
      BY <3>2, <2>1
    <3>5. f + g <= 1 /\ (f + g > 0 => handleQueue'[p].on) /\ NoWraps(ws)
      BY <3>4, <2>1, <2>3, <1>5
    <3> QED BY <3>2, <3>3, <3>5, <2>1, <1>1, <1>5, <1>6, SenderFlight
  <2> QED BY <2>2, <2>3
<1>7. CASE e = o
  <2>1. SameSends(o)
    BY <1>2, OtherSends DEF Tick
  <2>2. Retried(o) \/ NoWraps(ticks[p])
    BY <1>7, OtherOther DEF OneFlight
  <2>3. CountOf(ws, AckKinds) + CountOf(ticks'[p], HandleKinds) <= CountOf(ticks[p], HandleKinds)
    BY <1>1, <1>3, <1>5
  <2> QED BY <2>1, <2>2, <2>3, <1>1, <1>5, <1>7, AnswerFlight
<1> QED BY <1>2, <1>6, <1>7

\* So does the tick that answers a handle: the answer takes the place of the handle.
LEMMA HandleFlight ==
  ASSUME TypeOK, NEW p \in Ends, EmitHandle(p), NEW e \in Ends, OneFlight(e)
  PROVE  OneFlight(e)'
<1> DEFINE o == Other(p)
           s == ticks[p]
           u == Tail(s)
           t == ticks'[p]
           h == Head(s)
           a == IF h.has THEN Ack ELSE Nack
           ws == <<a>>
<1>1. s # <<>> /\ h.k \in HandleKinds /\ Write(p, ws)
      /\ ticks' = [ticks EXCEPT ![p] = IF Head(@).has THEN Append(Tail(@), Converted(Head(@)))
                                                      ELSE Tail(@)]
      /\ UNCHANGED handleQueue
  BY DEF EmitHandle, Emitting, HandleKinds
<1>2. o \in Ends /\ o # p /\ \A x \in Ends : x = p \/ x = o
  BY OtherEnd, OtherOther
<1>3. s \in Seq(Messages) /\ u \in Seq(Messages) /\ h \in Messages /\ ticks[o] \in Seq(Messages)
  BY <1>1, <1>2, TickType DEF TypeOK
<1>4. t = u \/ t = Append(u, Converted(h))
  BY <1>1 DEF TypeOK
<1>5. ticks'[o] = ticks[o]
  BY <1>1, <1>2 DEF TypeOK
<1>6. a \in Messages /\ a.k \in AckKinds /\ ~a.wraps
  BY MessageTypes DEF Ack, Nack, Msg, AckKinds
<1> DEFINE c == Converted(h)
<1>7. c \in Messages /\ ~c.wraps /\ c.k \notin AckKinds /\ (~h.wraps => c.k \notin HandleKinds)
  <2>1. c \in Messages
    BY <1>3, MessageTypes
  <2> QED BY <2>1 DEF Converted, Msg, AckKinds, HandleKinds
<1> HIDE DEF a, c, h
<1>8. /\ ws \in Seq(Messages) /\ CountOf(ws, AckKinds) = 1 /\ CountOf(ws, HandleKinds) = 0
      /\ NoWraps(ws)
  <2>1. a.k \notin HandleKinds
    BY <1>6 DEF AckKinds, HandleKinds
  <2>2. CountOf(ws, AckKinds) = 1 /\ CountOf(ws, HandleKinds) = 0
    BY <2>1, <1>6, CountSingle
  <2>3. ws \in Seq(Messages) /\ DOMAIN ws = {1} /\ ws[1] = a
    BY <1>6
  <2> QED BY <2>2, <2>3, <1>6 DEF NoWraps
<1> HIDE DEF ws
<1>9. /\ CountOf(s, AckKinds) = CountOf(u, AckKinds)
      /\ CountOf(s, HandleKinds) = CountOf(u, HandleKinds) + 1
      /\ CountOf(u, AckKinds) \in Nat /\ CountOf(u, HandleKinds) \in Nat
  <2>1. h.k \notin AckKinds /\ h.k \in HandleKinds
    BY <1>1 DEF AckKinds, HandleKinds
  <2>2. CountOf(s, AckKinds) = CountOf(u, AckKinds) + 0
    BY <2>1, <1>1, <1>3, CountTail DEF h
  <2>3. CountOf(s, HandleKinds) = CountOf(u, HandleKinds) + 1
    BY <2>1, <1>1, <1>3, CountTail DEF h
  <2>4. CountOf(u, AckKinds) \in Nat /\ CountOf(u, HandleKinds) \in Nat
    BY <1>3, CountNat
  <2> QED BY <2>2, <2>3, <2>4
<1> DEFINE v == Append(u, c)
<1>10. /\ v \in Seq(Messages) /\ CountOf(v, AckKinds) = CountOf(u, AckKinds)
       /\ ~h.wraps => CountOf(v, HandleKinds) = CountOf(u, HandleKinds)
  <2> HIDE DEF u
  <2>1. v \in Seq(Messages) /\ CountOf(v, AckKinds) = CountOf(u, AckKinds) + 0
    BY <1>3, <1>7, CountAppend
  <2>2. CountOf(v, HandleKinds) = CountOf(u, HandleKinds) + (IF c.k \in HandleKinds THEN 1 ELSE 0)
    BY <1>3, <1>7, CountAppend
  <2>3. CountOf(u, AckKinds) \in Nat /\ CountOf(u, HandleKinds) \in Nat
    BY <1>3, CountNat
  <2> QED BY <2>1, <2>2, <2>3, <1>7
<1>11. t \in Seq(Messages) /\ CountOf(t, AckKinds) = CountOf(s, AckKinds)
  BY <1>3, <1>4, <1>9, <1>10 DEF c
<1>12. ~h.wraps => CountOf(t, HandleKinds) + 1 = CountOf(s, HandleKinds)
  BY <1>4, <1>9, <1>10 DEF c
<1>13. NoWraps(s) => NoWraps(t) /\ ~h.wraps
  <2> SUFFICES ASSUME NoWraps(s) PROVE NoWraps(t) /\ ~h.wraps
    OBVIOUS
  <2>1. ~h.wraps /\ NoWraps(u)
    BY <1>1, <1>3 DEF NoWraps, h
  <2>2. NoWraps(v)
    <3> HIDE DEF u
    <3>1. /\ DOMAIN v = 1 .. (Len(u) + 1) /\ Len(u) \in Nat /\ v[Len(u) + 1] = c
          /\ DOMAIN u = 1 .. Len(u) /\ \A i \in 1 .. Len(u) : v[i] = u[i]
      BY <1>3, <1>7
    <3>2. \A i \in 1 .. (Len(u) + 1) : i = Len(u) + 1 \/ i \in 1 .. Len(u)
      BY <3>1
    <3> HIDE DEF v
    <3> QED BY <3>1, <3>2, <2>1, <1>7 DEF NoWraps
  <2> QED BY <2>1, <2>2, <1>4 DEF c
<1>14. CASE e = p
  <2> DEFINE f == CountOf(wire[o], HandleKinds) + CountOf(ticks[o], HandleKinds)
                    + CountOf(wire[p], AckKinds) + CountOf(t, AckKinds)
             g == CountOf(ws, HandleKinds)
  <2>1. f = Flight(p)
    BY <1>11 DEF Flight
  <2>2. f \in Nat /\ g = 0 /\ CountOf(ticks'[p], AckKinds) \in Nat
    <3>1. /\ CountOf(wire[o], HandleKinds) \in Nat /\ CountOf(ticks[o], HandleKinds) \in Nat
          /\ CountOf(wire[p], AckKinds) \in Nat
      BY <1>2, FlightNat
    <3>2. CountOf(t, AckKinds) \in Nat
      BY <1>11, CountNat
    <3> QED BY <3>1, <3>2, <1>8
  <2>3. f = CountOf(wire[o], HandleKinds) + CountOf(ticks[o], HandleKinds)
              + CountOf(wire[p], AckKinds) + CountOf(ticks'[p], AckKinds)
    OBVIOUS
  <2> HIDE DEF f
  <2>4. \/ Retried(p)'
        \/ /\ f + g <= 1 /\ (f + g > 0 => handleQueue'[p].on)
           /\ NoWraps(wire[o]) /\ NoWraps(ticks[o]) /\ NoWraps(ws)
    <3>1. Retried(p) => Retried(p)'
      BY <1>1, <1>8, WriteAt
    <3>2. ~Retried(p) => /\ f <= 1 /\ (f > 0 => handleQueue[p].on)
                         /\ NoWraps(wire[o]) /\ NoWraps(ticks[o])
      BY <2>1, <1>14 DEF OneFlight
    <3> QED BY <3>1, <3>2, <2>2, <1>1, <1>8
  <2>5. g \in Nat
    BY <2>2
  <2> QED BY <2>2, <2>3, <2>4, <2>5, <1>1, <1>5, <1>8, <1>14, SenderFlight
<1>15. CASE e = o
  <2>1. SameSends(o)
    BY <1>2, OtherSends DEF Tick
  <2>2. Retried(o) \/ NoWraps(s)
    BY <1>15, OtherOther DEF OneFlight
  <2>3. Retried(o) \/ (/\ CountOf(ws, AckKinds) + CountOf(t, HandleKinds) <= CountOf(s, HandleKinds)
                       /\ NoWraps(t))
    <3>1. CountOf(t, HandleKinds) \in Nat
      BY <1>11, CountNat
    <3> QED BY <3>1, <2>2, <1>8, <1>12, <1>13
  <2> QED BY <2>1, <2>3, <1>1, <1>5, <1>8, <1>11, <1>15, AnswerFlight
<1> QED BY <1>2, <1>14, <1>15

(* t is the first n messages of s, perhaps without their handles, u the others. *)
CutAt(s, t, u, n) ==
  /\ n <= Len(s) /\ Len(t) = n /\ Len(u) = Len(s) - n
  /\ \A i \in 1 .. n : t[i].k = s[i].k /\ t[i].id = s[i].id /\ t[i].wraps = s[i].wraps
  /\ \A i \in 1 .. (Len(s) - n) : u[i] = s[i + n]

\* What a read takes from the channel and what it leaves there.
LEMMA CutCounts ==
  ASSUME NEW s \in Seq(Messages), NEW t \in Seq(Messages), NEW u \in Seq(Messages), NEW n \in Nat,
         CutAt(s, t, u, n)
  PROVE  /\ CountOf(s, HandleKinds) = CountOf(t, HandleKinds) + CountOf(u, HandleKinds)
         /\ CountOf(s, AckKinds) = CountOf(t, AckKinds) + CountOf(u, AckKinds)
         /\ CountOf(t, HandleKinds) \in Nat /\ CountOf(u, HandleKinds) \in Nat
         /\ CountOf(t, AckKinds) \in Nat /\ CountOf(u, AckKinds) \in Nat
         /\ NoWraps(s) => NoWraps(t) /\ NoWraps(u)
<1>0. /\ n <= Len(s) /\ Len(t) = n /\ Len(u) = Len(s) - n
      /\ \A i \in 1 .. n : t[i].k = s[i].k /\ t[i].wraps = s[i].wraps
      /\ \A i \in 1 .. (Len(s) - n) : u[i] = s[i + n]
  BY DEF CutAt
<1>1. /\ Len(s) \in Nat /\ DOMAIN s = 1 .. Len(s) /\ DOMAIN t = 1 .. n
      /\ DOMAIN u = 1 .. (Len(s) - n)
  BY <1>0, LenProperties
<1>2. Len(s) = Len(t) + Len(u)
  BY <1>0, <1>1
<1>3. \A i \in 1 .. Len(t) : s[i].k = t[i].k
  BY <1>0
<1>4. \A i \in 1 .. Len(u) : s[i + Len(t)].k = u[i].k
  BY <1>0
<1>8. Parts(s, t, u)
  BY <1>2, <1>3, <1>4 DEF Parts
<1>5. CountOf(s, HandleKinds) = CountOf(t, HandleKinds) + CountOf(u, HandleKinds)
  BY <1>8, CountSplit
<1>6. CountOf(s, AckKinds) = CountOf(t, AckKinds) + CountOf(u, AckKinds)
  BY <1>8, CountSplit
<1>7. NoWraps(s) => NoWraps(t) /\ NoWraps(u)
  <2> SUFFICES ASSUME NoWraps(s) PROVE NoWraps(t) /\ NoWraps(u)
    OBVIOUS
  <2>1. \A i \in 1 .. n : i \in DOMAIN s
    BY <1>0, <1>1
  <2>2. \A i \in 1 .. (Len(s) - n) : i + n \in DOMAIN s
    BY <1>0, <1>1
  <2>3. NoWraps(t)
    BY <2>1, <1>0, <1>1 DEF NoWraps
  <2>4. NoWraps(u)
    BY <2>2, <1>0, <1>1 DEF NoWraps
  <2> QED BY <2>3, <2>4
<1> QED BY <1>5, <1>6, <1>7, CountNat

\* Reading moves what is under way from the channel to the ticks.
LEMMA ReadFlight ==
  ASSUME TypeOK, NEW p \in Ends, NEW n \in 1 .. Len(wire[p]), NEW drop \in BOOLEAN,
         Read(p, n, drop), NEW e \in Ends, OneFlight(e)
  PROVE  OneFlight(e)'
<1> DEFINE o == Other(p)
           s == wire[p]
           t == ticks'[p]
           u == wire'[p]
<1>1. /\ ticks[p] = <<>> /\ t \in Seq(Messages) /\ u \in Seq(Messages)
      /\ Len(t) = n /\ Len(u) = Len(s) - n /\ n \in Nat /\ Len(s) \in Nat
      /\ \A i \in 1 .. n : t[i].k = s[i].k /\ t[i].id = s[i].id /\ t[i].wraps = s[i].wraps
      /\ \A i \in 1 .. (Len(s) - n) : u[i] = s[i + n]
      /\ ticks'[o] = ticks[o] /\ wire'[o] = wire[o] /\ UNCHANGED <<handleQueue, writes>>
  BY ReadParts
<1>2. o \in Ends /\ Other(o) = p /\ \A x \in Ends : x = p \/ x = o
  BY OtherEnd, OtherOther
<1>3. s \in Seq(Messages) /\ DOMAIN s = 1 .. Len(s) /\ DOMAIN t = 1 .. n
      /\ DOMAIN u = 1 .. (Len(s) - n) /\ n <= Len(s)
  <2>1. s \in Seq(Messages)
    BY DEF TypeOK
  <2>2. n <= Len(s)
    BY <1>1
  <2> HIDE DEF s, t, u
  <2> QED BY <2>1, <2>2, <1>1, LenProperties
<1> HIDE DEF s, t, u
<1>4. /\ CountOf(s, HandleKinds) = CountOf(t, HandleKinds) + CountOf(u, HandleKinds)
      /\ CountOf(s, AckKinds) = CountOf(t, AckKinds) + CountOf(u, AckKinds)
      /\ CountOf(t, HandleKinds) \in Nat /\ CountOf(u, HandleKinds) \in Nat
      /\ CountOf(t, AckKinds) \in Nat /\ CountOf(u, AckKinds) \in Nat
      /\ NoWraps(s) => NoWraps(t) /\ NoWraps(u)
  <2>1. CutAt(s, t, u, n)
    BY <1>1, <1>3 DEF CutAt
  <2> QED BY <2>1, <1>1, <1>3, CutCounts
<1>6. \A K : CountOf(ticks[p], K) = 0
  <2>1. ASSUME NEW K PROVE CountOf(<<>>, K) = 0
    <3> DEFINE r == <<>>
    <3>1. r \in Seq(Messages) /\ DOMAIN r = {}
      BY EmptySeq
    <3> HIDE DEF r
    <3>2. CountOf(r, K) = 0
      BY <3>1, CountNat
    <3> QED BY <3>2 DEF r
  <2> QED BY <2>1, <1>1
<1>7. Retried(e)' <=> Retried(e)
  BY <1>1 DEF Retried
<1>8. CASE e = p
  <2>1. Flight(p)' = CountOf(wire[o], HandleKinds) + CountOf(ticks[o], HandleKinds)
                       + CountOf(u, AckKinds) + CountOf(t, AckKinds)
    BY <1>1 DEF Flight, u, t
  <2>2. Flight(p) = CountOf(wire[o], HandleKinds) + CountOf(ticks[o], HandleKinds)
                      + CountOf(s, AckKinds) + CountOf(ticks[p], AckKinds)
    BY DEF Flight, s
  <2>3. CountOf(wire[o], HandleKinds) \in Nat /\ CountOf(ticks[o], HandleKinds) \in Nat
    BY <1>2, FlightNat
  <2>4. Flight(p)' = Flight(p)
    BY <2>1, <2>2, <2>3, <1>4, <1>6
  <2> QED BY <2>4, <1>1, <1>7, <1>8 DEF OneFlight
<1>9. CASE e = o
  <2>1. Flight(o)' = CountOf(u, HandleKinds) + CountOf(t, HandleKinds)
                       + CountOf(wire[o], AckKinds) + CountOf(ticks[o], AckKinds)
    BY <1>1, <1>2 DEF Flight, u, t
  <2>2. Flight(o) = CountOf(s, HandleKinds) + CountOf(ticks[p], HandleKinds)
                      + CountOf(wire[o], AckKinds) + CountOf(ticks[o], AckKinds)
    BY <1>2 DEF Flight, s
  <2>3. CountOf(wire[o], AckKinds) \in Nat /\ CountOf(ticks[o], AckKinds) \in Nat
    BY <1>2, FlightNat
  <2>4. Flight(o)' = Flight(o)
    BY <2>1, <2>2, <2>3, <1>4, <1>6
  <2>5. Retried(o) \/ (NoWraps(u) /\ NoWraps(t))
    BY <1>2, <1>4, <1>9 DEF OneFlight, s
  <2>6. wire'[Other(o)] = u /\ ticks'[Other(o)] = t
    BY <1>2 DEF u, t
  <2>7. OneFlight(o) /\ (Retried(o)' <=> Retried(o)) /\ handleQueue' = handleQueue
    BY <1>1, <1>7, <1>9
  <2> QED BY <2>4, <2>5, <2>6, <2>7, <1>9 DEF OneFlight
<1> QED BY <1>2, <1>8, <1>9

\* Every step keeps the rule at both ends.
LEMMA FlightStep ==
  ASSUME TypeOK, PendingMatches, NEW p \in Ends, Settled(p), NEW e \in Ends, OneFlight(e),
         \/ \E k \in Kinds : send(p, k)
         \/ disconnect(p) \/ Crash(p) \/ Reading(p) \/ Tick(p)
  PROVE  OneFlight(e)'
<1>1. ASSUME NEW k \in Kinds, send(p, k) PROVE OneFlight(e)'
  BY <1>1, SendFlight
<1>2. CASE \/ disconnect(p) \/ Crash(p) \/ ReadEOF(p) \/ EmitMessage(p) \/ RunFinish(p)
           \/ EmitAckFails(p) \/ EmitHandleFails(p)
  BY <1>2, QuietSteps, QuietFlight
<1>3. ASSUME NEW n \in 1 .. Len(wire[p]), NEW drop \in BOOLEAN, Read(p, n, drop) PROVE OneFlight(e)'
  BY <1>3, ReadFlight
<1>4. CASE EmitAck(p)
  BY <1>4, AckFlight
<1>5. CASE EmitHandle(p)
  BY <1>5, HandleFlight
<1> QED BY <1>1, <1>2, <1>3, <1>4, <1>5 DEF Reading, Tick

-----------------------------------------------------------------------------
(* The assertions: AckFindsQueue                                        *)

\* A step of one end leaves these of the other alone.
LEMMA OtherLeft ==
  ASSUME TypeOK, NEW p \in Ends, NEW e \in Ends, e # p,
         \/ \E k \in Kinds : send(p, k)
         \/ disconnect(p) \/ Crash(p) \/ Reading(p) \/ Tick(p)
  PROVE  left'[e] = left[e] /\ SameAt(e)
<1>1. SameAt(e)
  BY StepIsLocal
<1>2. CASE disconnect(p)
  BY <1>2, <1>1 DEF disconnect, TypeOK
<1>3. CASE ~disconnect(p)
  <2>1. UNCHANGED left
    <3>1. EmitAck(p) => UNCHANGED left
      BY EmitAckParts
    <3> QED BY <3>1, <1>3 DEF send, Crash, Reading, Tick, Read, ReadEOF, Die, EmitAckFails,
                        EmitHandleFails, EmitMessage, EmitHandle, RunFinish
  <2> QED BY <2>1, <1>1
<1> QED BY <1>2, <1>3

\* An end that was disconnected by the other one runs finish() and nothing else.
LEMMA LeftStep ==
  ASSUME TypeOK, NEW p \in Ends, LeftBehind(p),
         \/ \E k \in Kinds : send(p, k)
         \/ disconnect(p) \/ Crash(p) \/ Reading(p) \/ Tick(p)
  PROVE  LeftBehind(p)'
<1>0. ticks[p] \in Seq(Messages) /\ Finish \in Messages /\ Finish.k = "finish"
      /\ (ticks[p] # <<>> => Head(ticks[p]) = ticks[p][1] /\ 1 \in DOMAIN ticks[p])
  <2>1. ticks[p] \in Seq(Messages)
    BY DEF TypeOK
  <2>2. Finish \in Messages /\ Finish.k = "finish"
    BY MessageTypes DEF Finish, Msg
  <2> QED BY <2>1, <2>2
<1>1. ASSUME NEW k \in Kinds, send(p, k) PROVE LeftBehind(p)'
  BY <1>1 DEF send, LeftBehind
<1>2. CASE disconnect(p)
  BY <1>2 DEF disconnect, LeftBehind, TypeOK
<1>3. CASE Crash(p) \/ EmitAckFails(p) \/ EmitHandleFails(p)
  <2>1. PICK why : Die(p, why)
    BY <1>3 DEF Crash, EmitAckFails, EmitHandleFails
  <2>2. ended'[p] = TRUE /\ ticks'[p] = <<>>
    BY <2>1 DEF Die, TypeOK
  <2>3. \A i \in DOMAIN ticks'[p] : ticks'[p][i].k = "finish"
    BY <2>2
  <2> QED BY <2>2, <2>3 DEF LeftBehind
<1>4. CASE ReadEOF(p)
  <2>1. ended'[p] = TRUE /\ ticks[p] = <<>>
    BY <1>4 DEF ReadEOF, TypeOK
  <2>2. ticks' = ticks \/ ticks' = [ticks EXCEPT ![p] = Append(@, Finish)]
    BY <1>4 DEF ReadEOF, _disconnect
  <2>3. ticks'[p] = <<>> \/ ticks'[p] = Append(<<>>, Finish)
    BY <2>1, <2>2 DEF TypeOK
  <2>4. \A i \in DOMAIN ticks'[p] : ticks'[p][i].k = "finish"
    <3>1. Append(<<>>, Finish) = <<Finish>>
      OBVIOUS
    <3> QED BY <2>3, <3>1, <1>0
  <2> QED BY <2>1, <2>4 DEF LeftBehind
<1>5. ASSUME NEW n, NEW drop, Read(p, n, drop) PROVE LeftBehind(p)'
  <2>1. UNCHANGED <<left, connected>> /\ ~ended[p]
    BY <1>5 DEF Read
  <2> QED BY <2>1 DEF LeftBehind
<1>6. CASE EmitMessage(p) \/ EmitAck(p) \/ EmitHandle(p)
  <2>1. UNCHANGED <<left, connected>>
    BY <1>6, EmitAckParts DEF EmitMessage, EmitHandle
  <2>2. ticks[p] # <<>> /\ Head(ticks[p]).k # "finish"
    BY <1>6, EmitAckParts DEF EmitMessage, EmitHandle, Emitting
  <2> QED BY <2>1, <2>2, <1>0 DEF LeftBehind
<1>7. CASE RunFinish(p)
  <2>1. UNCHANGED <<left, connected>> /\ ticks[p] # <<>> /\ ticks'[p] = Tail(ticks[p])
        /\ ended'[p] = TRUE
    BY <1>7 DEF RunFinish, TypeOK
  <2>2. \A i \in DOMAIN Tail(ticks[p]) :
          i + 1 \in DOMAIN ticks[p] /\ Tail(ticks[p])[i] = ticks[p][i + 1]
    BY <2>1, <1>0
  <2> QED BY <2>1, <2>2 DEF LeftBehind
<1> QED BY <1>1, <1>2, <1>3, <1>4, <1>5, <1>6, <1>7 DEF Reading, Tick

(* Why an assertion failed. *)
Explained(p) ==
  /\ fault[p] = "ACK without a queue" => Retried(p)
  /\ fault[p] = "ACK after disconnect" => left[p]

\* An end fails an assertion only for the reason it may.
LEMMA ExplainedStep ==
  ASSUME TypeOK, PendingMatches, NEW p \in Ends, Settled(p), OneFlight(p), LeftBehind(p),
         Explained(p),
         \/ \E k \in Kinds : send(p, k)
         \/ disconnect(p) \/ Crash(p) \/ Reading(p) \/ Tick(p)
  PROVE  Explained(p)'
<1>0. /\ ticks[p] \in Seq(Messages) /\ Other(p) \in Ends
      /\ ticks[p] # <<>> => Head(ticks[p]) = ticks[p][1] /\ 1 \in DOMAIN ticks[p]
  <2>1. ticks[p] \in Seq(Messages)
    BY DEF TypeOK
  <2> QED BY <2>1, OtherEnd
<1>1. CASE Crash(p)
  <2>1. fault'[p] = "killed"
    BY <1>1 DEF Crash, Die, TypeOK
  <2> QED BY <2>1 DEF Explained
<1>2. CASE EmitAckFails(p)
  <2>1. fault'[p] = "ACK without a queue" /\ UNCHANGED writes /\ ~handleQueue[p].on
        /\ ticks[p] # <<>> /\ Head(ticks[p]).k \in AckKinds
    BY <1>2 DEF EmitAckFails, Emitting, Die, TypeOK, AckKinds
  <2>2. CountOf(ticks[p], AckKinds) > 0
    <3>1. 1 \in DOMAIN ticks[p] /\ ticks[p][1].k \in AckKinds
      BY <2>1, <1>0
    <3>2. CountOf(ticks[p], AckKinds) \in Nat /\ CountOf(ticks[p], AckKinds) # 0
      BY <3>1, <1>0, CountNat
    <3> QED BY <3>2
  <2>3. Flight(p) > 0
    <3>1. /\ CountOf(wire[Other(p)], HandleKinds) \in Nat
          /\ CountOf(ticks[Other(p)], HandleKinds) \in Nat
          /\ CountOf(wire[p], AckKinds) \in Nat /\ CountOf(ticks[p], AckKinds) \in Nat
      BY <1>0, FlightNat
    <3> QED BY <3>1, <2>2 DEF Flight
  <2>4. Retried(p)
    BY <2>1, <2>3 DEF OneFlight
  <2> QED BY <2>1, <2>4 DEF Explained, Retried
<1>3. CASE EmitHandleFails(p)
  <2>1. fault'[p] = "ACK after disconnect" /\ UNCHANGED left /\ ~connected[p]
        /\ ticks[p] # <<>> /\ Head(ticks[p]).k # "finish"
    BY <1>3 DEF EmitHandleFails, Emitting, Die, TypeOK
  <2>2. left[p]
    BY <2>1, <1>0 DEF LeftBehind
  <2> QED BY <2>1, <2>2 DEF Explained
<1>4. CASE ~(Crash(p) \/ EmitAckFails(p) \/ EmitHandleFails(p))
  <2>1. UNCHANGED fault
    BY <1>4, EmitAckParts DEF send, disconnect, Reading, Read, ReadEOF, Tick, EmitMessage,
       EmitHandle, RunFinish
  <2>2. fault[p] # "none" => FALSE
    BY <1>4, EmitAckParts DEF Alive, send, disconnect, Reading, Read, ReadEOF, Tick, Emitting,
       EmitMessage, EmitHandle, RunFinish
  <2> QED BY <2>1, <2>2 DEF Explained
<1> QED BY <1>1, <1>2, <1>3, <1>4

\* At both ends one handle or answer is under way as long as none was sent
\* again, and an end that the other one left has nothing to answer.
LEMMA EndsExplained == Spec => [](\A p \in Ends : OneFlight(p) /\ LeftBehind(p) /\ Explained(p))
<1> DEFINE SInv == \A p \in Ends : Settled(p)
           AInv == \A p \in Ends : OneFlight(p) /\ LeftBehind(p) /\ Explained(p)
<1>1. Init => AInv
  <2> SUFFICES ASSUME Init, NEW p \in Ends PROVE OneFlight(p) /\ LeftBehind(p) /\ Explained(p)
    OBVIOUS
  <2>1. /\ wire[p] = <<>> /\ ticks[p] = <<>> /\ wire[Other(p)] = <<>> /\ ticks[Other(p)] = <<>>
        /\ connected[p] /\ fault[p] = "none"
    BY OtherEnd DEF Init
  <2>2. \A K : CountOf(<<>>, K) = 0
    <3>1. ASSUME NEW K PROVE CountOf(<<>>, K) = 0
      <4> DEFINE r == <<>>
      <4>1. r \in Seq(Messages) /\ DOMAIN r = {}
        BY EmptySeq
      <4> HIDE DEF r
      <4>2. CountOf(r, K) = 0
        BY <4>1, CountNat
      <4> QED BY <4>2 DEF r
    <3> QED BY <3>1
  <2>3. Flight(p) = 0
    BY <2>1, <2>2 DEF Flight
  <2>4. OneFlight(p)
    BY <2>1, <2>3 DEF OneFlight, NoWraps
  <2> QED BY <2>1, <2>4 DEF LeftBehind, Explained
<1>2. TypeOK /\ PendingMatches /\ SInv /\ AInv /\ [Next]_vars => AInv'
  <2> SUFFICES ASSUME TypeOK, PendingMatches, SInv, AInv, [Next]_vars, NEW e \in Ends
               PROVE  OneFlight(e)' /\ LeftBehind(e)' /\ Explained(e)'
    OBVIOUS
  <2>1. ASSUME NEW p \in Ends,
               \/ \E k \in Kinds : send(p, k)
               \/ disconnect(p) \/ Crash(p) \/ Reading(p) \/ Tick(p)
        PROVE  OneFlight(e)' /\ LeftBehind(e)' /\ Explained(e)'
    <3>1. OneFlight(e)'
      BY <2>1, FlightStep
    <3>2. CASE e = p
      BY <2>1, <3>1, <3>2, LeftStep, ExplainedStep
    <3>3. CASE e # p
      <4>1. left'[e] = left[e] /\ SameAt(e) /\ SameSends(e)
        BY <2>1, <3>3, OtherLeft, OtherSends
      <4>2. LeftBehind(e)'
        BY <4>1 DEF SameAt, LeftBehind
      <4>3. Explained(e)'
        BY <4>1 DEF SameAt, SameSends, Explained, Retried
      <4> QED BY <3>1, <4>2, <4>3
    <3> QED BY <3>2, <3>3
  <2>2. CASE UNCHANGED vars
    BY <2>2 DEF vars, OneFlight, LeftBehind, Explained, Flight, Retried
  <2> QED BY <2>1, <2>2 DEF Next
<1>3. Spec => []SInv
  BY EndsSettled
<1>4. Spec => []AInv
  <2> HIDE DEF SInv, AInv
  <2> QED BY <1>1, <1>2, <1>3, TypeCorrect, OnePending, PTL DEF Spec
<1> QED BY <1>4

\* The ACK handler's assertion that _handleQueue is an array fails only at an
\* end that sent a handle again: as long as none was, one handle or answer is
\* under way, and the queue is on until the answer is there.
THEOREM AcksFindQueue == Spec => []AckFindsQueue
<1> DEFINE AInv == \A p \in Ends : OneFlight(p) /\ LeftBehind(p) /\ Explained(p)
<1>1. AInv => AckFindsQueue
  BY DEF Explained, AckFindsQueue, Retried
<1>2. Spec => []AInv
  BY EndsExplained
<1> HIDE DEF AInv
<1> QED BY <1>1, <1>2, PTL

-----------------------------------------------------------------------------
(* Nothing refused while nothing was lost                                  *)

\* The messages of two sequences that are put together.
LEMMA ConcatElements ==
  ASSUME NEW s \in Seq(Messages), NEW t \in Seq(Messages)
  PROVE  /\ s \o t \in Seq(Messages) /\ Len(s \o t) = Len(s) + Len(t)
         /\ Len(s) \in Nat /\ Len(t) \in Nat
         /\ \A i \in DOMAIN s : i \in Nat /\ i <= Len(s)
         /\ \A i \in DOMAIN t : i \in Nat /\ i >= 1
         /\ \A i \in DOMAIN (s \o t) :
              \/ i \in DOMAIN s /\ (s \o t)[i] = s[i]
              \/ i > Len(s) /\ i - Len(s) \in DOMAIN t /\ (s \o t)[i] = t[i - Len(s)]
<1>1. /\ s \o t \in Seq(Messages) /\ Len(s \o t) = Len(s) + Len(t)
      /\ \A i \in 1 .. Len(s) + Len(t) : (s \o t)[i] = IF i <= Len(s) THEN s[i] ELSE t[i - Len(s)]
  BY ConcatProperties
<1>2. /\ Len(s) \in Nat /\ Len(t) \in Nat /\ DOMAIN s = 1 .. Len(s) /\ DOMAIN t = 1 .. Len(t)
      /\ DOMAIN (s \o t) = 1 .. (Len(s) + Len(t))
  BY <1>1, LenProperties
<1>3. ASSUME NEW i \in 1 .. (Len(s) + Len(t))
      PROVE  \/ i \in DOMAIN s /\ (s \o t)[i] = s[i]
             \/ i > Len(s) /\ i - Len(s) \in DOMAIN t /\ (s \o t)[i] = t[i - Len(s)]
  <2>1. CASE i <= Len(s)
    BY <2>1, <1>1, <1>2
  <2>2. CASE i > Len(s)
    BY <2>2, <1>1, <1>2
  <2> QED BY <2>1, <2>2, <1>2
<1> QED BY <1>1, <1>2, <1>3

\* Putting together and trimming keep what every message of a sequence has.
LEMMA KeptByAll ==
  ASSUME NEW s \in Seq(Messages)
  PROVE  /\ \A t \in Seq(Messages) : /\ HasHandle(s) /\ HasHandle(t) => HasHandle(s \o t)
                                     /\ NoNack(s) /\ NoNack(t) => NoNack(s \o t)
         /\ \A t : Trimmed(t, s) => /\ HasHandle(s) => HasHandle(t)
                                    /\ NoNack(s) => NoNack(t)
<1>1. ASSUME NEW t \in Seq(Messages)
      PROVE  /\ HasHandle(s) /\ HasHandle(t) => HasHandle(s \o t)
             /\ NoNack(s) /\ NoNack(t) => NoNack(s \o t)
  <2>1. \A i \in DOMAIN (s \o t) :
          \/ i \in DOMAIN s /\ (s \o t)[i] = s[i]
          \/ i > Len(s) /\ i - Len(s) \in DOMAIN t /\ (s \o t)[i] = t[i - Len(s)]
    BY ConcatElements
  <2>2. HasHandle(s) /\ HasHandle(t) => HasHandle(s \o t)
    BY <2>1 DEF HasHandle
  <2>3. NoNack(s) /\ NoNack(t) => NoNack(s \o t)
    BY <2>1 DEF NoNack
  <2> QED BY <2>2, <2>3
<1>2. ASSUME NEW t, Trimmed(t, s)
      PROVE  (HasHandle(s) => HasHandle(t)) /\ (NoNack(s) => NoNack(t))
  <2>1. PICK d \in Nat : \A i \in DOMAIN t :
          t[i] \in {EOF, Finish} \/ (i + d \in DOMAIN s /\ t[i] = s[i + d])
    BY <1>2 DEF Trimmed
  <2>2. \A m \in {EOF, Finish} : ~IsHandle(m) /\ m.k # "NODE_HANDLE_NACK"
    BY DEF EOF, Finish, Msg, IsHandle
  <2>3. HasHandle(s) => HasHandle(t)
    BY <2>1, <2>2 DEF HasHandle
  <2>4. NoNack(s) => NoNack(t)
    BY <2>1, <2>2 DEF NoNack
  <2> QED BY <2>3, <2>4
<1> QED BY <1>1, <1>2

\* A quiet step loses and refuses nothing.
LEMMA QuietLoss ==
  ASSUME TypeOK, Quiet, NEW e \in Ends, NoLoss(e)
  PROVE  NoLoss(e)'
<1>0. Other(e) \in Ends /\ wire[e] \in Seq(Messages) /\ ticks[e] \in Seq(Messages)
      /\ wire[Other(e)] \in Seq(Messages) /\ ticks[Other(e)] \in Seq(Messages)
  BY OtherEnd DEF TypeOK
<1>1. /\ Trimmed(wire'[Other(e)], wire[Other(e)]) /\ Trimmed(ticks'[Other(e)], ticks[Other(e)])
      /\ Trimmed(wire'[e], wire[e]) /\ Trimmed(ticks'[e], ticks[e])
  BY <1>0 DEF Quiet
<1>2. /\ HasHandle(wire[Other(e)]) => HasHandle(wire'[Other(e)])
      /\ HasHandle(ticks[Other(e)]) => HasHandle(ticks'[Other(e)])
      /\ NoNack(wire[e]) => NoNack(wire'[e])
      /\ NoNack(ticks[e]) => NoNack(ticks'[e])
  BY <1>0, <1>1, KeptByAll
<1>3. (Retried(e)' <=> Retried(e)) /\ lost' = lost
  BY DEF Quiet, Retried
<1> QED BY <1>2, <1>3 DEF NoLoss

\* A write keeps the rule at the sender when it writes every handle with its
\* message, and sends again only what was lost.
LEMMA SenderLoss ==
  ASSUME TypeOK, NEW p \in Ends, NEW ws \in Seq(Messages), Write(p, ws), HasHandle(ws), NoLoss(p),
         ticks'[Other(p)] = ticks[Other(p)], lost' = lost,
         lost[p] = {} => /\ Retried(p)' => Retried(p)
                         /\ NoNack(ticks[p]) => NoNack(ticks'[p])
  PROVE  NoLoss(p)'
<1>0. Other(p) \in Ends /\ wire[Other(p)] \in Seq(Messages)
  BY OtherEnd DEF TypeOK
<1>1. /\ wire'[p] = wire[p]
      /\ wire'[Other(p)] = wire[Other(p)] \/ wire'[Other(p)] = wire[Other(p)] \o ws
  BY WriteAt
<1>2. HasHandle(wire[Other(p)] \o ws)
  BY <1>0, KeptByAll DEF NoLoss
<1> QED BY <1>1, <1>2 DEF NoLoss

\* It keeps the rule at the reader when it refuses only what was lost.
LEMMA AnswerLoss ==
  ASSUME TypeOK, NEW p \in Ends, NEW ws \in Seq(Messages), Write(p, ws), SameSends(Other(p)),
         NoLoss(Other(p)), ticks'[Other(p)] = ticks[Other(p)], lost' = lost,
         lost[Other(p)] = {} => /\ NoNack(ws)
                                /\ HasHandle(ticks[p]) => HasHandle(ticks'[p])
  PROVE  NoLoss(Other(p))'
<1> DEFINE o == Other(p)
<1>0. o \in Ends /\ Other(o) = p /\ wire[o] \in Seq(Messages)
  BY OtherEnd, OtherOther DEF TypeOK
<1>1. wire'[p] = wire[p] /\ (wire'[o] = wire[o] \/ wire'[o] = wire[o] \o ws)
  BY WriteAt
<1>2. NoNack(wire[o]) /\ NoNack(ws) => NoNack(wire[o] \o ws)
  BY <1>0, KeptByAll
<1>3. Retried(o)' <=> Retried(o)
  BY DEF SameSends, Retried
<1> HIDE DEF o
<1>4. NoLoss(o) /\ ticks'[o] = ticks[o]
      /\ (lost[o] = {} => NoNack(ws) /\ (HasHandle(ticks[p]) => HasHandle(ticks'[p])))
  BY DEF o
<1>5. NoLoss(o)'
  BY <1>0, <1>1, <1>2, <1>3, <1>4 DEF NoLoss
<1> QED BY <1>5 DEF o

\* A run of the user's messages has its handles and refuses nothing.
LEMMA FreshLoss ==
  ASSUME NEW p \in Ends, NEW ws \in Seq(Messages), FreshWrite(p, ws)
  PROVE  HasHandle(ws) /\ NoNack(ws)
<1>1. \A i \in DOMAIN ws : ws[i].k \in UserKinds /\ (IsHandle(ws[i]) => ws[i].has)
  BY LenProperties DEF FreshWrite, Given
<1> QED BY <1>1 DEF HasHandle, NoNack, UserKinds

\* send() keeps the rule at both ends.
LEMMA SendLoss ==
  ASSUME TypeOK, PendingMatches, NEW p \in Ends, NEW k \in Kinds, send(p, k), Settled(p),
         NEW e \in Ends, NoLoss(e)
  PROVE  NoLoss(e)'
<1>1. PICK ws \in Seq(Messages) : FreshWrite(p, ws)
  BY SendRun DEF Settled
<1>2. Write(p, ws) /\ HasHandle(ws) /\ NoNack(ws) /\ (Retried(p)' => Retried(p))
  BY <1>1, FreshLoss DEF FreshWrite
<1>3. ticks' = ticks /\ lost' = lost
  BY DEF send
<1>4. CASE e = p
  BY <1>2, <1>3, <1>4, SenderLoss
<1>5. CASE e = Other(p)
  <2>1. SameSends(Other(p))
    BY OtherSends, OtherEnd
  <2> QED BY <2>1, <1>2, <1>3, <1>5, AnswerLoss
<1> QED BY <1>4, <1>5, OtherOther

\* So does the handler of an answer.
LEMMA AckLoss ==
  ASSUME TypeOK, NEW p \in Ends, EmitAck(p), Settled(p), NEW e \in Ends, NoLoss(e)
  PROVE  NoLoss(e)'
<1>1. /\ ticks[p] # <<>> /\ ticks'[Other(p)] = ticks[Other(p)] /\ lost' = lost
      /\ Trimmed(ticks'[p], ticks[p])
  BY AckTicks
<1>2. ticks[p] \in Seq(Messages) /\ Head(ticks[p]) = ticks[p][1] /\ 1 \in DOMAIN ticks[p]
  <2>1. ticks[p] \in Seq(Messages)
    BY DEF TypeOK
  <2> QED BY <2>1, <1>1
<1>3. /\ HasHandle(ticks[p]) => HasHandle(ticks'[p])
      /\ NoNack(ticks[p]) => NoNack(ticks'[p])
  BY <1>1, <1>2, KeptByAll
<1>4. \E ws \in Seq(Messages) : /\ Write(p, ws) /\ HasHandle(ws) /\ NoNack(ws)
                                /\ NoNack(ticks[p]) => (Retried(p)' => Retried(p))
  <2>1. CASE AckPending(p) = 0
    <3>1. PICK ws \in Seq(Messages) : FreshWrite(p, ws)
      BY <2>1, AckRun DEF Settled
    <3>2. Write(p, ws) /\ HasHandle(ws) /\ NoNack(ws) /\ (Retried(p)' => Retried(p))
      BY <3>1, FreshLoss DEF FreshWrite
    <3> QED BY <3>2
  <2>2. CASE AckPending(p) # 0
    <3> DEFINE m == Rewrapped(pending[p])
               ws == <<m>>
    <3>1. Write(p, ws) /\ Head(ticks[p]).k = "NODE_HANDLE_NACK"
      BY <2>2, AckAgain DEF Settled
    <3>2. ~NoNack(ticks[p])
      BY <3>1, <1>2 DEF NoNack
    <3>3. m \in Messages /\ m.k = "native" /\ m.has
      <4>1. m \in Messages
        BY WritesNat, MessageTypes
      <4> QED BY <4>1 DEF Rewrapped, Msg
    <3> HIDE DEF m
    <3>4. ws \in Seq(Messages) /\ DOMAIN ws = {1} /\ ws[1] = m
      BY <3>3
    <3> HIDE DEF ws
    <3>5. HasHandle(ws) /\ NoNack(ws)
      BY <3>3, <3>4 DEF HasHandle, NoNack
    <3> QED BY <3>1, <3>2, <3>4, <3>5
  <2> QED BY <2>1, <2>2
<1>5. PICK ws \in Seq(Messages) : /\ Write(p, ws) /\ HasHandle(ws) /\ NoNack(ws)
                                  /\ NoNack(ticks[p]) => (Retried(p)' => Retried(p))
  BY <1>4
<1>6. CASE e = p
  <2>1. lost[p] = {} => NoNack(ticks[p])
    BY <1>6 DEF NoLoss
  <2> QED BY <2>1, <1>1, <1>3, <1>5, <1>6, SenderLoss
<1>7. CASE e = Other(p)
  <2>1. SameSends(Other(p))
    BY OtherSends, OtherEnd DEF Tick
  <2> QED BY <2>1, <1>1, <1>3, <1>5, <1>7, AnswerLoss
<1> QED BY <1>6, <1>7, OtherOther

\* Appending one message keeps what it has.
LEMMA AppendKept ==
  ASSUME NEW s \in Seq(Messages), NEW m \in Messages
  PROVE  /\ Append(s, m) \in Seq(Messages) /\ Len(s) \in Nat
         /\ \A i \in DOMAIN s : i \in Nat /\ 1 <= i /\ i <= Len(s) /\ Append(s, m)[i] = s[i]
         /\ Append(s, m)[Len(s) + 1] = m
         /\ \A i \in DOMAIN Append(s, m) : i \in DOMAIN s \/ i = Len(s) + 1
         /\ HasHandle(s) /\ (IsHandle(m) => m.has) => HasHandle(Append(s, m))
         /\ NoNack(s) /\ m.k # "NODE_HANDLE_NACK" => NoNack(Append(s, m))
<1> DEFINE t == Append(s, m)
<1>1. /\ t \in Seq(Messages) /\ Len(s) \in Nat /\ DOMAIN s = 1 .. Len(s)
      /\ DOMAIN t = 1 .. (Len(s) + 1) /\ \A i \in 1 .. Len(s) : t[i] = s[i]
      /\ t[Len(s) + 1] = m
  BY AppendProperties, LenProperties
<1>2. \A i \in 1 .. (Len(s) + 1) : i \in 1 .. Len(s) \/ i = Len(s) + 1
  BY <1>1
<1> HIDE DEF t
<1>3. HasHandle(s) /\ (IsHandle(m) => m.has) => HasHandle(t)
  BY <1>1, <1>2 DEF HasHandle
<1>4. NoNack(s) /\ m.k # "NODE_HANDLE_NACK" => NoNack(t)
  BY <1>1, <1>2 DEF NoNack
<1>5. \A i \in 1 .. Len(s) : i \in Nat /\ 1 <= i /\ i <= Len(s)
  BY <1>1
<1> QED BY <1>1, <1>2, <1>3, <1>4, <1>5 DEF t

\* What the tick of a handle does, by its parts.
LEMMA HandleParts ==
  ASSUME TypeOK, NEW p \in Ends, EmitHandle(p)
  PROVE  LET h == Head(ticks[p])
             a == IF h.has THEN Ack ELSE Nack
         IN  /\ ticks[p] # <<>> /\ h.k \in HandleKinds /\ Write(p, <<a>>)
             /\ a \in Messages /\ a.id = 0 /\ ~IsHandle(a) /\ ~IsUser(a)
             /\ ticks[p] \in Seq(Messages) /\ Tail(ticks[p]) \in Seq(Messages) /\ h \in Messages
             /\ 1 \in DOMAIN ticks[p] /\ h = ticks[p][1] /\ Trimmed(Tail(ticks[p]), ticks[p])
             /\ h.has => ticks'[p] = Append(Tail(ticks[p]), Converted(h))
             /\ ~h.has => ticks'[p] = Tail(ticks[p])
             /\ ticks'[Other(p)] = ticks[Other(p)]
             /\ UNCHANGED <<handleQueue, lost, got, sends>>
<1> DEFINE h == Head(ticks[p])
           a == IF h.has THEN Ack ELSE Nack
<1>1. /\ ticks[p] # <<>> /\ h.k \in HandleKinds /\ Write(p, <<a>>)
      /\ ticks' = [ticks EXCEPT ![p] = IF Head(@).has THEN Append(Tail(@), Converted(Head(@)))
                                                      ELSE Tail(@)]
      /\ UNCHANGED <<handleQueue, lost, got, sends>>
  BY DEF EmitHandle, Emitting, HandleKinds
<1>2. Other(p) \in Ends /\ Other(p) # p
  BY OtherEnd
<1>3. ticks[p] \in Seq(Messages) /\ Tail(ticks[p]) \in Seq(Messages) /\ h \in Messages
  BY <1>1, TickType DEF TypeOK
<1>4. a \in Messages /\ a.id = 0 /\ ~IsHandle(a) /\ ~IsUser(a)
  BY MessageTypes DEF Ack, Nack, Msg, IsHandle, IsUser, UserKinds
<1>5. 1 \in DOMAIN ticks[p] /\ h = ticks[p][1] /\ Trimmed(Tail(ticks[p]), ticks[p])
  BY <1>1, <1>3, TrimmedForms
<1>6. /\ h.has => ticks'[p] = Append(Tail(ticks[p]), Converted(h))
      /\ ~h.has => ticks'[p] = Tail(ticks[p])
      /\ ticks'[Other(p)] = ticks[Other(p)]
  BY <1>1, <1>2 DEF TypeOK
<1> QED BY <1>1, <1>3, <1>4, <1>5, <1>6

\* The tick that answers a handle keeps the rule at both ends: it refuses only
\* a handle that is not there.
LEMMA HandleLoss ==
  ASSUME TypeOK, NEW p \in Ends, EmitHandle(p), NEW e \in Ends, NoLoss(e)
  PROVE  NoLoss(e)'
<1> DEFINE o == Other(p)
           s == ticks[p]
           u == Tail(s)
           t == ticks'[p]
           h == Head(s)
           a == IF h.has THEN Ack ELSE Nack
           ws == <<a>>
           c == Converted(h)
<1>1. /\ h.k \in HandleKinds /\ Write(p, ws) /\ a \in Messages /\ a.id = 0 /\ ~IsHandle(a)
      /\ s \in Seq(Messages) /\ u \in Seq(Messages) /\ h \in Messages
      /\ 1 \in DOMAIN s /\ h = s[1] /\ Trimmed(u, s)
      /\ t = Append(u, c) \/ t = u
      /\ ticks'[o] = ticks[o] /\ lost' = lost
  BY HandleParts
<1>2. o \in Ends /\ o # p /\ Other(o) = p /\ \A x \in Ends : x = p \/ x = o
  BY OtherEnd, OtherOther
<1>3. c \in Messages /\ (IsHandle(c) => c.has) /\ c.k # "NODE_HANDLE_NACK"
  <2>1. c \in Messages
    BY <1>1, MessageTypes
  <2> QED BY <2>1 DEF Converted, Msg, IsHandle
<1>4. h.has => a.k # "NODE_HANDLE_NACK"
  BY DEF Ack, Msg
<1> HIDE DEF a, c, h, u
<1>5. /\ HasHandle(s) => HasHandle(t)
      /\ NoNack(s) => NoNack(t)
  <2>1. /\ HasHandle(s) => HasHandle(u)
        /\ NoNack(s) => NoNack(u)
    BY <1>1, KeptByAll
  <2>2. /\ HasHandle(u) => HasHandle(Append(u, c))
        /\ NoNack(u) => NoNack(Append(u, c))
    BY <1>1, <1>3, AppendKept
  <2> QED BY <2>1, <2>2, <1>1
<1>6. ws \in Seq(Messages) /\ DOMAIN ws = {1} /\ ws[1] = a
  BY <1>1
<1>7. \A i \in 1 .. MaxSends[p] : writes'[p][i] = writes[p][i]
  BY <1>1, UncountedWrite
<1>8. Retried(p)' => Retried(p)
  BY <1>7 DEF Retried
<1> HIDE DEF ws
<1>9. HasHandle(ws) /\ (h.has => NoNack(ws))
  BY <1>1, <1>4, <1>6 DEF HasHandle, NoNack
<1>10. HasHandle(s) => h.has
  BY <1>1 DEF HasHandle, IsHandle, HandleKinds
<1>11. CASE e = p
  BY <1>1, <1>5, <1>6, <1>8, <1>9, <1>11, SenderLoss
<1>12. CASE e = o
  <2>1. SameSends(o)
    BY <1>2, OtherSends DEF Tick
  <2>2. lost[o] = {} => HasHandle(s)
    BY <1>2, <1>12 DEF NoLoss
  <2> QED BY <2>1, <2>2, <1>1, <1>5, <1>6, <1>9, <1>10, <1>12, AnswerLoss
<1> QED BY <1>2, <1>11, <1>12

\* Reading keeps the rule at both ends: a handle that is not there when its
\* message is read is lost.
LEMMA ReadLoss ==
  ASSUME TypeOK, NEW p \in Ends, NEW n \in 1 .. Len(wire[p]), NEW drop \in BOOLEAN,
         Read(p, n, drop), NEW e \in Ends, NoLoss(e)
  PROVE  NoLoss(e)'
<1> DEFINE o == Other(p)
           s == wire[p]
           t == ticks'[p]
           u == wire'[p]
<1>1. /\ ticks[p] = <<>> /\ t \in Seq(Messages) /\ u \in Seq(Messages)
      /\ Len(t) = n /\ Len(u) = Len(s) - n /\ n \in Nat /\ Len(s) \in Nat /\ n <= Len(s)
      /\ \A i \in 1 .. n : t[i].k = s[i].k /\ t[i].has = (s[i].has /\ ~drop)
      /\ \A i \in 1 .. (Len(s) - n) : u[i] = s[i + n]
      /\ ticks'[o] = ticks[o] /\ wire'[o] = wire[o] /\ UNCHANGED <<handleQueue, writes>>
  BY ReadParts
<1>2. o \in Ends /\ Other(o) = p /\ o # p /\ \A x \in Ends : x = p \/ x = o
  BY OtherEnd, OtherOther
<1>3. s \in Seq(Messages) /\ DOMAIN s = 1 .. Len(s) /\ DOMAIN t = 1 .. n
      /\ DOMAIN u = 1 .. (Len(s) - n)
  <2>1. s \in Seq(Messages)
    BY DEF TypeOK
  <2> HIDE DEF s, t, u
  <2> QED BY <2>1, <1>1, LenProperties
<1>4. /\ lost'[p] = lost[p] /\ lost[o] \subseteq lost'[o]
      /\ drop => lost'[o] # {}
  <2>1. /\ lost' = [lost EXCEPT ![o] =
                      IF drop THEN @ \cup {s[i].id : i \in {j \in 1 .. n : IsHandle(s[j])}} ELSE @]
        /\ drop => \E i \in 1 .. n : IsHandle(s[i])
    BY DEF Read
  <2>2. drop => {s[i].id : i \in {j \in 1 .. n : IsHandle(s[j])}} # {}
    BY <2>1
  <2> HIDE DEF s
  <2> QED BY <2>1, <2>2, <1>2 DEF TypeOK
<1> HIDE DEF s, t, u
<1>5. \A i \in 1 .. n : i \in 1 .. Len(s)
  BY <1>1
<1>6. \A i \in 1 .. (Len(s) - n) : i + n \in 1 .. Len(s)
  BY <1>1
<1>7. (HasHandle(s) => HasHandle(u)) /\ (~drop /\ HasHandle(s) => HasHandle(t))
  BY <1>1, <1>3, <1>5, <1>6 DEF HasHandle, IsHandle
<1>8. NoNack(s) => NoNack(u) /\ NoNack(t)
  BY <1>1, <1>3, <1>5, <1>6 DEF NoNack
<1>9. Retried(e)' <=> Retried(e)
  BY <1>1 DEF Retried
<1>10. wire[p] = s /\ wire'[p] = u /\ ticks'[p] = t
  BY DEF s, t, u
<1>11. CASE e = p
  BY <1>1, <1>4, <1>8, <1>9, <1>10, <1>11 DEF NoLoss
<1>12. CASE e = o
  <2>1. HasHandle(s) /\ (lost[o] # {} \/ (/\ HasHandle(ticks[p]) /\ ~Retried(o)
                                          /\ NoNack(wire[o]) /\ NoNack(ticks[o])))
    BY <1>2, <1>10, <1>12 DEF NoLoss
  <2>2. HasHandle(u)
    BY <2>1, <1>7
  <2>3. lost'[o] # {} \/ (/\ HasHandle(t) /\ ~Retried(o)'
                          /\ NoNack(wire'[o]) /\ NoNack(ticks'[o]))
    <3>1. CASE drop
      BY <3>1, <1>4
    <3>2. CASE lost[o] # {}
      BY <3>2, <1>4
    <3>3. CASE ~drop /\ lost[o] = {}
      BY <3>3, <2>1, <1>1, <1>7, <1>9, <1>12
    <3> QED BY <3>1, <3>2, <3>3
  <2>4. NoLoss(o)'
    BY <2>2, <2>3, <1>2, <1>10 DEF NoLoss
  <2> QED BY <2>4, <1>12
<1> QED BY <1>2, <1>11, <1>12

\* Every step keeps the rule at both ends.
LEMMA LossStep ==
  ASSUME TypeOK, PendingMatches, NEW p \in Ends, Settled(p), NEW e \in Ends, NoLoss(e),
         \/ \E k \in Kinds : send(p, k)
         \/ disconnect(p) \/ Crash(p) \/ Reading(p) \/ Tick(p)
  PROVE  NoLoss(e)'
<1>1. ASSUME NEW k \in Kinds, send(p, k) PROVE NoLoss(e)'
  BY <1>1, SendLoss
<1>2. ASSUME \/ disconnect(p) \/ Crash(p) \/ ReadEOF(p) \/ EmitMessage(p) \/ RunFinish(p)
             \/ EmitAckFails(p) \/ EmitHandleFails(p)
      PROVE  NoLoss(e)'
  BY <1>2, QuietSteps, QuietLoss
<1>3. CASE EmitAck(p)
  BY <1>3, AckLoss
<1>4. CASE EmitHandle(p)
  BY <1>4, HandleLoss
<1>5. ASSUME NEW n \in 1 .. Len(wire[p]), NEW drop \in BOOLEAN, Read(p, n, drop) PROVE NoLoss(e)'
  BY <1>5, ReadLoss
<1> QED BY <1>1, <1>2, <1>3, <1>4, <1>5 DEF Reading, Tick

-----------------------------------------------------------------------------
(* Messages in the order they were sent: InOrderUnlessLost                 *)

(* t has messages of s in their order, and beside them messages that are not the user's. *)
Thinned(t, s) ==
  /\ t \in Seq(Messages)
  /\ \E d \in Nat : \A i \in DOMAIN t :
       ~IsUser(t[i]) \/ (i + d \in DOMAIN s /\ t[i].k = s[i + d].k /\ t[i].id = s[i + d].id)

NoHandles(s) == \A i \in DOMAIN s : ~IsHandle(s[i])

\* Trimming thins, and so does writing an answer.
LEMMA ThinnedForms ==
  ASSUME NEW s \in Seq(Messages)
  PROVE  /\ Thinned(s, s)
         /\ \A t : Trimmed(t, s) => Thinned(t, s)
         /\ \A m \in Messages : ~IsUser(m) => Thinned(Append(s, m), s)
<1>1. ASSUME NEW t, Trimmed(t, s) PROVE Thinned(t, s)
  <2>1. t \in Seq(Messages)
    BY <1>1 DEF Trimmed
  <2>2. PICK d \in Nat : \A i \in DOMAIN t :
          t[i] \in {EOF, Finish} \/ (i + d \in DOMAIN s /\ t[i] = s[i + d])
    BY <1>1 DEF Trimmed
  <2>3. \A m \in {EOF, Finish} : ~IsUser(m)
    BY DEF EOF, Finish, Msg, IsUser, UserKinds
  <2> QED BY <2>1, <2>2, <2>3 DEF Thinned
<1>2. Trimmed(s, s)
  BY TrimmedForms
<1>3. ASSUME NEW m \in Messages, ~IsUser(m) PROVE Thinned(Append(s, m), s)
  <2> DEFINE t == Append(s, m)
  <2>1. /\ t \in Seq(Messages) /\ t[Len(s) + 1] = m
        /\ \A i \in DOMAIN s : i \in Nat /\ t[i] = s[i]
        /\ \A i \in DOMAIN t : i \in DOMAIN s \/ i = Len(s) + 1
    BY AppendKept
  <2> HIDE DEF t
  <2>2. \A i \in DOMAIN t :
          ~IsUser(t[i]) \/ (i + 0 \in DOMAIN s /\ t[i].k = s[i + 0].k /\ t[i].id = s[i + 0].id)
    BY <2>1, <1>3
  <2>3. Thinned(t, s)
    BY <2>1, <2>2 DEF Thinned
  <2> QED BY <2>3 DEF t
<1> QED BY <1>1, <1>2, <1>3

\* Thinning keeps the line.
LEMMA ThinLine ==
  ASSUME NEW g \in Seq(Nat), NEW t \in Seq(Messages), NEW w \in Seq(Messages), NEW b \in Nat,
         NEW x, NEW y, Thinned(x, t), Thinned(y, w), InLine(g, t, w, b)
  PROVE  InLine(g, x, y, b)
<1>1. PICK d \in Nat : \A i \in DOMAIN x :
        ~IsUser(x[i]) \/ (i + d \in DOMAIN t /\ x[i].k = t[i + d].k /\ x[i].id = t[i + d].id)
  BY DEF Thinned
<1>2. PICK c \in Nat : \A i \in DOMAIN y :
        ~IsUser(y[i]) \/ (i + c \in DOMAIN w /\ y[i].k = w[i + c].k /\ y[i].id = w[i + c].id)
  BY DEF Thinned
<1>3. /\ x \in Seq(Messages) /\ y \in Seq(Messages)
      /\ \A i \in DOMAIN x : i \in Nat
      /\ \A i \in DOMAIN y : i \in Nat
  BY LenProperties DEF Thinned
<1>4. \A i, j \in DOMAIN x : i < j => i + d < j + d
  BY <1>3
<1>5. \A i, j \in DOMAIN y : i < j => i + c < j + c
  BY <1>3
<1>6. \A i \in DOMAIN x : IsUser(x[i]) => IsUser(t[i + d])
  BY <1>1 DEF IsUser
<1>7. \A i \in DOMAIN y : IsUser(y[i]) => IsUser(w[i + c])
  BY <1>2 DEF IsUser
<1>8. Passed(g, x) /\ Passed(g, y)
  BY <1>1, <1>2, <1>6, <1>7 DEF InLine, Passed
<1>9. Rising(x)
  BY <1>1, <1>4, <1>6 DEF InLine, Rising
<1>10. Rising(y)
  BY <1>2, <1>5, <1>7 DEF InLine, Rising
<1>11. Before(x, y)
  BY <1>1, <1>2, <1>6, <1>7 DEF InLine, Before
<1>12. UpTo(x, b)
  BY <1>1, <1>6 DEF InLine, UpTo, IsHandle
<1>13. UpTo(y, b)
  BY <1>2, <1>7 DEF InLine, UpTo, IsHandle
<1> QED BY <1>8, <1>9, <1>10, <1>11, <1>12, <1>13 DEF InLine

\* The user's next messages join the line at its end, if no handle is in it:
\* whether they are written or, to an end that is gone, not.
LEMMA WriteLine ==
  ASSUME NEW g \in Seq(Nat), NEW t \in Seq(Messages), NEW w \in Seq(Messages), NEW b \in Nat,
         NEW ws \in Seq(Messages), Given(ws, b), InLine(g, t, w, b),
         \A i \in DOMAIN ws : IsHandle(ws[i]) => i = Len(ws),
         ws # <<>> => NoHandles(t) /\ NoHandles(w)
  PROVE  InLine(g, t, w, b + Len(ws)) /\ InLine(g, t, w \o ws, b + Len(ws))
<1> DEFINE n == Len(ws)
           l == Len(w)
           v == w \o ws
           c == b + n
<1>1. /\ v \in Seq(Messages) /\ l \in Nat /\ n \in Nat
      /\ \A i \in DOMAIN w : i \in Nat /\ i <= l
      /\ \A i \in DOMAIN v : \/ i \in DOMAIN w /\ v[i] = w[i]
                             \/ i > l /\ i - l \in DOMAIN ws /\ v[i] = ws[i - l]
  BY ConcatElements
<1>2. /\ DOMAIN ws = 1 .. n
      /\ \A i \in DOMAIN ws : ws[i].id = b + i /\ ws[i].k \in UserKinds
  BY LenProperties DEF Given
<1>3. c \in Nat /\ b <= c /\ (ws = <<>> => c = b)
  <2>1. ws = <<>> => n = 0
    OBVIOUS
  <2> HIDE DEF n, v, l
  <2>2. c \in Nat /\ b <= c
    BY <1>1
  <2>3. n = 0 => c = b
    OBVIOUS
  <2> QED BY <2>1, <2>2, <2>3
<1>4. \A i \in DOMAIN v : i \in Nat
  BY <1>1, LenProperties
<1>5. \A m \in Messages : IsUser(m) /\ m.id <= b => m.id <= c
  <2>1. \A m \in Messages : m.id \in Nat
    BY DEF Messages
  <2> QED BY <2>1, <1>3
<1>6. \A i \in DOMAIN t : t[i] \in Messages
  BY ElementOfSeq, LenProperties
<1>7. \A i \in DOMAIN w : w[i] \in Messages
  BY ElementOfSeq, LenProperties
<1>8. \A i \in DOMAIN ws : ws[i].id \in Nat /\ b < ws[i].id /\ ws[i].id <= c
                           /\ (i = n => ws[i].id = c)
  <2> HIDE DEF n, v, l
  <2>1. \A i \in 1 .. n : b + i \in Nat /\ b < b + i /\ b + i <= c
    BY <1>1
  <2> QED BY <2>1, <1>2
<1>9. \A i \in DOMAIN g : g[i] \in Nat
  BY ElementOfSeq, LenProperties
<1>10. \A m \in Messages : m.id \in Nat
  BY DEF Messages
<1> HIDE DEF c, v, l
<1>11. /\ \A i \in DOMAIN g : g[i] <= b
       /\ Passed(g, t) /\ Passed(g, w) /\ Rising(t) /\ Rising(w) /\ Before(t, w)
       /\ UpTo(t, b) /\ UpTo(w, b)
  BY DEF InLine
<1>12. \A i \in DOMAIN g : g[i] <= c
  BY <1>3, <1>9, <1>11
<1>13. UpTo(t, c)
  <2>1. CASE ws = <<>>
    BY <2>1, <1>3, <1>11
  <2>2. CASE ws # <<>>
    BY <2>2, <1>5, <1>6, <1>11 DEF UpTo, NoHandles
  <2> QED BY <2>1, <2>2
<1>14. UpTo(w, c)
  <2>1. CASE ws = <<>>
    BY <2>1, <1>3, <1>11
  <2>2. CASE ws # <<>>
    BY <2>2, <1>5, <1>7, <1>11 DEF UpTo, NoHandles
  <2> QED BY <2>1, <2>2
<1>15. UpTo(v, c)
  <2> SUFFICES ASSUME NEW i \in DOMAIN v, IsUser(v[i])
               PROVE  v[i].id <= c /\ (IsHandle(v[i]) => v[i].id = c)
    BY DEF UpTo
  <2>1. CASE i \in DOMAIN w /\ v[i] = w[i]
    BY <2>1, <1>14 DEF UpTo
  <2>2. CASE i - l \in DOMAIN ws /\ v[i] = ws[i - l]
    BY <2>2, <1>8
  <2> QED BY <2>1, <2>2, <1>1
<1>16. Passed(g, v)
  <2> SUFFICES ASSUME NEW i \in DOMAIN g, NEW j \in DOMAIN v, IsUser(v[j]) PROVE g[i] < v[j].id
    BY DEF Passed
  <2>1. CASE j \in DOMAIN w /\ v[j] = w[j]
    BY <2>1, <1>11 DEF Passed
  <2>2. CASE j - l \in DOMAIN ws /\ v[j] = ws[j - l]
    BY <2>2, <1>8, <1>9, <1>11
  <2> QED BY <2>1, <2>2, <1>1
<1>17. Before(t, v)
  <2> SUFFICES ASSUME NEW i \in DOMAIN t, NEW j \in DOMAIN v, IsUser(t[i]), IsUser(v[j])
               PROVE  t[i].id < v[j].id
    BY DEF Before
  <2>1. CASE j \in DOMAIN w /\ v[j] = w[j]
    BY <2>1, <1>11 DEF Before
  <2>2. CASE j - l \in DOMAIN ws /\ v[j] = ws[j - l]
    <3>1. t[i].id <= b /\ t[i].id \in Nat
      BY <1>6, <1>10, <1>11 DEF UpTo
    <3> QED BY <2>2, <3>1, <1>8
  <2> QED BY <2>1, <2>2, <1>1
<1>18. Rising(v)
  <2> SUFFICES ASSUME NEW i \in DOMAIN v, NEW j \in DOMAIN v, i < j, IsUser(v[i]), IsUser(v[j])
               PROVE  v[i].id < v[j].id
    BY DEF Rising
  <2>1. CASE i \in DOMAIN w /\ v[i] = w[i] /\ j \in DOMAIN w /\ v[j] = w[j]
    BY <2>1, <1>11 DEF Rising
  <2>2. CASE i \in DOMAIN w /\ v[i] = w[i] /\ j - l \in DOMAIN ws /\ v[j] = ws[j - l]
    <3>1. v[i].id <= b /\ v[i].id \in Nat
      BY <2>2, <1>7, <1>10, <1>11 DEF UpTo
    <3> QED BY <2>2, <3>1, <1>8
  <2>3. CASE i - l \in DOMAIN ws /\ v[i] = ws[i - l] /\ j - l \in DOMAIN ws /\ v[j] = ws[j - l]
    <3>1. v[i].id = b + (i - l) /\ v[j].id = b + (j - l)
      BY <2>3, <1>2
    <3> QED BY <3>1, <1>1, <1>4
  <2>4. CASE i > l /\ j \in DOMAIN w
    BY <2>4, <1>1, <1>4
  <2> QED BY <2>1, <2>2, <2>3, <2>4, <1>1
<1>19. InLine(g, t, w, c)
  BY <1>11, <1>12, <1>13, <1>14 DEF InLine
<1>20. InLine(g, t, v, c)
  BY <1>11, <1>12, <1>13, <1>15, <1>16, <1>17, <1>18 DEF InLine
<1> QED BY <1>19, <1>20 DEF c, v

\* Reading moves the head of the line on to the ticks.
LEMMA ReadLine ==
  ASSUME NEW g \in Seq(Nat), NEW s \in Seq(Messages), NEW t \in Seq(Messages),
         NEW u \in Seq(Messages), NEW n \in Nat, NEW b \in Nat, NEW r,
         CutAt(s, t, u, n), InLine(g, r, s, b)
  PROVE  InLine(g, t, u, b)
<1>1. /\ n <= Len(s) /\ Len(t) = n /\ Len(u) = Len(s) - n
      /\ \A i \in 1 .. n : t[i].k = s[i].k /\ t[i].id = s[i].id
      /\ \A i \in 1 .. (Len(s) - n) : u[i] = s[i + n]
  BY DEF CutAt
<1>2. Len(s) \in Nat /\ DOMAIN s = 1 .. Len(s) /\ DOMAIN t = 1 .. n /\ DOMAIN u = 1 .. (Len(s) - n)
  BY <1>1, LenProperties
<1>3. \A i \in DOMAIN t : i \in DOMAIN s /\ t[i].k = s[i].k /\ t[i].id = s[i].id
  BY <1>1, <1>2
<1>4. \A i \in DOMAIN u : i + n \in DOMAIN s /\ u[i] = s[i + n]
  BY <1>1, <1>2
<1>5. /\ \A i, j \in DOMAIN u : i < j => i + n < j + n
      /\ \A i \in DOMAIN t, j \in DOMAIN u : i < j + n
  BY <1>1, <1>2
<1>6. /\ \A i \in DOMAIN g : g[i] <= b
      /\ Passed(g, s) /\ Rising(s) /\ UpTo(s, b)
  BY DEF InLine
<1>7. Passed(g, t) /\ Rising(t) /\ UpTo(t, b)
  BY <1>3, <1>6 DEF Passed, Rising, UpTo, IsUser, IsHandle
<1>8. Passed(g, u) /\ UpTo(u, b)
  BY <1>4, <1>6 DEF Passed, UpTo
<1>9. Rising(u)
  BY <1>4, <1>5, <1>6 DEF Rising
<1>10. Before(t, u)
  BY <1>3, <1>4, <1>5, <1>6 DEF Before, Rising, IsUser
<1> QED BY <1>6, <1>7, <1>8, <1>9, <1>10 DEF InLine

\* The head of a sequence and its tail.
LEMMA HeadTail ==
  ASSUME NEW t \in Seq(Messages), t # <<>>
  PROVE  /\ Head(t) = t[1] /\ 1 \in DOMAIN t /\ Head(t) \in Messages /\ Tail(t) \in Seq(Messages)
         /\ \A i \in DOMAIN Tail(t) : /\ i \in Nat /\ i + 1 \in DOMAIN t /\ 1 < i + 1
                                      /\ Tail(t)[i] = t[i + 1]
<1>1. /\ Head(t) = t[1] /\ Len(t) \in Nat /\ Len(t) >= 1 /\ DOMAIN t = 1 .. Len(t)
      /\ Tail(t) \in Seq(Messages) /\ DOMAIN Tail(t) = 1 .. (Len(t) - 1)
      /\ \A i \in 1 .. (Len(t) - 1) : Tail(t)[i] = t[i + 1]
  BY LenProperties, HeadTailProperties
<1>2. 1 \in 1 .. Len(t)
      /\ \A i \in 1 .. (Len(t) - 1) : i \in Nat /\ i + 1 \in 1 .. Len(t) /\ 1 < i + 1
  BY <1>1
<1>3. t[1] \in Messages
  BY <1>1, <1>2, ElementOfSeq
<1> QED BY <1>1, <1>2, <1>3

(* The numbers that were emitted are in order. *)
Climbing(g) == \A i, j \in DOMAIN g : i < j => g[i] < g[j]

\* Emitting the message at the head of the line keeps what was emitted in order.
LEMMA MessageLine ==
  ASSUME NEW g \in Seq(Nat), NEW t \in Seq(Messages), NEW w \in Seq(Messages), NEW b \in Nat,
         t # <<>>, IsUser(Head(t)), InLine(g, t, w, b), Climbing(g)
  PROVE  InLine(Append(g, Head(t).id), Tail(t), w, b) /\ Climbing(Append(g, Head(t).id))
<1> DEFINE h == Head(t)
           u == Tail(t)
           x == Append(g, h.id)
           l == Len(g)
<1>1. /\ h = t[1] /\ 1 \in DOMAIN t /\ h \in Messages
      /\ \A i \in DOMAIN u : i \in Nat /\ i + 1 \in DOMAIN t /\ 1 < i + 1 /\ u[i] = t[i + 1]
  BY HeadTail
<1>2. h.id \in Nat
  BY <1>1 DEF Messages
<1>3. /\ l \in Nat /\ DOMAIN x = 1 .. (l + 1) /\ DOMAIN g = 1 .. l
      /\ \A i \in 1 .. l : x[i] = g[i]
      /\ x[l + 1] = h.id
  BY <1>2, AppendProperties, LenProperties
<1>4. \A i \in DOMAIN x : i \in Nat /\ (i \in DOMAIN g \/ i = l + 1)
  BY <1>3
<1>5. \A i, j \in DOMAIN x : i < j => i \in DOMAIN g /\ (j \in DOMAIN g \/ j = l + 1)
  BY <1>3
<1>6. IsUser(h)
  OBVIOUS
<1> HIDE DEF h, u, x, l
<1>7. /\ \A i \in DOMAIN g : g[i] <= b
      /\ Passed(g, t) /\ Passed(g, w) /\ Rising(t) /\ Rising(w) /\ Before(t, w)
      /\ UpTo(t, b) /\ UpTo(w, b)
  BY DEF InLine
<1>8. h.id <= b /\ \A i \in DOMAIN g : g[i] < h.id
  BY <1>1, <1>6, <1>7 DEF UpTo, Passed
<1>9. \A i \in DOMAIN x : x[i] <= b
  BY <1>3, <1>4, <1>7, <1>8
<1>10. \A j \in DOMAIN u : IsUser(u[j]) => h.id < u[j].id
  BY <1>1, <1>6, <1>7 DEF Rising
<1>11. Passed(x, u)
  <2>1. Passed(g, u)
    BY <1>1, <1>7 DEF Passed
  <2> QED BY <2>1, <1>3, <1>4, <1>10 DEF Passed
<1>12. Passed(x, w)
  <2>1. \A j \in DOMAIN w : IsUser(w[j]) => h.id < w[j].id
    BY <1>1, <1>6, <1>7 DEF Before
  <2> QED BY <2>1, <1>3, <1>4, <1>7 DEF Passed
<1>13. Rising(u)
  <2>1. \A i, j \in DOMAIN u : i < j => i + 1 < j + 1
    BY <1>1
  <2> QED BY <2>1, <1>1, <1>7 DEF Rising
<1>14. Before(u, w) /\ UpTo(u, b)
  BY <1>1, <1>7 DEF Before, UpTo
<1>15. Climbing(x)
  BY <1>3, <1>5, <1>8 DEF Climbing
<1>16. InLine(x, u, w, b)
  BY <1>7, <1>9, <1>11, <1>12, <1>13, <1>14 DEF InLine
<1> QED BY <1>15, <1>16 DEF x, u, h

\* The number of each message of a sequence.
LEMMA NumbersNat ==
  ASSUME NEW s \in Seq(Messages)
  PROVE  \A i \in DOMAIN s : s[i].id \in Nat
<1>1. \A i \in DOMAIN s : s[i] \in Messages
  BY ElementOfSeq, LenProperties
<1>2. \A m \in Messages : m.id \in Nat
  BY DEF Messages
<1> QED BY <1>1, <1>2

\* The message of a handle takes its place in the line, in a tick of its own:
\* nothing that was sent after it is in the line yet.
LEMMA HandleLine ==
  ASSUME NEW g \in Seq(Nat), NEW t \in Seq(Messages), NEW w \in Seq(Messages), NEW b \in Nat,
         t # <<>>, IsHandle(Head(t)), InLine(g, t, w, b),
         NEW c \in Messages, c.k = "msg", c.id = Head(t).id
  PROVE  InLine(g, Append(Tail(t), c), w, b)
<1> DEFINE h == Head(t)
           u == Tail(t)
           x == Append(u, c)
           l == Len(u)
<1>1. /\ h = t[1] /\ 1 \in DOMAIN t /\ h \in Messages /\ u \in Seq(Messages)
      /\ \A i \in DOMAIN u : i \in Nat /\ i + 1 \in DOMAIN t /\ 1 < i + 1 /\ u[i] = t[i + 1]
  BY HeadTail
<1>2. c.id = h.id /\ c.id \in Nat /\ IsUser(h) /\ IsHandle(h)
  BY DEF Messages, IsUser, IsHandle, UserKinds
<1> HIDE DEF h, u
<1>3. \A i \in DOMAIN u : u[i].id \in Nat
  BY <1>1, NumbersNat
<1>4. \A i \in DOMAIN w : w[i].id \in Nat
  BY NumbersNat
<1>5. /\ x[l + 1] = c /\ \A i \in DOMAIN u : x[i] = u[i]
      /\ \A i \in DOMAIN x : i \in DOMAIN u \/ i = l + 1
      /\ \A i \in DOMAIN u : i <= l
      /\ l \in Nat
  BY <1>1, AppendKept
<1> HIDE DEF x, l
<1>6. /\ \A i \in DOMAIN g : g[i] <= b
      /\ Passed(g, t) /\ Passed(g, w) /\ Rising(t) /\ Rising(w) /\ Before(t, w)
      /\ UpTo(t, b) /\ UpTo(w, b)
  BY DEF InLine
<1>7. c.id = b
  BY <1>1, <1>2, <1>6 DEF UpTo
<1>8. \A i \in DOMAIN u : ~IsUser(u[i])
  <2> SUFFICES ASSUME NEW i \in DOMAIN u, IsUser(u[i]) PROVE FALSE
    OBVIOUS
  <2>1. h.id < u[i].id
    BY <1>1, <1>2, <1>6 DEF Rising
  <2>2. u[i].id <= b
    BY <1>1, <1>6 DEF UpTo
  <2> QED BY <2>1, <2>2, <1>2, <1>3, <1>7
<1>9. \A j \in DOMAIN w : ~IsUser(w[j])
  <2> SUFFICES ASSUME NEW j \in DOMAIN w, IsUser(w[j]) PROVE FALSE
    OBVIOUS
  <2>1. h.id < w[j].id
    BY <1>1, <1>2, <1>6 DEF Before
  <2>2. w[j].id <= b
    BY <1>6 DEF UpTo
  <2> QED BY <2>1, <2>2, <1>2, <1>4, <1>7
<1>10. \A i \in DOMAIN x : IsUser(x[i]) => i = l + 1 /\ x[i] = c
  BY <1>5, <1>8
<1>11. \A i \in DOMAIN g : g[i] < c.id
  BY <1>1, <1>2, <1>6 DEF Passed
<1>12. Passed(g, x)
  BY <1>10, <1>11 DEF Passed
<1>13. Rising(x)
  <2>1. ~(l + 1 < l + 1)
    BY <1>5
  <2> QED BY <2>1, <1>10 DEF Rising
<1>14. Before(x, w)
  BY <1>9 DEF Before
<1>15. UpTo(x, b)
  BY <1>2, <1>7, <1>10 DEF UpTo
<1> QED BY <1>6, <1>12, <1>13, <1>14, <1>15 DEF InLine, x, u

\* What the line of an end is made of.
LEMMA LineTypes ==
  ASSUME TypeOK, NEW e \in Ends, Settled(e)
  PROVE  /\ Other(e) \in Ends /\ got[Other(e)] \in Seq(Nat) /\ ticks[Other(e)] \in Seq(Messages)
         /\ wire[Other(e)] \in Seq(Messages) /\ Base(e) \in Nat
<1>1. Other(e) \in Ends
  BY OtherEnd
<1>2. got[Other(e)] \in Seq(Nat) /\ ticks[Other(e)] \in Seq(Messages)
      /\ wire[Other(e)] \in Seq(Messages)
  BY <1>1 DEF TypeOK
<1>3. sends[e] \in Nat /\ Len(handleQueue[e].q) \in Nat /\ Len(handleQueue[e].q) <= sends[e]
  BY WritesNat DEF Settled, Numbered
<1>4. Base(e) \in Nat
  BY <1>3 DEF Base
<1> QED BY <1>1, <1>2, <1>4

\* A step that only thins the line, and emits nothing of it, keeps it.
LEMMA LineKept ==
  ASSUME TypeOK, NEW e \in Ends, Settled(e), OnTime(e), got'[Other(e)] = got[Other(e)],
         Thinned(ticks'[Other(e)], ticks[Other(e)]), Thinned(wire'[Other(e)], wire[Other(e)]),
         Base(e)' = Base(e)
  PROVE  OnTime(e)'
<1> DEFINE o == Other(e)
<1>1. /\ got[o] \in Seq(Nat) /\ ticks[o] \in Seq(Messages) /\ wire[o] \in Seq(Messages)
      /\ Base(e) \in Nat
  BY LineTypes
<1>2. InLine(got[o], ticks[o], wire[o], Base(e))
  BY DEF OnTime
<1>3. InLine(got[o], ticks'[o], wire'[o], Base(e))
  BY <1>1, <1>2, ThinLine
<1>4. InLine(got'[o], ticks'[o], wire'[o], Base(e)')
  BY <1>3
<1>5. Ordered(o)'
  BY DEF OnTime, Ordered
<1> QED BY <1>4, <1>5 DEF OnTime

\* disconnect() and the end of a process or a channel keep the line.
LEMMA QuietLine ==
  ASSUME TypeOK, Quiet, NEW e \in Ends, Settled(e), OnTime(e), got'[Other(e)] = got[Other(e)]
  PROVE  OnTime(e)'
<1>1. /\ Other(e) \in Ends /\ ticks[Other(e)] \in Seq(Messages) /\ wire[Other(e)] \in Seq(Messages)
  BY LineTypes
<1>2. Trimmed(ticks'[Other(e)], ticks[Other(e)]) /\ Trimmed(wire'[Other(e)], wire[Other(e)])
  BY <1>1 DEF Quiet
<1>3. Thinned(ticks'[Other(e)], ticks[Other(e)]) /\ Thinned(wire'[Other(e)], wire[Other(e)])
  BY <1>1, <1>2, ThinnedForms
<1>4. Base(e)' = Base(e)
  BY DEF Quiet, Base
<1> QED BY <1>3, <1>4, LineKept

\* The tick of a message keeps the line of the other end, and its user gets the
\* messages in order.
LEMMA MessageOnTime ==
  ASSUME TypeOK, NEW p \in Ends, EmitMessage(p), NEW e \in Ends, Settled(e), OnTime(e)
  PROVE  OnTime(e)'
<1> DEFINE t == ticks[p]
           g == got[p]
<1>1. /\ t # <<>> /\ Head(t).k = "msg"
      /\ got' = [got EXCEPT ![p] = Append(@, Head(t).id)]
      /\ ticks' = [ticks EXCEPT ![p] = Tail(@)]
      /\ UNCHANGED <<wire, handleQueue, sends>>
  BY DEF EmitMessage, Emitting
<1>2. Quiet
  BY QuietSteps
<1>3. Base(e)' = Base(e)
  BY <1>1 DEF Base
<1>4. CASE e = p
  <2>1. got'[Other(e)] = got[Other(e)]
    BY <1>1, <1>4, OtherEnd DEF TypeOK
  <2> QED BY <2>1, <1>2, QuietLine
<1>5. CASE Other(e) = p
  <2>1. g \in Seq(Nat) /\ t \in Seq(Messages) /\ wire[p] \in Seq(Messages) /\ Base(e) \in Nat
    BY <1>5, LineTypes
  <2>2. InLine(g, t, wire[p], Base(e)) /\ Climbing(g)
    BY <1>5 DEF OnTime, Ordered, Climbing
  <2>3. IsUser(Head(t))
    BY <1>1 DEF IsUser, UserKinds
  <2>4. got'[p] = Append(g, Head(t).id) /\ ticks'[p] = Tail(t) /\ wire'[p] = wire[p]
    BY <1>1 DEF TypeOK
  <2> HIDE DEF t, g
  <2>5. InLine(Append(g, Head(t).id), Tail(t), wire[p], Base(e)) /\ Climbing(Append(g, Head(t).id))
    BY <2>1, <2>2, <2>3, <1>1, MessageLine
  <2>6. InLine(got'[p], ticks'[p], wire'[p], Base(e)') /\ Climbing(got'[p])
    BY <2>4, <2>5, <1>3
  <2> QED BY <2>6, <1>5 DEF OnTime, Ordered, Climbing
<1> QED BY <1>4, <1>5, OtherOther

\* While the queue is off, and when an answer comes, no handle is under way.
LEMMA NoneUnderWay ==
  ASSUME TypeOK, NEW p \in Ends, OneFlight(p), ~Retried(p),
         ~handleQueue[p].on \/ CountOf(ticks[p], AckKinds) >= 1
  PROVE  NoHandles(wire[Other(p)]) /\ NoHandles(ticks[Other(p)])
<1> DEFINE o == Other(p)
           a == CountOf(wire[o], HandleKinds)
           b == CountOf(ticks[o], HandleKinds)
           c == CountOf(wire[p], AckKinds)
           d == CountOf(ticks[p], AckKinds)
<1>1. o \in Ends /\ wire[o] \in Seq(Messages) /\ ticks[o] \in Seq(Messages)
  BY OtherEnd DEF TypeOK
<1>2. a \in Nat /\ b \in Nat /\ c \in Nat /\ d \in Nat
  BY <1>1, FlightNat
<1>3. Flight(p) = a + b + c + d
  BY DEF Flight
<1>4. Flight(p) <= 1 /\ (Flight(p) > 0 => handleQueue[p].on)
  BY DEF OneFlight
<1>5. ~handleQueue[p].on \/ d >= 1
  OBVIOUS
<1>6. /\ a = 0 <=> \A i \in DOMAIN wire[o] : wire[o][i].k \notin HandleKinds
      /\ b = 0 <=> \A i \in DOMAIN ticks[o] : ticks[o][i].k \notin HandleKinds
  BY <1>1, CountNat
<1> HIDE DEF a, b, c, d
<1>7. a = 0 /\ b = 0
  BY <1>2, <1>3, <1>4, <1>5
<1> QED BY <1>6, <1>7 DEF NoHandles, IsHandle, HandleKinds

\* The user's next messages, written while no handle is under way, keep the line.
LEMMA FreshLine ==
  ASSUME TypeOK, NEW p \in Ends, Settled(p), OnTime(p), NEW ws \in Seq(Messages),
         FreshWrite(p, ws),
         ws # <<>> => NoHandles(wire[Other(p)]) /\ NoHandles(ticks[Other(p)]),
         got'[Other(p)] = got[Other(p)], ticks'[Other(p)] = ticks[Other(p)]
  PROVE  OnTime(p)'
<1> DEFINE o == Other(p)
<1>1. /\ got[o] \in Seq(Nat) /\ ticks[o] \in Seq(Messages) /\ wire[o] \in Seq(Messages)
      /\ Base(p) \in Nat
  BY LineTypes
<1>2. /\ Write(p, ws) /\ Given(ws, Base(p)) /\ Base(p)' = Base(p) + Len(ws)
      /\ \A i \in DOMAIN ws : IsHandle(ws[i]) => i = Len(ws)
  BY DEF FreshWrite
<1>3. InLine(got[o], ticks[o], wire[o], Base(p)) /\ Ordered(o)
  BY DEF OnTime
<1>4. wire'[o] = wire[o] \/ wire'[o] = wire[o] \o ws
  BY <1>2, WriteAt
<1>5. /\ InLine(got[o], ticks[o], wire[o], Base(p) + Len(ws))
      /\ InLine(got[o], ticks[o], wire[o] \o ws, Base(p) + Len(ws))
  <2> HIDE DEF o
  <2>1. ws # <<>> => NoHandles(ticks[o]) /\ NoHandles(wire[o])
    BY DEF o
  <2> QED BY <2>1, <1>1, <1>2, <1>3, WriteLine
<1>6. InLine(got'[o], ticks'[o], wire'[o], Base(p)')
  BY <1>2, <1>4, <1>5
<1>7. Ordered(o)'
  BY <1>3 DEF Ordered
<1> QED BY <1>6, <1>7 DEF OnTime

\* send() of the user keeps the line of both ends.
LEMMA SendOnTime ==
  ASSUME TypeOK, PendingMatches, NEW p \in Ends, NEW k \in Kinds, send(p, k), Settled(p),
         NEW e \in Ends, Settled(e), OneFlight(e), ~Retried(e), OnTime(e)
  PROVE  OnTime(e)'
<1>1. PICK ws \in Seq(Messages) : FreshWrite(p, ws) /\ (ws # <<>> => ~handleQueue[p].on)
  BY SendRun DEF Settled
<1>2. ticks' = ticks /\ got' = got
  BY DEF send
<1>3. CASE e = p
  <2>1. ws # <<>> => NoHandles(wire[Other(p)]) /\ NoHandles(ticks[Other(p)])
    BY <1>1, <1>3, NoneUnderWay
  <2> QED BY <2>1, <1>1, <1>2, <1>3, FreshLine
<1>4. CASE e = Other(p)
  <2>1. SameSends(e)
    BY <1>4, OtherSends, OtherEnd
  <2>2. Write(p, ws)
    BY <1>1 DEF FreshWrite
  <2>3. Base(e)' = Base(e) /\ Other(e) = p
    BY <2>1, <1>4, OtherOther DEF SameSends, Base
  <2>4. wire'[p] = wire[p]
    BY <2>2, WriteAt
  <2>5. Thinned(wire[p], wire[p]) /\ Thinned(ticks[p], ticks[p])
    BY ThinnedForms DEF TypeOK
  <2> QED BY <2>3, <2>4, <2>5, <1>2, LineKept
<1> QED BY <1>3, <1>4, OtherOther

\* So does the handler of an answer, which is an ACK here.
LEMMA AckOnTime ==
  ASSUME TypeOK, NEW p \in Ends, EmitAck(p), Settled(p),
         NEW e \in Ends, Settled(e), OneFlight(e), NoLoss(e), lost[e] = {}, OnTime(e)
  PROVE  OnTime(e)'
<1>1. /\ ticks[p] # <<>> /\ ticks'[Other(p)] = ticks[Other(p)] /\ got' = got
      /\ Trimmed(ticks'[p], ticks[p])
      /\ CountOf(ticks'[p], AckKinds) \in Nat
      /\ CountOf(ticks'[p], AckKinds) + 1 <= CountOf(ticks[p], AckKinds)
  BY AckTicks
<1>2. ticks[p] \in Seq(Messages) /\ Other(p) \in Ends
  BY OtherEnd DEF TypeOK
<1>3. CASE e = p
  <2>1. ~Retried(p) /\ NoNack(ticks[p])
    BY <1>3 DEF NoLoss
  <2>2. CountOf(ticks[p], AckKinds) >= 1
    <3>1. CountOf(ticks[p], AckKinds) \in Nat
      BY <1>2, CountNat
    <3> QED BY <3>1, <1>1
  <2>3. NoHandles(wire[Other(p)]) /\ NoHandles(ticks[Other(p)])
    BY <2>1, <2>2, <1>3, NoneUnderWay
  <2>4. AckPending(p) = 0
    <3> SUFFICES ASSUME AckPending(p) # 0 PROVE FALSE
      OBVIOUS
    <3>1. Head(ticks[p]).k = "NODE_HANDLE_NACK"
      BY AckAgain DEF Settled
    <3>2. Head(ticks[p]) = ticks[p][1] /\ 1 \in DOMAIN ticks[p]
      BY <1>1, <1>2, HeadTail
    <3> QED BY <3>1, <3>2, <2>1 DEF NoNack
  <2>5. PICK ws \in Seq(Messages) : FreshWrite(p, ws)
    BY <2>4, AckRun DEF Settled
  <2> QED BY <2>3, <2>5, <1>1, <1>3, FreshLine
<1>4. CASE e = Other(p)
  <2>1. SameSends(e)
    BY <1>4, OtherSends, OtherEnd DEF Tick
  <2>2. \E ws \in Seq(Messages) : Write(p, ws)
    <3>1. CASE AckPending(p) = 0
      BY <3>1, AckRun DEF FreshWrite, Settled
    <3>2. CASE AckPending(p) # 0
      <4> DEFINE m == Rewrapped(pending[p])
      <4>1. Write(p, <<m>>)
        BY <3>2, AckAgain DEF Settled
      <4>2. m \in Messages
        BY WritesNat, MessageTypes
      <4> HIDE DEF m
      <4>3. <<m>> \in Seq(Messages)
        BY <4>2
      <4> QED BY <4>1, <4>3
    <3> QED BY <3>1, <3>2
  <2>3. Base(e)' = Base(e) /\ Other(e) = p
    BY <2>1, <1>4, OtherOther DEF SameSends, Base
  <2>4. wire'[p] = wire[p]
    BY <2>2, WriteAt
  <2>5. Thinned(wire[p], wire[p]) /\ Thinned(ticks'[p], ticks[p])
    BY <1>1, ThinnedForms DEF TypeOK
  <2> QED BY <2>3, <2>4, <2>5, <1>1, LineKept
<1> QED BY <1>3, <1>4, OtherOther

\* So does the tick of a handle: its answer is nothing of the user's line, and
\* its message is emitted before any that the other end sends after the answer.
LEMMA HandleOnTime ==
  ASSUME TypeOK, NEW p \in Ends, EmitHandle(p),
         NEW e \in Ends, Settled(e), OneFlight(e), NoLoss(e), lost[e] = {}, OnTime(e)
  PROVE  OnTime(e)'
<1> DEFINE o == Other(p)
           t == ticks[p]
           h == Head(t)
           a == IF h.has THEN Ack ELSE Nack
           c == Converted(h)
<1>1. /\ t # <<>> /\ h.k \in HandleKinds /\ Write(p, <<a>>) /\ a \in Messages /\ ~IsUser(a)
      /\ t \in Seq(Messages) /\ h \in Messages /\ 1 \in DOMAIN t /\ h = t[1]
      /\ Trimmed(Tail(t), t)
      /\ h.has => ticks'[p] = Append(Tail(t), c)
      /\ ~h.has => ticks'[p] = Tail(t)
      /\ ticks'[o] = ticks[o]
      /\ UNCHANGED <<handleQueue, lost, got, sends>>
  BY HandleParts
<1>2. o \in Ends /\ Other(o) = p /\ wire[o] \in Seq(Messages) /\ wire[p] \in Seq(Messages)
      /\ ticks[o] \in Seq(Messages)
  BY OtherEnd, OtherOther DEF TypeOK
<1> DEFINE ws == <<a>>
<1> HIDE DEF a
<1>3. ws \in Seq(Messages) /\ Write(p, ws) /\ DOMAIN ws = {1} /\ ws[1] = a
  BY <1>1
<1> HIDE DEF ws
<1>4. wire'[p] = wire[p] /\ (wire'[o] = wire[o] \/ wire'[o] = wire[o] \o ws)
  BY <1>3, WriteAt
<1>5. Base(e)' = Base(e)
  BY <1>1 DEF Base
<1>6. CASE e = p
  <2>1. Thinned(ticks[o], ticks[o]) /\ Thinned(wire[o], wire[o])
    BY <1>2, ThinnedForms
  <2>2. wire[o] \o ws = Append(wire[o], a)
    BY <1>1, <1>2 DEF ws
  <2>3. Thinned(wire[o] \o ws, wire[o])
    BY <2>2, <1>1, <1>2, ThinnedForms
  <2> QED BY <2>1, <2>3, <1>1, <1>4, <1>5, <1>6, LineKept
<1>7. CASE e = o
  <2>1. /\ got[p] \in Seq(Nat) /\ Base(o) \in Nat
    BY <1>2, <1>7, LineTypes
  <2>2. InLine(got[p], t, wire[p], Base(o)) /\ Ordered(p)
    BY <1>2, <1>7 DEF OnTime
  <2>3. h.has /\ ~h.wraps
    <3>1. HasHandle(t) /\ ~Retried(o)
      BY <1>2, <1>7 DEF NoLoss
    <3>2. NoWraps(t)
      BY <3>1, <1>2, <1>7 DEF OneFlight
    <3> QED BY <3>1, <3>2, <1>1 DEF HasHandle, NoWraps, IsHandle, HandleKinds
  <2>4. c \in Messages /\ c.k = "msg" /\ c.id = h.id
    <3>1. h.id \in Nat
      BY <1>1 DEF Messages
    <3> QED BY <2>3, <3>1 DEF Converted, Msg, Messages
  <2>5. IsHandle(h)
    BY <1>1 DEF IsHandle, HandleKinds
  <2> HIDE DEF t, c
  <2>6. InLine(got[p], Append(Tail(t), c), wire[p], Base(o))
    <3> HIDE DEF h
    <3>1. c.id = Head(t).id /\ IsHandle(Head(t))
      BY <2>4, <2>5 DEF h
    <3> QED BY <3>1, <2>1, <2>2, <2>4, <1>1, <1>2, HandleLine
  <2>7. InLine(got'[p], ticks'[p], wire'[p], Base(o)') /\ Ordered(p)'
    BY <2>2, <2>3, <2>6, <1>1, <1>4, <1>5, <1>7 DEF Ordered
  <2> QED BY <2>7, <1>2, <1>7 DEF OnTime
<1> QED BY <1>6, <1>7, OtherOther

\* So does reading.
LEMMA ReadOnTime ==
  ASSUME TypeOK, NEW p \in Ends, NEW n \in 1 .. Len(wire[p]), NEW drop \in BOOLEAN,
         Read(p, n, drop), NEW e \in Ends, Settled(e), OnTime(e)
  PROVE  OnTime(e)'
<1> DEFINE s == wire[p]
           t == ticks'[p]
           u == wire'[p]
<1>1. /\ t \in Seq(Messages) /\ u \in Seq(Messages)
      /\ Len(t) = n /\ Len(u) = Len(s) - n /\ n \in Nat /\ n <= Len(s)
      /\ \A i \in 1 .. n : t[i].k = s[i].k /\ t[i].id = s[i].id /\ t[i].wraps = s[i].wraps
      /\ \A i \in 1 .. (Len(s) - n) : u[i] = s[i + n]
      /\ ticks'[Other(p)] = ticks[Other(p)] /\ wire'[Other(p)] = wire[Other(p)]
      /\ UNCHANGED <<handleQueue, sends, got>>
  BY ReadParts
<1>2. Base(e)' = Base(e)
  BY <1>1 DEF Base
<1>3. CASE e = p
  <2>1. Thinned(ticks[Other(p)], ticks[Other(p)]) /\ Thinned(wire[Other(p)], wire[Other(p)])
    BY ThinnedForms, OtherEnd DEF TypeOK
  <2> QED BY <2>1, <1>1, <1>2, <1>3, LineKept
<1>4. CASE Other(e) = p
  <2>1. got[p] \in Seq(Nat) /\ s \in Seq(Messages) /\ Base(e) \in Nat
    BY <1>4, LineTypes
  <2>2. InLine(got[p], ticks[p], s, Base(e)) /\ Ordered(p)
    BY <1>4 DEF OnTime
  <2> HIDE DEF s, t, u
  <2>3. CutAt(s, t, u, n)
    BY <1>1 DEF CutAt
  <2>4. InLine(got[p], t, u, Base(e))
    BY <2>1, <2>2, <2>3, <1>1, ReadLine
  <2>5. InLine(got'[p], ticks'[p], wire'[p], Base(e)') /\ Ordered(p)'
    BY <2>2, <2>4, <1>1, <1>2 DEF t, u, Ordered
  <2> QED BY <2>5, <1>4 DEF OnTime
<1> QED BY <1>3, <1>4, OtherOther

\* Every step keeps the line of both ends as long as no handle was lost.
LEMMA OnTimeStep ==
  ASSUME TypeOK, PendingMatches, NEW p \in Ends, Settled(p),
         NEW e \in Ends, Settled(e), OneFlight(e), NoLoss(e), lost[e] = {}, OnTime(e),
         \/ \E k \in Kinds : send(p, k)
         \/ disconnect(p) \/ Crash(p) \/ Reading(p) \/ Tick(p)
  PROVE  OnTime(e)'
<1>1. ASSUME NEW k \in Kinds, send(p, k) PROVE OnTime(e)'
  <2>1. ~Retried(e)
    BY DEF NoLoss
  <2> QED BY <1>1, <2>1, SendOnTime
<1>2. ASSUME disconnect(p) \/ Crash(p) \/ ReadEOF(p) \/ RunFinish(p)
             \/ EmitAckFails(p) \/ EmitHandleFails(p)
      PROVE  OnTime(e)'
  <2>1. got' = got
    BY <1>2 DEF disconnect, Crash, Die, ReadEOF, RunFinish, EmitAckFails, EmitHandleFails
  <2>2. Quiet
    BY <1>2, QuietSteps
  <2> QED BY <2>1, <2>2, QuietLine
<1>3. CASE EmitMessage(p)
  BY <1>3, MessageOnTime
<1>4. CASE EmitAck(p)
  BY <1>4, AckOnTime
<1>5. CASE EmitHandle(p)
  BY <1>5, HandleOnTime
<1>6. ASSUME NEW n \in 1 .. Len(wire[p]), NEW drop \in BOOLEAN, Read(p, n, drop) PROVE OnTime(e)'
  BY <1>6, ReadOnTime
<1> QED BY <1>1, <1>2, <1>3, <1>4, <1>5, <1>6 DEF Reading, Tick

\* A lost handle stays lost.
LEMMA LostGrows ==
  ASSUME TypeOK, NEW p \in Ends, NEW e \in Ends,
         \/ \E k \in Kinds : send(p, k)
         \/ disconnect(p) \/ Crash(p) \/ Reading(p) \/ Tick(p)
  PROVE  lost[e] \subseteq lost'[e]
<1>1. ASSUME NEW k \in Kinds, send(p, k) PROVE lost' = lost
  BY <1>1 DEF send
<1>2. ASSUME \/ disconnect(p) \/ Crash(p) \/ ReadEOF(p) \/ EmitMessage(p) \/ RunFinish(p)
             \/ EmitAckFails(p) \/ EmitHandleFails(p)
      PROVE  lost' = lost
  BY <1>2, QuietSteps DEF Quiet
<1>3. EmitAck(p) \/ EmitHandle(p) => lost' = lost
  BY DEF EmitAck, EmitHandle
<1>4. ASSUME NEW n \in 1 .. Len(wire[p]), NEW drop \in BOOLEAN, Read(p, n, drop)
      PROVE  lost[e] \subseteq lost'[e]
  <2>1. PICK S : lost' = [lost EXCEPT ![Other(p)] = IF drop THEN @ \cup S ELSE @]
    BY <1>4 DEF Read
  <2> QED BY <2>1, OtherEnd DEF TypeOK
<1> QED BY <1>1, <1>2, <1>3, <1>4 DEF Reading, Tick

\* Messages and handles are emitted in the order of the send() calls as long as
\* no handle was lost: a handle is the last of what is under way, so its message
\* comes before all that is sent after it, although it takes a tick more.
THEOREM InOrderWithoutLoss == Spec => []InOrderUnlessLost
<1> DEFINE SInv == \A p \in Ends : Settled(p)
           AInv == \A p \in Ends : OneFlight(p) /\ LeftBehind(p) /\ Explained(p)
           LInv == \A p \in Ends : NoLoss(p) /\ (lost[p] = {} => OnTime(p))
<1>1. Init => LInv
  <2> SUFFICES ASSUME Init, NEW p \in Ends PROVE NoLoss(p) /\ OnTime(p)
    OBVIOUS
  <2> DEFINE r == <<>>
  <2>1. /\ wire[p] = r /\ ticks[p] = r /\ wire[Other(p)] = r /\ ticks[Other(p)] = r
        /\ got[Other(p)] = r /\ \A i \in 1 .. MaxSends[p] : writes[p][i] = 0
    BY OtherEnd DEF Init
  <2>2. DOMAIN r = {}
    BY EmptySeq
  <2> HIDE DEF r
  <2>3. NoLoss(p)
    BY <2>1, <2>2 DEF NoLoss, HasHandle, NoNack, Retried
  <2>4. OnTime(p)
    BY <2>1, <2>2 DEF OnTime, Ordered, InLine, Passed, Rising, Before, UpTo
  <2> QED BY <2>3, <2>4
<1>2. TypeOK /\ PendingMatches /\ SInv /\ AInv /\ LInv /\ [Next]_vars => LInv'
  <2> SUFFICES ASSUME TypeOK, PendingMatches, SInv, AInv, LInv, [Next]_vars, NEW e \in Ends
               PROVE  NoLoss(e)' /\ (lost'[e] = {} => OnTime(e)')
    OBVIOUS
  <2>1. ASSUME NEW p \in Ends,
               \/ \E k \in Kinds : send(p, k)
               \/ disconnect(p) \/ Crash(p) \/ Reading(p) \/ Tick(p)
        PROVE  NoLoss(e)' /\ (lost'[e] = {} => OnTime(e)')
    <3>1. NoLoss(e)'
      BY <2>1, LossStep
    <3>2. lost'[e] = {} => lost[e] = {}
      BY <2>1, LostGrows
    <3>3. lost[e] = {} => OnTime(e)'
      BY <2>1, OnTimeStep
    <3> QED BY <3>1, <3>2, <3>3
  <2>2. CASE UNCHANGED vars
    BY <2>2 DEF vars, NoLoss, OnTime, Ordered, Retried, Base
  <2> QED BY <2>1, <2>2 DEF Next
<1>3. LInv => InOrderUnlessLost
  <2> SUFFICES ASSUME LInv, NEW p \in Ends, lost[Other(p)] = {} PROVE Ordered(p)
    BY DEF InOrderUnlessLost
  <2>1. Other(p) \in Ends /\ Other(Other(p)) = p
    BY OtherEnd, OtherOther
  <2> QED BY <2>1 DEF OnTime
<1>4. Spec => []SInv
  BY EndsSettled
<1>5. Spec => []AInv
  BY EndsExplained
<1> HIDE DEF SInv, AInv, LInv
<1> QED BY <1>1, <1>2, <1>3, <1>4, <1>5, TypeCorrect, OnePending, PTL DEF Spec

=============================================================================
