--------------------------- MODULE WritableProofs ---------------------------
(***************************************************************************)
(* What Writable keeps, from the invariant of WritableInvariant.           *)
(*   - It refines SinkContract: every step of a stream is a step of the    *)
(*     contract or none.                                                   *)
(*   - state.length is exact and, with a count of what the call stack and  *)
(*     the ticks still owe, pendingcb is never below zero.                 *)
(*   - 'prefinish', 'finish', 'error' and 'close' are each emitted once,   *)
(*     and 'close' last: at most one function on the way to 'finish', and  *)
(*     one on the way to 'close', is on the stack, in a tick or with the   *)
(*     implementation at a time, and none after the event.                 *)
(***************************************************************************)
EXTENDS WritableInvariant, WellFoundedInduction

(***************************************************************************)
(* The refinement of SinkContract                                          *)
(***************************************************************************)

\* A step is no step of the contract when it leaves the chunks, the write in
\* progress, errors, destroy() and the end alone.
Marks == {"writing", "finished", "errored", "destroyed"}
Lengths == {"length", "writelen"}
Unseen ==
  /\ given' = given /\ buffer' = buffer /\ sunk' = sunk
  /\ \A x \in Marks \cup Lengths : st'[x] = st[x]

\* Such a step leaves the variables of SinkContract as they are.
LEMMA UnseenStutters == ASSUME Unseen PROVE UNCHANGED Contract!vars
BY DEF Unseen, Marks, Contract!vars

\* The functions of which the contract sees nothing.
LEMMA UnseenRun ==
  ASSUME SinkInv,
         \/ UserReturn \/ WriteReturn \/ EndSetEnding \/ EndCallback \/ ImplWrite \/ Unsync
         \/ OnwriteSync \/ AfterWriteTick \/ AfterWrite \/ AfterWriteLoop \/ OnwriteError
         \/ RunCallbacks \/ ErrorBuffer \/ FinishMaybe \/ Prefinish
         \/ FinishMaybeCheck \/ FinishNT \/ ImplFinal \/ OnFinish \/ OnFinishError
         \/ OnFinishTick \/ CallFinishedCallbacks \/ EmitFinish \/ ImplDestroy
         \/ EmitErrorCloseNT \/ EmitErrorNT \/ EmitCloseNT \/ ConstructNT \/ OnConstruct
         \/ RunTick
  PROVE  Unseen
<1>0. DOMAIN st = Fields /\ Marks \cup Lengths \subseteq Fields
  BY DEF SinkInv, CoreTypes, Marks, Lengths, Fields
<1>1. CASE UserReturn \/ WriteReturn \/ EndSetEnding \/ EndCallback \/ ImplWrite \/ Unsync
  BY <1>0, <1>1 DEF UserReturn, WriteReturn, EndSetEnding, EndCallback, ImplWrite, Unsync,
     Unseen, history, Marks, Lengths
<1>2. CASE OnwriteSync \/ AfterWriteTick \/ AfterWrite \/ AfterWriteLoop \/ OnwriteError
  BY <1>0, <1>2 DEF OnwriteSync, AfterWriteTick, AfterWrite, AfterWriteLoop, OnwriteError,
     Unseen, history, Marks, Lengths
<1>3. CASE RunCallbacks \/ ErrorBuffer \/ FinishMaybe \/ Prefinish
  BY <1>0, <1>3 DEF RunCallbacks, ErrorBuffer, FinishMaybe, Prefinish, Unseen, history, Marks,
     Lengths
<1>4. CASE FinishMaybeCheck \/ FinishNT \/ ImplFinal \/ OnFinish \/ OnFinishError
  BY <1>0, <1>4 DEF FinishMaybeCheck, FinishNT, ImplFinal, OnFinish, OnFinishError,
     Unseen, history, Marks, Lengths
<1>5. CASE OnFinishTick \/ CallFinishedCallbacks \/ EmitFinish \/ ImplDestroy
  BY <1>0, <1>5 DEF OnFinishTick, CallFinishedCallbacks, EmitFinish, ImplDestroy,
     Unseen, history, Marks, Lengths
<1>6. CASE EmitErrorCloseNT \/ EmitErrorNT \/ EmitCloseNT \/ ConstructNT \/ OnConstruct \/ RunTick
  BY <1>0, <1>6 DEF EmitErrorCloseNT, EmitErrorNT, EmitCloseNT, ConstructNT, OnConstruct,
     RunTick, Unseen, history, Marks, Lengths
<1> QED
  BY <1>1, <1>2, <1>3, <1>4, <1>5, <1>6

\* The user's calls other than write(), and the implementation's callbacks.
LEMMA UnseenCalls ==
  ASSUME SinkInv, NEW n, NEW er,
         \/ Cork \/ Uncork \/ End(n) \/ UserDestroy(er)
         \/ ImplWriteLater(er) \/ ImplFinalLater(er) \/ ImplDestroyLater(er) \/ ImplConstruct(er)
  PROVE  Unseen
<1>0. DOMAIN st = Fields /\ Marks \cup Lengths \subseteq Fields
  BY DEF SinkInv, CoreTypes, Marks, Lengths, Fields
<1>1. CASE Cork \/ Uncork \/ End(n) \/ UserDestroy(er)
  BY <1>0, <1>1 DEF Cork, Uncork, End, UserDestroy, Unseen, history, Marks, Lengths
<1>2. CASE \/ ImplWriteLater(er) \/ ImplFinalLater(er) \/ ImplDestroyLater(er)
           \/ ImplConstruct(er)
  BY <1>0, <1>2 DEF ImplWriteLater, ImplFinalLater, ImplDestroyLater, ImplConstruct, Unseen,
     history, Marks, Lengths
<1> QED
  BY <1>1, <1>2

\* write() accepts a chunk: it waits behind the others, or passes when none waits.
LEMMA WriteAccepts ==
  ASSUME SinkInv, NEW k \in Kinds, Write(k)
  PROVE  Contract!Next \/ UNCHANGED Contract!vars
<1>0. /\ DOMAIN st = Fields /\ Marks \subseteq Fields /\ given \in Seq(Kinds)
      /\ st.finished => st.ending
      /\ st.errored \in BOOLEAN /\ st.destroyed \in BOOLEAN /\ st.writing \in BOOLEAN
      /\ st.finished \in BOOLEAN
  BY DEF SinkInv, CoreTypes, Marks, Fields, FramesOK, Drained
<1>1. InUser /\ io' = io
  BY DEF Write, UserCalls
<1>2. CASE writeRefused(k)
  <2>1. given' = given /\ buffer' = buffer /\ sunk' = sunk /\ st' = st
    BY <1>2 DEF writeRefused
  <2>2. Unseen
    BY <2>1 DEF Unseen
  <2> QED
    BY <2>2, UnseenStutters
<1>3. CASE writeOrBuffer(k)
  <2>1. ~st.ending /\ ~st.destroyed /\ given' = Append(given, k)
    BY <1>3 DEF writeOrBuffer
  <2>2. Len(given') = Len(given) + 1
    BY <1>0, <2>1
  <2>3. CASE MustBuffer
    <3>1. /\ buffer' = Append(buffer, Len(given) + 1) /\ sunk' = sunk
          /\ \A x \in Marks : st'[x] = st[x]
      BY <1>0, <1>3, <2>3 DEF writeOrBuffer, Marks
    <3>2. Contract!Accept
      BY <1>0, <2>1, <2>2, <3>1 DEF Contract!Accept, Marks
    <3> QED
      BY <3>2 DEF Contract!Next
  <2>4. CASE ~MustBuffer
    <3>1. /\ buffer' = buffer /\ sunk' = Append(sunk, Len(given) + 1)
          /\ st'.writing = TRUE /\ st'.errored = st.errored /\ st'.destroyed = st.destroyed
          /\ st'.finished = st.finished
      BY <1>0, <1>3, <2>4 DEF writeOrBuffer, Marks, StartWrite
    <3>2. buffer = <<>>
      BY <1>1, <1>3, <2>4, WritePasses
    <3>3. ~st.writing /\ ~st.errored
      BY <2>4 DEF MustBuffer
    <3>4. Contract!PassThrough
      BY <1>0, <2>1, <2>2, <3>1, <3>2, <3>3 DEF Contract!PassThrough
    <3> QED
      BY <3>4 DEF Contract!Next
  <2> QED
    BY <2>3, <2>4
<1> QED
  BY <1>2, <1>3 DEF Write

\* clearBuffer(): _writev is given all chunks that wait, _write the oldest.
LEMMA ClearBufferSinks ==
  ASSUME SinkInv, ClearBuffer PROVE Contract!Next \/ UNCHANGED Contract!vars
<1>0. /\ DOMAIN st = Fields /\ Marks \subseteq Fields /\ buffer \in Seq(Nat) /\ sunk \in Seq(Nat)
      /\ st.finished => ~st.buffered
      /\ st.destroyed \in BOOLEAN /\ st.corked \in Nat /\ st.finished \in BOOLEAN
      /\ st.writing \in BOOLEAN
  BY DEF SinkInv, CoreTypes, Marks, Fields, FramesOK, Drained
<1>1. CASE ~ClearReady
  <2>1. given' = given /\ buffer' = buffer /\ sunk' = sunk /\ st' = st
    BY <1>0, <1>1 DEF ClearBuffer, ClearReady
  <2>2. Unseen
    BY <2>1 DEF Unseen
  <2> QED
    BY <2>2, UnseenStutters
<1>2. CASE ClearReady
  <2>1. Array = buffer /\ buffer # <<>> /\ ~st.writing /\ st.buffered
    BY <1>2, ClearBufferReady DEF ClearReady
  <2>2. CASE Len(Array) > 1 /\ opt.writev
    <3>1. given' = given /\ sunk' = sunk \o Array /\ buffer' = <<>>
      BY <1>2, <2>2 DEF ClearBuffer, ClearReady
    <3>2. /\ st'.writing = TRUE /\ st'.errored = st.errored /\ st'.destroyed = st.destroyed
          /\ st'.finished = st.finished
      <4> DEFINE ks == [i \in DOMAIN Array |-> given[Array[i]]]
                 cb == IF \A i \in DOMAIN ks : ks[i] = "nop" THEN <<>> ELSE ks
                 s == [st EXCEPT !.bufferProcessing = TRUE, !.failed = <<>>]
      <4>1. st' = StartWrite([s EXCEPT !.pendingcb = @ - (Len(Array) - 1)], st.length, cb)
        BY <1>2, <2>2 DEF ClearBuffer, ClearReady
      <4> HIDE DEF cb
      <4> QED
        BY <1>0, <4>1 DEF StartWrite, Fields
    <3>3. /\ SubSeq(buffer, 1, Len(buffer)) = buffer /\ Len(buffer) \in 1 .. Len(buffer)
          /\ SubSeq(buffer, Len(buffer) + 1, Len(buffer)) = <<>>
      BY <1>0, <2>1
    <3>4. Contract!Sink(Len(buffer))
      BY <1>0, <2>1, <3>1, <3>2, <3>3 DEF Contract!Sink
    <3> QED
      BY <3>3, <3>4 DEF Contract!Next
  <2>3. CASE ~(Len(Array) > 1 /\ opt.writev)
    <3>1. given' = given /\ sunk' = sunk /\ buffer' = Array
      BY <1>2, <2>3 DEF ClearBuffer, ClearReady
    <3>2. st' = [st EXCEPT !.bufferProcessing = TRUE, !.failed = <<>>]
      BY <1>2, <2>3 DEF ClearBuffer, ClearReady
    <3>3. Unseen
      BY <1>0, <2>1, <3>1, <3>2 DEF Unseen, Marks, Lengths, Fields
    <3> QED
      BY <3>3, UnseenStutters
  <2> QED
    BY <2>2, <2>3
<1> QED
  BY <1>1, <1>2

\* The loop of clearBuffer() gives _write the oldest chunk, or ends.
LEMMA ClearBufferLoopSinks ==
  ASSUME SinkInv, ClearBufferLoop PROVE Contract!Next \/ UNCHANGED Contract!vars
<1>0. /\ DOMAIN st = Fields /\ Marks \subseteq Fields /\ buffer \in Seq(Nat) /\ sunk \in Seq(Nat)
      /\ st.finished => buffer = <<>>
      /\ st.finished \in BOOLEAN /\ st.writing \in BOOLEAN
      /\ CoreTypes /\ BufferOrdered
  BY DEF SinkInv, CoreTypes, Marks, Fields, FramesOK, Drained
<1>1. CASE buffer # <<>> /\ ~st.writing
  <2>1. given' = given /\ sunk' = Append(sunk, Head(buffer)) /\ buffer' = Tail(buffer)
    BY <1>1 DEF ClearBufferLoop
  <2>2. /\ st'.writing = TRUE /\ st'.errored = st.errored /\ st'.destroyed = st.destroyed
        /\ st'.finished = st.finished
    BY <1>0, <1>1 DEF ClearBufferLoop, StartWrite, Fields
  <2>3. /\ SubSeq(buffer, 1, 1) = <<buffer[1]>> /\ Head(buffer) = buffer[1]
        /\ SubSeq(buffer, 2, Len(buffer)) = Tail(buffer) /\ Len(buffer) \in Nat
        /\ Len(buffer) >= 1
        /\ buffer[1] \in 1 .. Len(given)
    BY <1>0, <1>1, BufferTail
  <2>4. Append(sunk, buffer[1]) = sunk \o <<buffer[1]>>
    BY <1>0, <2>3
  <2>5. 1 \in 1 .. Len(buffer) /\ 1 + 1 = 2
    BY <2>3
  <2>6. sunk' = sunk \o SubSeq(buffer, 1, 1) /\ buffer' = SubSeq(buffer, 1 + 1, Len(buffer))
    BY <2>1, <2>3, <2>4, <2>5
  <2>7. Contract!Sink(1)
    BY <1>0, <1>1, <2>1, <2>2, <2>6 DEF Contract!Sink
  <2> QED
    BY <2>5, <2>7 DEF Contract!Next
<1>2. CASE buffer = <<>> \/ st.writing
  <2>1. given' = given /\ buffer' = buffer /\ sunk' = sunk /\ st' = st
    BY <1>0, <1>2 DEF ClearBufferLoop
  <2>2. Unseen
    BY <2>1 DEF Unseen
  <2> QED
    BY <2>2, UnseenStutters
<1> QED
  BY <1>0, <1>1, <1>2

\* The sink calls back for the batch it has.
LEMMA OnwriteCompletes ==
  ASSUME SinkInv, Onwrite PROVE Contract!Next \/ UNCHANGED Contract!vars
<1>0. /\ DOMAIN st = Fields /\ Marks \subseteq Fields /\ st.expectWriteCb \in BOOLEAN
      /\ st.expectWriteCb => st.writing
      /\ st.errored \in BOOLEAN /\ st.destroyed \in BOOLEAN /\ st.writing \in BOOLEAN
      /\ Head(stack).er \in BOOLEAN
  <2>1. stack # <<>>
    BY DEF Onwrite, Top
  <2>2. Head(stack).er \in BOOLEAN
    BY <2>1, TopFrame DEF SinkInv
  <2> QED
    BY <2>2 DEF SinkInv, CoreTypes, Marks, Fields, TopOK
<1>1. buffer' = buffer /\ given' = given /\ sunk' = sunk
  BY DEF Onwrite, history
<1>2. CASE ~st.expectWriteCb
  <2>1. st' = st
    BY <1>2 DEF Onwrite
  <2>2. Unseen
    BY <1>1, <2>1 DEF Unseen
  <2> QED
    BY <2>2, UnseenStutters
<1>3. CASE st.expectWriteCb
  <2>1. /\ st'.writing = FALSE /\ st'.destroyed = st.destroyed /\ st'.finished = st.finished
        /\ st'.errored = (st.errored \/ Head(stack).er)
    BY <1>0, <1>3 DEF Onwrite, Fields
  <2>2. Contract!Complete(Head(stack).er)
    BY <1>0, <1>1, <1>3, <2>1 DEF Contract!Complete
  <2> QED
    BY <1>0, <2>2 DEF Contract!Next
<1> QED
  BY <1>2, <1>3

\* errorBuffer() drops chunks of a stream that failed, the oldest first.
LEMMA ErrorLoopDropsOldest ==
  ASSUME SinkInv, ErrorLoop PROVE Contract!Next \/ UNCHANGED Contract!vars
<1>0. DOMAIN st = Fields /\ Marks \subseteq Fields
  BY DEF SinkInv, CoreTypes, Marks, Fields
<1>1. CASE buffer # <<>>
  <2>1. /\ buffer' = Tail(buffer) /\ sunk' = sunk /\ given' = given /\ Dead /\ ~st.writing
        /\ st' = [st EXCEPT !.length = @ - 1, !.failed = @ \o <<buffer[1]>>]
    BY <1>1, ErrorLoopDrops
  <2>2. \A x \in Marks : st'[x] = st[x]
    BY <1>0, <2>1 DEF Marks
  <2>3. Contract!Drop
    BY <1>1, <2>1, <2>2 DEF Contract!Drop, Dead, Marks
  <2> QED
    BY <2>3 DEF Contract!Next
<1>2. CASE buffer = <<>>
  <2>1. DOMAIN buffer = {}
    BY <1>2
  <2>2. given' = given /\ buffer' = buffer /\ sunk' = sunk /\ st' = st
    BY <2>1 DEF ErrorLoop, history
  <2>3. Unseen
    BY <2>2 DEF Unseen
  <2> QED
    BY <2>3, UnseenStutters
<1> QED
  BY <1>1, <1>2

\* The end of errorBuffer() and of clearBuffer() finds the queue empty, or keeps it.
LEMMA EndOfBufferUnseen ==
  ASSUME SinkInv, ResetBuffer \/ ClearBufferEnd PROVE Unseen
<1>0. /\ DOMAIN st = Fields /\ Marks \cup Lengths \subseteq Fields
  BY DEF SinkInv, CoreTypes, Marks, Lengths, Fields
<1>1. CASE ResetBuffer
  <2>1. Top("resetBuffer") /\ stack # <<>>
    BY <1>1 DEF ResetBuffer, Top
  <2>2. FrameOK(Head(stack)) /\ Head(stack).f = "resetBuffer"
    BY <2>1, TopRelies DEF SinkInv, Top
  <2>3. buffer = <<>>
    BY <2>2 DEF FrameOK
  <2> QED
    BY <1>0, <1>1, <2>3 DEF ResetBuffer, ResetBits, Unseen, history, Marks, Lengths
<1>2. CASE ClearBufferEnd
  BY <1>0, <1>2 DEF ClearBufferEnd, ResetBits, Unseen, history, Marks, Lengths
<1> QED
  BY <1>1, <1>2

\* An error that is not a write's, and destroy(), leave the chunks where they are ...
LEMMA ErrorsKeepLength ==
  ASSUME SinkInv, ErrorOrDestroy \/ Destroy \/ OnDestroy
  PROVE  /\ buffer' = buffer /\ st'.length = st.length /\ st'.writelen = st.writelen
         /\ st'.writing = st.writing /\ st'.finished = st.finished
<1>0. DOMAIN st = Fields
  BY DEF SinkInv, CoreTypes
<1>1. CASE ErrorOrDestroy
  BY <1>0, <1>1 DEF ErrorOrDestroy, Fields
<1>2. CASE Destroy
  BY <1>0, <1>2 DEF Destroy, Fields
<1>3. CASE OnDestroy
  BY <1>0, <1>3 DEF OnDestroy, Fields
<1> QED
  BY <1>1, <1>2, <1>3

\* ... and fail the stream.
LEMMA ErrorsFail ==
  ASSUME SinkInv, ErrorOrDestroy \/ Destroy \/ OnDestroy
  PROVE  Contract!Next \/ UNCHANGED Contract!vars
<1>0. /\ DOMAIN st = Fields /\ Marks \subseteq Fields
      /\ given' = given /\ buffer' = buffer /\ sunk' = sunk
      /\ st.errored \in BOOLEAN
  BY DEF SinkInv, CoreTypes, Marks, Fields, ErrorOrDestroy, Destroy, OnDestroy, history
<1>1. /\ st'.writing = st.writing /\ st'.finished = st.finished
      /\ \/ st' = st \/ st'.errored \/ st'.destroyed
         \/ st'.errored = st.errored /\ st'.destroyed = st.destroyed
  <2>1. CASE ErrorOrDestroy
    BY <1>0, <2>1 DEF ErrorOrDestroy, Fields
  <2>2. CASE Destroy
    <3>1. CASE st.destroyed
      BY <2>2, <3>1 DEF Destroy
    <3>2. CASE ~st.destroyed
      <4>1. st' = [st EXCEPT !.destroyed = TRUE, !.errored = @ \/ Head(stack).er,
                             !.onDestroy = ~st.constructed, !.destroyErr = Head(stack).er]
        BY <2>2, <3>2 DEF Destroy
      <4>2. st'.destroyed = TRUE /\ st'.writing = st.writing /\ st'.finished = st.finished
        BY <1>0, <4>1 DEF Fields
      <4> QED
        BY <4>2
    <3> QED
      BY <3>1, <3>2
  <2>3. CASE OnDestroy
    <3>1. /\ st'.writing = st.writing /\ st'.finished = st.finished
          /\ st'.destroyed = st.destroyed /\ st'.errored = (st.errored \/ Head(stack).er)
      BY <1>0, <2>3 DEF OnDestroy, Fields
    <3> QED
      BY <1>0, <3>1
  <2> QED
    BY <2>1, <2>2, <2>3
<1>2. CASE st'.errored \/ st'.destroyed
  BY <1>0, <1>1, <1>2 DEF Contract!Fail, Contract!Next
<1>3. CASE ~(st'.errored \/ st'.destroyed)
  <2>1. Unseen
    BY <1>0, <1>1, <1>3, ErrorsKeepLength DEF Unseen, Marks, Lengths
  <2> QED
    BY <2>1, UnseenStutters
<1> QED
  BY <1>2, <1>3

\* 'finish' is announced when every chunk reached the sink and was written.
LEMMA FinishIsLast ==
  ASSUME SinkInv, Finish PROVE Contract!Next
<1>0. DOMAIN st = Fields /\ Marks \subseteq Fields /\ sunk \in Seq(Nat) /\ given \in Seq(Kinds)
  BY DEF SinkInv, CoreTypes, Marks, Fields
<1>1. Top("finish") /\ stack # <<>>
  BY DEF Finish, Top
<1>2. FrameOK(Head(stack)) /\ Head(stack).f = "finish"
  BY <1>1, TopRelies DEF SinkInv, Top
<1>3. Drained
  BY <1>2 DEF FrameOK
<1>4. sunk = [i \in 1 .. Len(given) |-> i]
  <2>1. DOMAIN sunk = 1 .. Len(given) /\ \A i \in 1 .. Len(given) : sunk[i] = i
    BY <1>0, <1>3 DEF Drained
  <2> QED
    BY <1>0, <2>1
<1>5. /\ given' = given /\ buffer' = buffer /\ sunk' = sunk
      /\ st'.finished = TRUE /\ st'.writing = st.writing
      /\ st'.errored = st.errored /\ st'.destroyed = st.destroyed
  BY <1>0 DEF Finish, history, Fields
<1>6. Contract!Finish
  BY <1>3, <1>4, <1>5 DEF Contract!Finish, Drained
<1> QED
  BY <1>6 DEF Contract!Next

\* Every step of the stream is a step of the contract, or none.
LEMMA ContractStep ==
  ASSUME SinkInv, [Next]_vars PROVE [Contract!Next]_(Contract!vars)
<1>1. CASE UserCall
  <2>1. ASSUME NEW k \in Kinds, Write(k) PROVE Contract!Next \/ UNCHANGED Contract!vars
    BY <2>1, WriteAccepts
  <2>2. ASSUME NEW n, NEW er, Cork \/ Uncork \/ End(n) \/ UserDestroy(er)
        PROVE  UNCHANGED Contract!vars
    BY <2>2, UnseenCalls, UnseenStutters
  <2> QED
    BY <1>1, <2>1, <2>2 DEF UserCall
<1>2. CASE Implementation
  <2>1. PICK er \in BOOLEAN :
          \/ ImplWriteLater(er) \/ ImplFinalLater(er) \/ ImplDestroyLater(er)
          \/ ImplConstruct(er)
    BY <1>2 DEF Implementation
  <2> QED
    BY <2>1, UnseenCalls, UnseenStutters
<1>3. CASE Run
  <2>1. CASE \/ UserReturn \/ WriteReturn \/ EndSetEnding \/ EndCallback \/ ImplWrite \/ Unsync
             \/ OnwriteSync \/ AfterWriteTick \/ AfterWrite \/ AfterWriteLoop \/ OnwriteError
             \/ RunCallbacks \/ ErrorBuffer \/ FinishMaybe \/ Prefinish
             \/ FinishMaybeCheck \/ FinishNT \/ ImplFinal \/ OnFinish \/ OnFinishError
             \/ OnFinishTick \/ CallFinishedCallbacks \/ EmitFinish \/ ImplDestroy
             \/ EmitErrorCloseNT \/ EmitErrorNT \/ EmitCloseNT \/ ConstructNT \/ OnConstruct
             \/ RunTick
    BY <2>1, UnseenRun, UnseenStutters
  <2>2. CASE Onwrite
    BY <2>2, OnwriteCompletes
  <2>3. CASE ErrorLoop
    BY <2>3, ErrorLoopDropsOldest
  <2>4. CASE ResetBuffer \/ ClearBufferEnd
    BY <2>4, EndOfBufferUnseen, UnseenStutters
  <2>5. CASE ClearBuffer
    BY <2>5, ClearBufferSinks
  <2>6. CASE ClearBufferLoop
    BY <2>6, ClearBufferLoopSinks
  <2>7. CASE Finish
    BY <2>7, FinishIsLast
  <2>8. CASE ErrorOrDestroy \/ Destroy \/ OnDestroy
    BY <2>8, ErrorsFail
  <2> QED
    BY <1>3, <2>1, <2>2, <2>3, <2>4, <2>5, <2>6, <2>7, <2>8 DEF Run
<1>4. CASE UNCHANGED vars
  BY <1>4 DEF vars, Contract!vars
<1> QED
  BY <1>1, <1>2, <1>3, <1>4 DEF Next

\* A new stream has accepted nothing and failed nothing.
LEMMA ContractInit == Init => Contract!Init
BY DEF Init, InitState, Contract!Init

\* Through cork(), _writev, synchronous and late callbacks of the sink, errors,
\* destroy() and calls of the user inside any callback, the sink gets the chunks
\* of write() in order, one batch at a time, and 'finish' only follows when each
\* was written: for every number of calls, set of callbacks and option records,
\* if the user does not uncork in the middle of errorBuffer() (writable.js:731).
THEOREM ContractKept ==
  ASSUME ~LateUncork PROVE Spec => KeepsContract
<1>1. SinkInv /\ [Next]_vars => [Contract!Next]_(Contract!vars)
  BY ContractStep
<1> QED
  BY <1>1, SinkAlways, ContractInit, PTL DEF Spec, KeepsContract, Contract!Spec

-----------------------------------------------------------------------------
(***************************************************************************)
(* state.length                                                            *)
(***************************************************************************)

\* Nothing is with the sink when no write is in progress.
LengthInv ==
  /\ SinkInv /\ LengthExact
  /\ st.length \in Int /\ st.writelen \in Int
  /\ ~st.writing => st.writelen = 0

\* The steps that move no chunk do not move the length.
LEMMA UnseenLength == ASSUME LengthInv, SinkInv', Unseen PROVE LengthInv'
BY DEF LengthInv, LengthExact, Unseen, Marks, Lengths

\* write() counts the chunk, in the queue or with the sink.
LEMMA WriteLength ==
  ASSUME LengthInv, SinkInv', NEW k \in Kinds, Write(k) PROVE LengthInv'
<1>0. /\ DOMAIN st = Fields /\ buffer \in Seq(Nat) /\ Len(buffer) \in Int
      /\ st.length \in Int /\ st.writelen \in Int
      /\ ~st.writing => st.writelen = 0
      /\ st.length = Len(buffer) + st.writelen
  BY DEF LengthInv, LengthExact, SinkInv, CoreTypes
<1>1. CASE writeRefused(k)
  <2>1. buffer' = buffer /\ st' = st
    BY <1>1 DEF writeRefused
  <2> QED
    BY <1>0, <2>1 DEF LengthInv, LengthExact
<1>2. CASE writeOrBuffer(k) /\ MustBuffer
  <2>1. buffer' = Append(buffer, Len(given) + 1) /\ Len(given) + 1 \in Nat
    <3>1. Len(given) \in Nat
      BY DEF LengthInv, SinkInv, CoreTypes
    <3> QED
      BY <1>2, <3>1 DEF writeOrBuffer
  <2>2. Len(buffer') = Len(buffer) + 1
    BY <1>0, <2>1
  <2>3. /\ st'.length = st.length + 1 /\ st'.writelen = st.writelen /\ st'.writing = st.writing
    BY <1>0, <1>2 DEF writeOrBuffer, Fields
  <2> QED
    BY <1>0, <2>2, <2>3 DEF LengthInv, LengthExact
<1>3. CASE writeOrBuffer(k) /\ ~MustBuffer
  <2>1. buffer' = buffer /\ ~st.writing
    BY <1>3 DEF writeOrBuffer, MustBuffer
  <2>2. /\ st'.length = st.length + 1 /\ st'.writelen = 1 /\ st'.writing = TRUE
    BY <1>0, <1>3 DEF writeOrBuffer, StartWrite, Fields
  <2> QED
    BY <1>0, <2>1, <2>2 DEF LengthInv, LengthExact
<1> QED
  BY <1>1, <1>2, <1>3 DEF Write

\* _writev takes the length of the whole queue with it; the loop takes one chunk.
LEMMA ClearBufferLength ==
  ASSUME LengthInv, SinkInv', ClearBuffer \/ ClearBufferLoop PROVE LengthInv'
<1>0. /\ DOMAIN st = Fields /\ buffer \in Seq(Nat) /\ Len(buffer) \in Int
      /\ st.length \in Int /\ st.writelen \in Int
      /\ ~st.writing => st.writelen = 0
      /\ st.length = Len(buffer) + st.writelen
      /\ SinkInv /\ CoreTypes /\ BufferOrdered
      /\ st.destroyed \in BOOLEAN /\ st.corked \in Nat
  BY DEF LengthInv, LengthExact, SinkInv, CoreTypes
<1>1. CASE ClearBuffer /\ ~ClearReady
  <2>1. buffer' = buffer /\ st' = st
    BY <1>0, <1>1 DEF ClearBuffer, ClearReady
  <2> QED
    BY <1>0, <2>1 DEF LengthInv, LengthExact
<1>2. CASE ClearBuffer /\ ClearReady
  <2>1. Array = buffer /\ ~st.writing
    BY <1>0, <1>2, ClearBufferReady
  <2>2. CASE Len(Array) > 1 /\ opt.writev
    <3> DEFINE ks == [i \in DOMAIN Array |-> given[Array[i]]]
               cb == IF \A i \in DOMAIN ks : ks[i] = "nop" THEN <<>> ELSE ks
               s == [st EXCEPT !.bufferProcessing = TRUE, !.failed = <<>>]
    <3>1. /\ st' = StartWrite([s EXCEPT !.pendingcb = @ - (Len(Array) - 1)], st.length, cb)
          /\ buffer' = <<>>
      BY <1>2, <2>2 DEF ClearBuffer, ClearReady
    <3> HIDE DEF cb
    <3>2. st'.length = st.length /\ st'.writelen = st.length /\ st'.writing = TRUE
      BY <1>0, <3>1 DEF StartWrite, Fields
    <3>3. Len(buffer') = 0
      BY <3>1
    <3> QED
      BY <1>0, <3>2, <3>3 DEF LengthInv, LengthExact
  <2>3. CASE ~(Len(Array) > 1 /\ opt.writev)
    <3>1. /\ buffer' = buffer
          /\ st' = [st EXCEPT !.bufferProcessing = TRUE, !.failed = <<>>]
      BY <1>2, <2>1, <2>3 DEF ClearBuffer, ClearReady
    <3>2. st'.length = st.length /\ st'.writelen = st.writelen /\ st'.writing = st.writing
      BY <1>0, <3>1 DEF Fields
    <3> QED
      BY <1>0, <3>1, <3>2 DEF LengthInv, LengthExact
  <2> QED
    BY <2>2, <2>3
<1>3. CASE ClearBufferLoop /\ buffer # <<>> /\ ~st.writing
  <2>1. buffer' = Tail(buffer) /\ st' = StartWrite(st, 1, Single(given[Head(buffer)]))
    BY <1>3 DEF ClearBufferLoop
  <2>2. st'.length = st.length /\ st'.writelen = 1 /\ st'.writing = TRUE
    BY <1>0, <2>1 DEF StartWrite, Fields
  <2>3. Len(buffer') = Len(buffer) - 1
    BY <1>0, <1>3, <2>1, BufferTail
  <2> QED
    BY <1>0, <1>3, <2>2, <2>3 DEF LengthInv, LengthExact
<1>4. CASE ClearBufferLoop /\ (buffer = <<>> \/ st.writing)
  <2>1. buffer' = buffer /\ st' = st
    BY <1>0, <1>4 DEF ClearBufferLoop
  <2> QED
    BY <1>0, <2>1 DEF LengthInv, LengthExact
<1> QED
  BY <1>1, <1>2, <1>3, <1>4

\* The callback of the write gives the length back; a failed chunk takes its own.
LEMMA DoneLength ==
  ASSUME LengthInv, SinkInv', Onwrite \/ ErrorLoop PROVE LengthInv'
<1>0. /\ DOMAIN st = Fields /\ buffer \in Seq(Nat) /\ Len(buffer) \in Int
      /\ st.length \in Int /\ st.writelen \in Int
      /\ ~st.writing => st.writelen = 0
      /\ st.length = Len(buffer) + st.writelen
      /\ SinkInv /\ CoreTypes /\ BufferOrdered
  BY DEF LengthInv, LengthExact, SinkInv, CoreTypes
<1>1. CASE Onwrite /\ ~st.expectWriteCb
  <2>1. buffer' = buffer /\ st' = st
    BY <1>1 DEF Onwrite
  <2> QED
    BY <1>0, <2>1 DEF LengthInv, LengthExact
<1>2. CASE Onwrite /\ st.expectWriteCb
  <2>1. buffer' = buffer
    BY <1>2 DEF Onwrite
  <2>2. st'.length = st.length - st.writelen /\ st'.writelen = 0
    BY <1>0, <1>2 DEF Onwrite, Fields
  <2> QED
    BY <1>0, <2>1, <2>2 DEF LengthInv, LengthExact
<1>3. CASE ErrorLoop /\ buffer # <<>>
  <2>1. /\ buffer' = Tail(buffer)
        /\ st' = [st EXCEPT !.length = @ - 1, !.failed = @ \o <<buffer[1]>>]
    BY <1>0, <1>3, ErrorLoopDrops
  <2>2. /\ st'.length = st.length - 1 /\ st'.writelen = st.writelen
        /\ st'.writing = st.writing
    BY <1>0, <2>1 DEF Fields
  <2>3. Len(buffer') = Len(buffer) - 1
    BY <1>0, <1>3, <2>1, BufferTail
  <2> QED
    BY <1>0, <2>2, <2>3 DEF LengthInv, LengthExact
<1>4. CASE ErrorLoop /\ buffer = <<>>
  <2>1. DOMAIN buffer = {}
    BY <1>4
  <2>2. buffer' = buffer /\ st' = st
    BY <1>4, <2>1 DEF ErrorLoop
  <2> QED
    BY <1>0, <2>2 DEF LengthInv, LengthExact
<1> QED
  BY <1>1, <1>2, <1>3, <1>4

\* The steps of the contract that only set a flag.
LEMMA FlagLength ==
  ASSUME LengthInv, SinkInv', ErrorOrDestroy \/ Destroy \/ OnDestroy \/ Finish
  PROVE  LengthInv'
<1>1. /\ buffer' = buffer /\ st'.length = st.length /\ st'.writelen = st.writelen
      /\ st'.writing = st.writing
  <2>1. CASE ErrorOrDestroy \/ Destroy \/ OnDestroy
    BY <2>1, ErrorsKeepLength DEF LengthInv
  <2>2. CASE Finish
    BY <2>2 DEF Finish, LengthInv, SinkInv, CoreTypes, Fields
  <2> QED
    BY <2>1, <2>2
<1> QED
  BY <1>1 DEF LengthInv, LengthExact

\* Every step keeps it.
LEMMA LengthNext ==
  ASSUME ~LateUncork, LengthInv, [Next]_vars PROVE LengthInv'
<1>1. SinkInv /\ SinkInv'
  BY SinkNext DEF LengthInv
<1>2. CASE UserCall
  <2>1. ASSUME NEW k \in Kinds, Write(k) PROVE LengthInv'
    BY <1>1, <2>1, WriteLength
  <2>2. ASSUME NEW n, NEW er, Cork \/ Uncork \/ End(n) \/ UserDestroy(er) PROVE LengthInv'
    BY <1>1, <2>2, UnseenCalls, UnseenLength
  <2> QED
    BY <1>2, <2>1, <2>2 DEF UserCall
<1>3. CASE Implementation
  <2>1. PICK er \in BOOLEAN :
          \/ ImplWriteLater(er) \/ ImplFinalLater(er) \/ ImplDestroyLater(er)
          \/ ImplConstruct(er)
    BY <1>3 DEF Implementation
  <2> QED
    BY <1>1, <2>1, UnseenCalls, UnseenLength
<1>4. CASE Run
  <2>1. CASE \/ UserReturn \/ WriteReturn \/ EndSetEnding \/ EndCallback \/ ImplWrite \/ Unsync
             \/ OnwriteSync \/ AfterWriteTick \/ AfterWrite \/ AfterWriteLoop \/ OnwriteError
             \/ RunCallbacks \/ ErrorBuffer \/ FinishMaybe \/ Prefinish
             \/ FinishMaybeCheck \/ FinishNT \/ ImplFinal \/ OnFinish \/ OnFinishError
             \/ OnFinishTick \/ CallFinishedCallbacks \/ EmitFinish \/ ImplDestroy
             \/ EmitErrorCloseNT \/ EmitErrorNT \/ EmitCloseNT \/ ConstructNT \/ OnConstruct
             \/ RunTick
    BY <1>1, <2>1, UnseenRun, UnseenLength
  <2>2. CASE Onwrite \/ ErrorLoop
    BY <1>1, <2>2, DoneLength
  <2>3. CASE ResetBuffer \/ ClearBufferEnd
    BY <1>1, <2>3, EndOfBufferUnseen, UnseenLength
  <2>4. CASE ClearBuffer \/ ClearBufferLoop
    BY <1>1, <2>4, ClearBufferLength
  <2>5. CASE ErrorOrDestroy \/ Destroy \/ OnDestroy \/ Finish
    BY <1>1, <2>5, FlagLength
  <2> QED
    BY <1>4, <2>1, <2>2, <2>3, <2>4, <2>5 DEF Run
<1>5. CASE UNCHANGED vars
  <2>1. st' = st /\ buffer' = buffer
    BY <1>5 DEF vars
  <2> QED
    BY <1>1, <2>1 DEF LengthInv, LengthExact
<1> QED
  BY <1>2, <1>3, <1>4, <1>5 DEF Next

\* state.length, from which write() computes its result and end() decides that all
\* is written, is what the queue and the write in progress hold, on every path a
\* chunk can take: passed at once, queued, in a _writev, failed by errorBuffer().
THEOREM LengthKept ==
  ASSUME ~LateUncork PROVE Spec => []LengthExact
<1>1. Init => LengthInv
  <2>1. ASSUME Init PROVE LengthInv
    <3>1. st.length = 0 /\ st.writelen = 0 /\ buffer = <<>>
      BY <2>1 DEF Init, InitState
    <3>2. Len(buffer) = 0
      BY <3>1
    <3> QED
      BY <2>1, <3>1, <3>2, SinkInit DEF LengthInv, LengthExact
  <2> QED
    BY <2>1
<1>2. LengthInv /\ [Next]_vars => LengthInv'
  BY LengthNext
<1>3. LengthInv => LengthExact
  BY DEF LengthInv
<1> QED
  BY <1>1, <1>2, <1>3, PTL DEF Spec

(***************************************************************************)
(* Totals                                                                  *)
(***************************************************************************)

\* A set of naturals that is not empty has a least element.
LEMMA LeastNat ==
  ASSUME NEW T \in SUBSET Nat, T # {}
  PROVE  \E n \in T : \A m \in T : n <= m
<1> DEFINE R == OpToRel(<, Nat)
<1>1. IsWellFoundedOn(R, Nat)
  BY NatLessThanWellFounded
<1>3. \A x, y \in Nat : y < x => <<y, x>> \in R
  BY DEF OpToRel
<1> HIDE DEF R
<1>2. \E x \in T : \A y \in T : ~ (<<y, x>> \in R)
  BY <1>1, WFMin
<1>4. PICK x \in T : \A y \in T : ~ (<<y, x>> \in R)
  BY <1>2, Zenon
<1>5. x \in Nat /\ \A y \in T : y \in Nat
  OBVIOUS
<1>6. \A y \in T : ~(y < x)
  BY <1>3, <1>4, <1>5, Zenon
<1> QED BY <1>5, <1>6

\* The frames of a list have weights; a adds them up, and Total is the sum.
Weights == [Frames -> Nat]
Adds(w, s, a) ==
  /\ a \in [0 .. Len(s) -> Nat] /\ a[0] = 0
  /\ \A i \in 1 .. Len(s) : a[i] = a[i - 1] + w[s[i]]
Total(w, s) == LET a == CHOOSE a : Adds(w, s, a) IN a[Len(s)]

\* The sums exist: take the shortest beginning of the list that has none.
LEMMA AddsExist ==
  ASSUME NEW w \in Weights, NEW s \in Seq(Frames)
  PROVE  \E a : Adds(w, s, a)
<1> DEFINE P(a, n) == /\ a \in [0 .. n -> Nat] /\ a[0] = 0
                      /\ \A i \in 1 .. n : a[i] = a[i - 1] + w[s[i]]
           Bad == {n \in 0 .. Len(s) : ~ \E a : P(a, n)}
<1>0. Len(s) \in Nat /\ \A i \in 1 .. Len(s) : w[s[i]] \in Nat
  BY DEF Weights
<1>1. Bad = {}
  <2> SUFFICES ASSUME Bad # {} PROVE FALSE
    OBVIOUS
  <2>1. \E n \in Bad : \A m \in Bad : n <= m
    <3>1. Bad \in SUBSET Nat /\ Bad # {}
      BY <1>0
    <3> HIDE DEF Bad
    <3> QED BY <3>1, LeastNat
  <2>2. PICK n \in Bad : \A m \in Bad : n <= m
    BY <2>1
  <2>3. n \in 0 .. Len(s) /\ n \in Nat /\ ~ \E a : P(a, n)
    <3>1. n \in 0 .. Len(s) /\ n \in Nat
      BY <1>0
    <3>2. \A x \in Bad : ~ \E a : P(a, x)
      OBVIOUS
    <3> HIDE DEF Bad
    <3> QED BY <3>1, <3>2
  <2>4. CASE n = 0
    <3>1. P([i \in 0 .. 0 |-> 0], 0)
      OBVIOUS
    <3> QED BY <2>3, <2>4, <3>1
  <2>5. CASE n # 0
    <3>1. n - 1 \in 0 .. Len(s) /\ ~(n <= n - 1)
      BY <1>0, <2>3, <2>5
    <3>2. n - 1 \notin Bad
      BY <2>2, <3>1
    <3>3. PICK b : P(b, n - 1)
      BY <3>1, <3>2
    <3> DEFINE a == [i \in 0 .. n |-> IF i < n THEN b[i] ELSE b[n - 1] + w[s[n]]]
    <3>4. n - 1 \in 0 .. n - 1 /\ b[n - 1] \in Nat /\ w[s[n]] \in Nat
      BY <1>0, <2>3, <2>5, <3>3
    <3>5. a \in [0 .. n -> Nat]
      BY <2>3, <3>3, <3>4
    <3>6. a[0] = 0
      BY <2>3, <2>5, <3>3
    <3>7. ASSUME NEW i \in 1 .. n PROVE a[i] = a[i - 1] + w[s[i]]
      <4>1. i - 1 \in 0 .. n /\ i - 1 < n /\ a[i - 1] = b[i - 1]
        BY <2>3
      <4>2. CASE i = n
        BY <4>1, <4>2, <2>3
      <4>3. CASE i # n
        <5>1. i \in 1 .. n - 1 /\ i < n /\ i \in 0 .. n
          BY <2>3, <4>3
        <5>2. a[i] = b[i]
          BY <5>1
        <5> QED BY <3>3, <4>1, <5>1, <5>2
      <4> QED BY <4>2, <4>3
    <3> HIDE DEF a
    <3>8. P(a, n)
      BY <3>5, <3>6, <3>7
    <3> QED BY <2>3, <3>8
  <2> QED BY <2>4, <2>5
<1>2. Len(s) \in 0 .. Len(s)
  BY <1>0
<1>3. \E a : P(a, Len(s))
  BY <1>1, <1>2
<1> QED BY <1>3 DEF Adds

\* There is one such sum.
LEMMA AddsOnce ==
  ASSUME NEW w \in Weights, NEW s \in Seq(Frames), NEW t \in Seq(Frames), Len(s) = Len(t),
         \A i \in 1 .. Len(s) : w[s[i]] = w[t[i]],
         NEW a, Adds(w, s, a), NEW b, Adds(w, t, b)
  PROVE  a[Len(s)] = b[Len(s)]
<1> DEFINE Bad == {n \in 0 .. Len(s) : a[n] # b[n]}
<1>0. Len(s) \in Nat
  OBVIOUS
<1>1. Bad = {}
  <2> SUFFICES ASSUME Bad # {} PROVE FALSE
    OBVIOUS
  <2>1. \E n \in Bad : \A m \in Bad : n <= m
    <3>1. Bad \in SUBSET Nat /\ Bad # {}
      BY <1>0
    <3> HIDE DEF Bad
    <3> QED BY <3>1, LeastNat
  <2>2. PICK n \in Bad : \A m \in Bad : n <= m
    BY <2>1
  <2>3. n \in 0 .. Len(s) /\ a[n] # b[n]
    BY <2>2
  <2>4. n # 0
    BY <2>3 DEF Adds
  <2>5. n - 1 \in 0 .. Len(s) /\ ~(n <= n - 1) /\ n \in 1 .. Len(s)
    BY <1>0, <2>3, <2>4
  <2>6. a[n - 1] = b[n - 1]
    BY <2>2, <2>5
  <2> QED BY <2>3, <2>5, <2>6 DEF Adds
<1> QED BY <1>0, <1>1

\* The sum of a list with these sums.
LEMMA TotalOf ==
  ASSUME NEW w \in Weights, NEW s \in Seq(Frames), NEW a, Adds(w, s, a)
  PROVE  Total(w, s) = a[Len(s)] /\ Total(w, s) \in Nat
<1> DEFINE b == CHOOSE b : Adds(w, s, b)
<1>1. Adds(w, s, b)
  OBVIOUS
<1> HIDE DEF b
<1>2. a[Len(s)] = b[Len(s)]
  BY <1>1, AddsOnce
<1>3. Total(w, s) = b[Len(s)]
  BY DEF Total, b
<1>4. Len(s) \in 0 .. Len(s)
  OBVIOUS
<1> QED BY <1>2, <1>3, <1>4 DEF Adds

\* A sum is a number.
LEMMA TotalNat ==
  ASSUME NEW w \in Weights, NEW s \in Seq(Frames) PROVE Total(w, s) \in Nat
BY AddsExist, TotalOf

\* It depends on the weights only.
LEMMA TotalAlike ==
  ASSUME NEW w \in Weights, NEW s \in Seq(Frames), NEW t \in Seq(Frames), Len(s) = Len(t),
         \A i \in 1 .. Len(s) : w[s[i]] = w[t[i]]
  PROVE  Total(w, s) = Total(w, t)
<1>1. PICK a : Adds(w, s, a)
  BY AddsExist
<1>2. PICK b : Adds(w, t, b)
  BY AddsExist
<1> QED BY <1>1, <1>2, AddsOnce, TotalOf

\* Weightless frames count for nothing.
LEMMA TotalZero ==
  ASSUME NEW w \in Weights, NEW s \in Seq(Frames), \A i \in 1 .. Len(s) : w[s[i]] = 0
  PROVE  Total(w, s) = 0
<1> DEFINE a == [i \in 0 .. Len(s) |-> 0]
<1>1. Adds(w, s, a)
  BY DEF Adds
<1>2. a[Len(s)] = 0
  OBVIOUS
<1> HIDE DEF a
<1> QED BY <1>1, <1>2, TotalOf

\* Two lists, one above the other.
LEMMA TotalCat ==
  ASSUME NEW w \in Weights, NEW p \in Seq(Frames), NEW q \in Seq(Frames)
  PROVE  Total(w, p \o q) = Total(w, p) + Total(w, q)
<1>1. PICK a : Adds(w, p, a)
  BY AddsExist
<1>2. PICK b : Adds(w, q, b)
  BY AddsExist
<1> DEFINE s == p \o q
           m == Len(p)
           n == Len(q)
           c == [i \in 0 .. m + n |-> IF i <= m THEN a[i] ELSE a[m] + b[i - m]]
<1>3. /\ s \in Seq(Frames) /\ Len(s) = m + n /\ m \in Nat /\ n \in Nat
      /\ \A i \in 1 .. m : s[i] = p[i]
      /\ \A i \in 1 .. n : s[m + i] = q[i]
  BY Above
<1>4. /\ a \in [0 .. m -> Nat] /\ a[0] = 0 /\ \A i \in 1 .. m : a[i] = a[i - 1] + w[p[i]]
      /\ b \in [0 .. n -> Nat] /\ b[0] = 0 /\ \A i \in 1 .. n : b[i] = b[i - 1] + w[q[i]]
  BY <1>1, <1>2 DEF Adds
<1>w. (\A i \in 1 .. m : w[p[i]] \in Nat) /\ \A i \in 1 .. n : w[q[i]] \in Nat
  BY DEF Weights
<1> HIDE DEF s, m, n
<1>5. c \in [0 .. m + n -> Nat]
  <2>1. ASSUME NEW i \in 0 .. m + n PROVE (IF i <= m THEN a[i] ELSE a[m] + b[i - m]) \in Nat
    <3>1. CASE i <= m
      BY <1>3, <1>4, <3>1
    <3>2. CASE ~(i <= m)
      <4>1. i - m \in 0 .. n /\ m \in 0 .. m
        BY <1>3, <3>2
      <4> QED BY <1>4, <3>2, <4>1
    <3> QED BY <3>1, <3>2
  <2> QED BY <2>1
<1>6. c[0] = 0
  BY <1>3, <1>4
<1>7. ASSUME NEW i \in 1 .. m + n PROVE c[i] = c[i - 1] + w[s[i]]
  <2>1. i - 1 \in 0 .. m + n /\ i \in 0 .. m + n
    BY <1>3
  <2>2. CASE i <= m
    <3>1. i \in 1 .. m /\ i - 1 <= m
      BY <1>3, <2>2
    <3>2. c[i] = a[i] /\ c[i - 1] = a[i - 1]
      BY <2>1, <2>2, <3>1
    <3> QED BY <1>3, <1>4, <3>1, <3>2
  <2>3. CASE ~(i <= m)
    <3> DEFINE j == i - m
    <3>1. j \in 1 .. n /\ m + j = i /\ m \in 0 .. m /\ j - 1 \in 0 .. n
      BY <1>3, <2>3
    <3>2. c[i] = a[m] + b[j]
      BY <2>1, <2>3
    <3>3. c[i - 1] = a[m] + b[j - 1]
      <4>1. CASE i - 1 <= m
        <5>1. i - 1 = m /\ j - 1 = 0
          BY <1>3, <2>3, <4>1
        <5>2. c[i - 1] = a[m]
          BY <2>1, <5>1, <1>3
        <5>3. a[m] \in Nat
          BY <1>4, <3>1
        <5> HIDE DEF c, j
        <5> QED BY <1>4, <5>1, <5>2, <5>3
      <4>2. CASE ~(i - 1 <= m)
        <5>1. (i - 1) - m = j - 1
          BY <1>3
        <5>2. c[i - 1] = a[m] + b[(i - 1) - m]
          BY <2>1, <4>2
        <5> HIDE DEF c, j
        <5> QED BY <5>1, <5>2
      <4> QED BY <4>1, <4>2
    <3> HIDE DEF j
    <3>4. s[i] = q[j] /\ b[j] = b[j - 1] + w[q[j]] /\ w[q[j]] \in Nat
      BY <1>3, <1>4, <1>w, <3>1
    <3>5. b[j - 1] \in Nat /\ a[m] \in Nat
      BY <1>4, <3>1
    <3> QED BY <3>2, <3>3, <3>4, <3>5
  <2> QED BY <2>2, <2>3
<1>8. Adds(w, s, c)
  BY <1>3, <1>5, <1>6, <1>7 DEF Adds
<1>9. c[m + n] = a[m] + b[n]
  <2>1. CASE n = 0
    BY <2>1, <1>3, <1>4
  <2>2. CASE n # 0
    <3>1. m + n \in 0 .. m + n /\ ~(m + n <= m) /\ (m + n) - m = n
      BY <1>3, <2>2
    <3> QED BY <3>1
  <2> QED BY <2>1, <2>2
<1> HIDE DEF c
<1>10. Total(w, s) = c[m + n]
  BY <1>3, <1>8, TotalOf
<1>11. Total(w, p) = a[m] /\ Total(w, q) = b[n]
  BY <1>1, <1>2, TotalOf DEF m, n
<1> QED BY <1>9, <1>10, <1>11 DEF s

\* Lists of up to three frames.
LEMMA TotalShort ==
  ASSUME NEW w \in Weights
  PROVE  /\ Total(w, <<>>) = 0
         /\ \A x \in Frames : Total(w, <<x>>) = w[x]
         /\ \A x, y \in Frames : Total(w, <<x, y>>) = w[x] + w[y]
         /\ \A x, y, z \in Frames : Total(w, <<x, y, z>>) = w[x] + w[y] + w[z]
<1>1. Total(w, <<>>) = 0
  <2>1. <<>> \in Seq(Frames) /\ \A i \in 1 .. Len(<<>>) : w[<<>>[i]] = 0
    OBVIOUS
  <2> QED BY <2>1, TotalZero
<1>2. ASSUME NEW x \in Frames PROVE Total(w, <<x>>) = w[x]
  <2> DEFINE s == <<x>>
             a == [i \in 0 .. 1 |-> IF i = 0 THEN 0 ELSE w[x]]
  <2>1. s \in Seq(Frames) /\ Len(s) = 1 /\ s[1] = x /\ w[x] \in Nat
    BY DEF Weights
  <2> HIDE DEF s
  <2>2. Adds(w, s, a)
    BY <2>1 DEF Adds
  <2>3. a[1] = w[x]
    OBVIOUS
  <2> HIDE DEF a
  <2>4. Total(w, s) = w[x]
    BY <2>1, <2>2, <2>3, TotalOf
  <2> QED BY <2>4 DEF s
<1>3. ASSUME NEW x \in Frames, NEW y \in Frames PROVE Total(w, <<x, y>>) = w[x] + w[y]
  <2>1. <<x>> \o <<y>> = <<x, y>>
    BY ConcatTwo
  <2>2. <<x>> \in Seq(Frames) /\ <<y>> \in Seq(Frames)
    OBVIOUS
  <2>3. Total(w, <<x>> \o <<y>>) = Total(w, <<x>>) + Total(w, <<y>>)
    BY <2>2, TotalCat
  <2> QED BY <1>2, <2>1, <2>3
<1>4. ASSUME NEW x \in Frames, NEW y \in Frames, NEW z \in Frames
      PROVE  Total(w, <<x, y, z>>) = w[x] + w[y] + w[z]
  <2>1. <<x, y, z>> = <<x, y>> \o <<z>> /\ <<x, y>> \in Seq(Frames) /\ <<z>> \in Seq(Frames)
    OBVIOUS
  <2>2. Total(w, <<x, y, z>>) = Total(w, <<x, y>>) + Total(w, <<z>>)
    BY <2>1, TotalCat
  <2>3. Total(w, <<x, y>>) = w[x] + w[y] /\ Total(w, <<z>>) = w[z]
    BY <1>2, <1>3
  <2> QED BY <2>2, <2>3
<1> QED BY <1>1, <1>2, <1>3, <1>4

\* A list without its first frame.
LEMMA TotalTail ==
  ASSUME NEW w \in Weights, NEW s \in Seq(Frames), s # <<>>
  PROVE  Total(w, s) = w[Head(s)] + Total(w, Tail(s))
<1>1. Head(s) \in Frames /\ Tail(s) \in Seq(Frames) /\ s = <<Head(s)>> \o Tail(s)
          /\ <<Head(s)>> \in Seq(Frames)
  OBVIOUS
<1>2. Total(w, s) = Total(w, <<Head(s)>>) + Total(w, Tail(s))
  BY <1>1, TotalCat
<1> QED BY <1>1, <1>2, TotalShort

\* No frame weighs more than the list.
LEMMA TotalPart ==
  ASSUME NEW w \in Weights, NEW s \in Seq(Frames), NEW i \in 1 .. Len(s)
  PROVE  /\ w[s[i]] <= Total(w, s)
         /\ \A t \in Seq(Frames) : Len(t) = Len(s) /\ (\A j \in 1 .. Len(s) : j # i => t[j] = s[j])
              => Total(w, t) = Total(w, s) - w[s[i]] + w[t[i]]
<1> DEFINE p(x) == SubSeq(x, 1, i - 1)
           q(x) == SubSeq(x, i + 1, Len(s))
<1>1. ASSUME NEW t \in Seq(Frames), Len(t) = Len(s)
      PROVE  /\ p(t) \in Seq(Frames) /\ q(t) \in Seq(Frames)
             /\ Total(w, t) = Total(w, p(t)) + w[t[i]] + Total(w, q(t))
  <2>1. p(t) \in Seq(Frames) /\ q(t) \in Seq(Frames) /\ t[i] \in Frames /\ <<t[i]>> \in Seq(Frames)
            /\ Len(p(t)) = i - 1 /\ Len(q(t)) = Len(s) - i
            /\ (\A j \in 1 .. i - 1 : p(t)[j] = t[j]) /\ (\A j \in 1 .. Len(s) - i : q(t)[j] = t[i + j])
    BY <1>1
  <2> DEFINE P == p(t)
             Q == q(t)
             m == P \o <<t[i]>>
             u == m \o Q
  <2> HIDE DEF P, Q
  <2>2. m \in Seq(Frames) /\ Len(m) = i /\ (\A j \in 1 .. i - 1 : m[j] = t[j]) /\ m[i] = t[i]
    BY <2>1 DEF P
  <2> HIDE DEF m
  <2>3. u \in Seq(Frames) /\ Len(u) = Len(t)
    BY <1>1, <2>1, <2>2 DEF Q
  <2>4. ASSUME NEW j \in 1 .. Len(t) PROVE u[j] = t[j]
    <3>1. CASE j <= i
      BY <2>1, <2>2, <3>1 DEF Q
    <3>2. CASE ~(j <= i)
      <4>1. j - i \in 1 .. Len(s) - i /\ i + (j - i) = j
        BY <1>1, <3>2
      <4>2. Q \in Seq(Frames) /\ Len(Q) = Len(s) - i /\ Q[j - i] = t[j]
        BY <2>1, <4>1 DEF Q
      <4>3. u[Len(m) + (j - i)] = Q[j - i]
        BY <2>2, <4>1, <4>2, Above
      <4> QED BY <2>2, <4>1, <4>2, <4>3
    <3> QED BY <3>1, <3>2
  <2> HIDE DEF u
  <2>5. u = t
    BY <1>1, <2>3, <2>4, SeqEqual
  <2>6. Total(w, u) = Total(w, m) + Total(w, Q)
    BY <2>1, <2>2, TotalCat DEF u, Q
  <2>7. Total(w, m) = Total(w, P) + Total(w, <<t[i]>>)
    BY <2>1, TotalCat DEF m, P
  <2>8. Total(w, <<t[i]>>) = w[t[i]]
    BY <2>1, TotalShort
  <2> QED BY <2>1, <2>5, <2>6, <2>7, <2>8 DEF P, Q
<1>2. w[s[i]] <= Total(w, s)
  <2>0. p(s) \in Seq(Frames) /\ q(s) \in Seq(Frames) /\ w[s[i]] \in Nat
    BY <1>1 DEF Weights
  <2>1. Total(w, p(s)) \in Nat /\ Total(w, q(s)) \in Nat /\ w[s[i]] \in Nat
    <3> HIDE DEF p, q
    <3> QED BY <2>0, TotalNat
  <2>2. Total(w, s) = Total(w, p(s)) + w[s[i]] + Total(w, q(s))
    BY <1>1
  <2> HIDE DEF p, q
  <2> QED BY <2>1, <2>2
<1>3. ASSUME NEW t \in Seq(Frames), Len(t) = Len(s), \A j \in 1 .. Len(s) : j # i => t[j] = s[j]
      PROVE  Total(w, t) = Total(w, s) - w[s[i]] + w[t[i]]
  <2>1. p(t) = p(s) /\ q(t) = q(s)
    <3>1. \A j \in 1 .. i - 1 : p(t)[j] = p(s)[j]
      BY <1>3
    <3>2. \A j \in 1 .. Len(s) - i : q(t)[j] = q(s)[j]
      BY <1>3
    <3>3. p(t) \in Seq(Frames) /\ q(t) \in Seq(Frames) /\ p(s) \in Seq(Frames) /\ q(s) \in Seq(Frames)
              /\ Len(p(t)) = i - 1 /\ Len(q(t)) = Len(s) - i /\ Len(p(s)) = i - 1 /\ Len(q(s)) = Len(s) - i
      BY <1>3
    <3> HIDE DEF p, q
    <3> QED BY <3>1, <3>2, <3>3, SeqEqual
  <2>0. p(s) \in Seq(Frames) /\ q(s) \in Seq(Frames) /\ w[s[i]] \in Nat /\ w[t[i]] \in Nat
    BY <1>1, <1>3 DEF Weights
  <2>2. Total(w, p(s)) \in Nat /\ Total(w, q(s)) \in Nat /\ w[s[i]] \in Nat /\ w[t[i]] \in Nat
    <3> HIDE DEF p, q
    <3> QED BY <2>0, TotalNat
  <2>3. /\ Total(w, s) = Total(w, p(s)) + w[s[i]] + Total(w, q(s))
        /\ Total(w, t) = Total(w, p(t)) + w[t[i]] + Total(w, q(t))
    BY <1>1, <1>3
  <2> HIDE DEF p, q
  <2> QED BY <2>1, <2>2, <2>3
<1> QED BY <1>2, <1>3

(***************************************************************************)
(* What the frames on the stack and in the ticks amount to                 *)
(***************************************************************************)

Bit(b) == IF b THEN 1 ELSE 0
Held(w) == Total(w, stack) + Total(w, ticks)
TopWeight(w) == IF stack = <<>> THEN 0 ELSE w[Head(stack)]

\* The frames of the functions S; the decrements of pendingcb that a frame still owes.
Of(S) == [fr \in Frames |-> IF fr.f \in S THEN 1 ELSE 0]
Ones == {"onwriteError", "onwriteSync", "finishNT", "finish", "_final", "onFinish"}
Counts == {"afterWriteTick", "afterWrite", "afterWriteLoop"}
Pays == [fr \in Frames |-> IF fr.f \in Ones THEN 1
                           ELSE IF fr.f \in Counts /\ fr.n > 0 THEN fr.n ELSE 0]

\* They are weights.
LEMMA WeightTypes == Pays \in Weights /\ \A S : Of(S) \in Weights
<1>1. \A fr \in Frames : fr.n \in Int
  BY DEF Frames
<1>2. Pays \in Weights
  BY <1>1 DEF Pays, Weights
<1> QED BY <1>2 DEF Of, Weights

\* The weights of the frames that the actions make.
LEMMA PaysOf ==
  ASSUME NEW f \in Functions, NEW n \in Int, NEW cb \in Seq(Kinds \cup {"end"}), NEW er \in BOOLEAN
  PROVE  /\ Pays[F(f)] = Bit(f \in Ones) /\ Pays[Fe(f, er)] = Bit(f \in Ones)
         /\ Pays[Fn(f, n)] = IF f \in Ones THEN 1 ELSE IF f \in Counts /\ n > 0 THEN n ELSE 0
         /\ Pays[Fnc(f, n, cb)] = IF f \in Ones THEN 1 ELSE IF f \in Counts /\ n > 0 THEN n ELSE 0
         /\ Pays[Fc(cb, er)] = 0
<1>1. /\ F(f) \in Frames /\ Fe(f, er) \in Frames /\ Fn(f, n) \in Frames
      /\ Fnc(f, n, cb) \in Frames /\ Fc(cb, er) \in Frames
  BY FrameTypes
<1>2. "callbacks" \notin Ones /\ "callbacks" \notin Counts
  BY DEF Ones, Counts
<1> QED BY <1>1, <1>2, FrameParts DEF Pays, Bit

\* What a step does to the stack and to the ticks.
Runs(fs, tk) == fs \in Seq(Frames) /\ tk \in Seq(Frames) /\ Shifted(fs) /\ ticks' = ticks \o tk

\* A function that runs leaves frames on the stack, ...
LEMMA CallRuns ==
  ASSUME CoreTypes, NEW f, Top(f)
  PROVE  /\ stack # <<>> /\ Head(stack).f = f /\ OnTop = f /\ f \in Functions
         /\ Head(stack) \in Frames
         /\ \A fs \in Seq(Frames) : Call(fs) => Shifted(fs)
<1>1. stack # <<>> /\ Head(stack).f = f
  BY DEF Top
<1>2. \A fs \in Seq(Frames) : Call(fs) => Shifted(fs)
  BY Called
<1>3. OnTop = f
  BY <1>1 DEF OnTop
<1>4. Head(stack) \in Frames /\ f \in Functions
  BY <1>1, TopFrame
<1> QED BY <1>1, <1>2, <1>3, <1>4

\* ... and ticks.
LEMMA TicksRun ==
  ASSUME CoreTypes
  PROVE  /\ <<>> \in Seq(Frames) /\ ticks \in Seq(Frames)
         /\ ticks' = ticks => ticks' = ticks \o <<>>
         /\ \A fr \in Frames : Tick(fr) => <<fr>> \in Seq(Frames) /\ ticks' = ticks \o <<fr>>
<1>1. ticks \in Seq(Frames)
  BY DEF CoreTypes
<1>2. \A s \in Seq(Frames) : s \o <<>> = s /\ \A fr \in Frames : Append(s, fr) = s \o <<fr>>
  OBVIOUS
<1> QED BY <1>1, <1>2 DEF Tick

\* Lists of frames.
LEMMA FrameLists ==
  /\ <<>> \in Seq(Frames)
  /\ \A x \in Frames : <<x>> \in Seq(Frames)
  /\ \A x, y \in Frames : <<x, y>> \in Seq(Frames)
  /\ \A x, y, z \in Frames : <<x, y, z>> \in Seq(Frames)
OBVIOUS

\* The totals after a step.
LEMMA HeldRuns ==
  ASSUME CoreTypes, NEW fs, NEW tk, Runs(fs, tk), NEW w \in Weights
  PROVE  /\ Held(w)' = Held(w) + Total(w, fs) + Total(w, tk) - TopWeight(w)
         /\ Held(w) \in Nat /\ Total(w, fs) \in Nat /\ Total(w, tk) \in Nat /\ TopWeight(w) \in Nat
<1>1. /\ stack \in Seq(Frames) /\ ticks \in Seq(Frames) /\ fs \in Seq(Frames) /\ tk \in Seq(Frames)
      /\ stack' = fs \o Under /\ ticks' = ticks \o tk
  BY DEF CoreTypes, Runs, Shifted
<1>2. Under \in Seq(Frames) /\ Total(w, stack) = TopWeight(w) + Total(w, Under) /\ TopWeight(w) \in Nat
  <2>1. CASE stack = <<>>
    <3>1. Under = <<>> /\ Under \in Seq(Frames) /\ TopWeight(w) = 0
      BY <2>1 DEF Under, TopWeight
    <3>2. Total(w, stack) = 0 /\ Total(w, Under) = 0
      BY <2>1, <3>1, TotalShort
    <3> QED BY <3>1, <3>2
  <2>2. CASE stack # <<>>
    <3>1. Under = Tail(stack) /\ TopWeight(w) = w[Head(stack)] /\ Head(stack) \in Frames
              /\ Tail(stack) \in Seq(Frames)
      BY <1>1, <2>2 DEF Under, TopWeight
    <3>2. w[Head(stack)] \in Nat
      BY <3>1 DEF Weights
    <3> QED BY <1>1, <2>2, <3>1, <3>2, TotalTail
  <2> QED BY <2>1, <2>2
<1>3. Total(w, stack') = Total(w, fs) + Total(w, Under) /\ Total(w, ticks') = Total(w, ticks) + Total(w, tk)
  BY <1>1, <1>2, TotalCat
<1>4. /\ Total(w, fs) \in Nat /\ Total(w, tk) \in Nat /\ Total(w, Under) \in Nat
      /\ Total(w, stack) \in Nat /\ Total(w, ticks) \in Nat
  BY <1>1, <1>2, TotalNat
<1> QED BY <1>2, <1>3, <1>4 DEF Held

\* Calls of the user leave the user's frame below what they call.
LEMMA PushRuns ==
  ASSUME CoreTypes, InUser, NEW gs \in Seq(Frames), Push(gs), NEW tk \in Seq(Frames), ticks' = ticks \o tk
  PROVE  \E u \in PlainFrames : /\ u.f = "user" /\ u \in Frames /\ Runs(gs \o <<u>>, tk)
                                /\ OnTop \in {"none", "user"}
                                /\ \A w \in Weights : Total(w, gs \o <<u>>) = Total(w, gs) + w[u]
<1>1. PICK u \in PlainFrames : u.f = "user" /\ Shifted(gs \o <<u>>)
  BY Pushed
<1>2. u \in Frames /\ <<u>> \in Seq(Frames)
  BY DEF PlainFrames
<1>3. gs \o <<u>> \in Seq(Frames)
  BY <1>2
<1>4. \A w \in Weights : Total(w, gs \o <<u>>) = Total(w, gs) + w[u]
  BY <1>2, TotalCat, TotalShort
<1>5. OnTop \in {"none", "user"}
  BY Pushed
<1> QED BY <1>1, <1>2, <1>3, <1>4, <1>5 DEF Runs

(***************************************************************************)
(* pendingcb                                                               *)
(***************************************************************************)

\* pendingcb counts what is queued, what the sink has, and what the frames owe.
Owes == Len(buffer) + Bit(st.expectWriteCb) + Held(Pays) + Bit("final" \in io)
PendingCounted == st.pendingcb \in Int /\ Owes <= st.pendingcb

\* What a step does to the debts, told from what it leaves and what it changes.
LEMMA PendingStep ==
  ASSUME CoreTypes, CoreTypes', PendingCounted, NEW fs, NEW tk, Runs(fs, tk), st'.pendingcb \in Int,
         Len(buffer') + Bit(st'.expectWriteCb) + Bit("final" \in io') + Total(Pays, fs) + Total(Pays, tk)
             + st.pendingcb
           <= Len(buffer) + Bit(st.expectWriteCb) + Bit("final" \in io) + TopWeight(Pays) + st'.pendingcb
  PROVE  PendingCounted'
<1>1. /\ Held(Pays)' = Held(Pays) + Total(Pays, fs) + Total(Pays, tk) - TopWeight(Pays)
      /\ Held(Pays) \in Nat /\ Total(Pays, fs) \in Nat /\ Total(Pays, tk) \in Nat /\ TopWeight(Pays) \in Nat
  BY HeldRuns, WeightTypes
<1>2. Len(buffer) \in Nat /\ Len(buffer') \in Nat
  <2>1. buffer \in Seq(Nat) /\ buffer' \in Seq(Nat)
    BY DEF CoreTypes
  <2> QED BY <2>1
<1>3. \A b : Bit(b) \in Nat
  BY DEF Bit
<1> DEFINE h == Held(Pays)
           g == Held(Pays)'
           x == Total(Pays, fs)
           y == Total(Pays, tk)
           t == TopWeight(Pays)
           p == Bit(st.expectWriteCb)
           q == Bit(st'.expectWriteCb)
           u == Bit("final" \in io)
           v == Bit("final" \in io')
           l == Len(buffer)
           m == Len(buffer')
<1>4. l + p + h + u <= st.pendingcb /\ st.pendingcb \in Int
  BY DEF PendingCounted, Owes
<1>5. g = h + x + y - t /\ h \in Nat /\ x \in Nat /\ y \in Nat /\ t \in Nat
  BY <1>1
<1>6. p \in Nat /\ q \in Nat /\ u \in Nat /\ v \in Nat /\ l \in Nat /\ m \in Nat
  BY <1>2, <1>3
<1>7. m + q + v + x + y + st.pendingcb <= l + p + u + t + st'.pendingcb
  OBVIOUS
<1>8. Owes' = m + q + g + v
  BY DEF Owes
<1> HIDE DEF h, g, x, y, t, p, q, u, v, l, m
<1>9. m + q + g + v <= st'.pendingcb
  BY <1>4, <1>5, <1>6, <1>7
<1> QED BY <1>8, <1>9 DEF PendingCounted

(***************************************************************************)
(* Steps that neither owe anything nor end or close the stream             *)
(***************************************************************************)

\* The functions that finish and close the stream, and those that look at it.
Ending == {"finish", "onFinishTick", "_final", "onFinish"}
Closing == {"_destroy", "onDestroy", "emitErrorCloseNT", "emitCloseNT"}
Marked == Ending \cup Closing \cup {"finishNT", "emitFinish", "prefinish", "finishMaybeCheck", "emitErrorNT"}

QuietFrames == {fr \in Frames : fr.f \notin Marked}
MereNames == Functions \ (Ones \cup Counts \cup Marked)
MereFrames == {fr \in Frames : fr.f \in MereNames}

\* The state that decides on finishing and closing.
Verdicts == {"finalCalled", "finished", "prefinished", "destroyed", "constructed", "closeEmitted",
             "errorEmitted"}
SameVerdicts ==
  /\ \A x \in Verdicts : st'[x] = st[x]
  /\ events' = events /\ \A x \in {"final", "destroy"} : x \in io' => x \in io
SameDebts ==
  Len(buffer') <= Len(buffer) /\ st'.expectWriteCb = st.expectWriteCb /\ st'.pendingcb = st.pendingcb

Quiet == /\ \E fs, tk : Runs(fs, tk) /\ fs \in Seq(QuietFrames) /\ tk \in Seq(QuietFrames)
         /\ OnTop # "prefinish" /\ SameVerdicts
Mere == /\ \E fs, tk : Runs(fs, tk) /\ fs \in Seq(MereFrames) /\ tk \in Seq(MereFrames)
        /\ OnTop # "prefinish" /\ SameVerdicts /\ SameDebts

\* The frames that are neither.
LEMMA MereMade ==
  /\ \A f \in MereNames : F(f) \in MereFrames
  /\ \A f \in MereNames, er \in BOOLEAN : Fe(f, er) \in MereFrames
  /\ \A f \in MereNames, n \in Int : Fn(f, n) \in MereFrames
  /\ \A f \in MereNames, n \in Int, cb \in Seq(Kinds \cup {"end"}) : Fnc(f, n, cb) \in MereFrames
  /\ \A cb \in Seq(Kinds \cup {"end"}), er \in BOOLEAN : Fc(cb, er) \in MereFrames
<1>1. "callbacks" \in MereNames /\ \A f \in MereNames : f \in Functions
  BY DEF MereNames, Functions, Ones, Counts, Marked, Ending, Closing
<1>2. 0 \in Int /\ <<>> \in Seq(Kinds \cup {"end"}) /\ TRUE \in BOOLEAN
  OBVIOUS
<1>3. ASSUME NEW f \in MereNames, NEW n \in Int, NEW cb \in Seq(Kinds \cup {"end"}), NEW er \in BOOLEAN
      PROVE  /\ F(f) \in MereFrames /\ Fe(f, er) \in MereFrames /\ Fn(f, n) \in MereFrames
             /\ Fnc(f, n, cb) \in MereFrames /\ Fc(cb, er) \in MereFrames
  BY <1>1, FrameTypes, FrameParts DEF MereFrames
<1>4. ASSUME NEW f \in MereNames PROVE F(f) \in MereFrames
  BY <1>2, <1>3
<1>5. ASSUME NEW f \in MereNames, NEW er \in BOOLEAN PROVE Fe(f, er) \in MereFrames
  BY <1>2, <1>3
<1>6. ASSUME NEW f \in MereNames, NEW n \in Int PROVE Fn(f, n) \in MereFrames
  BY <1>2, <1>3
<1>7. ASSUME NEW f \in MereNames, NEW n \in Int, NEW cb \in Seq(Kinds \cup {"end"})
      PROVE  Fnc(f, n, cb) \in MereFrames
  BY <1>2, <1>3
<1>8. ASSUME NEW cb \in Seq(Kinds \cup {"end"}), NEW er \in BOOLEAN PROVE Fc(cb, er) \in MereFrames
  BY <1>1, <1>2, <1>3
<1> QED BY <1>4, <1>5, <1>6, <1>7, <1>8

\* Lists of these frames.
LEMMA MereLists ==
  /\ <<>> \in Seq(MereFrames)
  /\ \A x \in MereFrames : <<x>> \in Seq(MereFrames)
  /\ \A x, y \in MereFrames : <<x, y>> \in Seq(MereFrames)
  /\ \A x, y, z \in MereFrames : <<x, y, z>> \in Seq(MereFrames)
  /\ \A s, t \in Seq(MereFrames) : s \o t \in Seq(MereFrames)
OBVIOUS

\* They are lists of quiet frames, and of frames.
LEMMA MereSeq ==
  /\ \A s \in Seq(MereFrames) : s \in Seq(Frames) /\ s \in Seq(QuietFrames) /\ Total(Pays, s) = 0
  /\ \A s \in Seq(QuietFrames) : s \in Seq(Frames)
<1>1. MereFrames \subseteq QuietFrames /\ MereFrames \subseteq Frames /\ QuietFrames \subseteq Frames
  BY DEF MereFrames, MereNames, QuietFrames
<1>2. \A fr \in MereFrames : Pays[fr] = 0
  BY DEF MereFrames, MereNames, Pays
<1>3. \A s \in Seq(MereFrames) : s \in Seq(Frames) /\ s \in Seq(QuietFrames)
  BY <1>1
<1>4. ASSUME NEW s \in Seq(MereFrames) PROVE Total(Pays, s) = 0
  <2>1. \A i \in 1 .. Len(s) : Pays[s[i]] = 0
    BY <1>2
  <2> QED BY <1>3, <2>1, TotalZero, WeightTypes
<1> QED BY <1>1, <1>3, <1>4

\* What owes nothing is quiet.
LEMMA MereQuiet == ASSUME Mere PROVE Quiet
BY MereSeq DEF Mere, Quiet

\* A step that changes no debt keeps the count.
LEMMA MerePending == ASSUME CoreTypes, CoreTypes', PendingCounted, Mere PROVE PendingCounted'
<1>1. PICK fs, tk : Runs(fs, tk) /\ fs \in Seq(MereFrames) /\ tk \in Seq(MereFrames)
  BY DEF Mere
<1>2. Total(Pays, fs) = 0 /\ Total(Pays, tk) = 0
  BY <1>1, MereSeq
<1>3. TopWeight(Pays) \in Nat
  BY <1>1, HeldRuns, WeightTypes
<1>4. /\ Len(buffer') <= Len(buffer) /\ st'.expectWriteCb = st.expectWriteCb /\ st'.pendingcb = st.pendingcb
      /\ "final" \in io' => "final" \in io
  BY DEF Mere, SameDebts, SameVerdicts
<1>5. st.pendingcb \in Int /\ Len(buffer) \in Nat /\ Len(buffer') \in Nat
  <2>1. buffer \in Seq(Nat) /\ buffer' \in Seq(Nat) /\ st.pendingcb \in Int
    BY DEF CoreTypes, PendingCounted
  <2> QED BY <2>1
<1>6. Bit("final" \in io') <= Bit("final" \in io) /\ \A b : Bit(b) \in Nat
  BY <1>4 DEF Bit
<1> QED BY <1>1, <1>2, <1>3, <1>4, <1>5, <1>6, PendingStep

\* A function that runs and leaves such frames.
LEMMA MereCall ==
  ASSUME CoreTypes, NEW f, Top(f), f # "prefinish", SameVerdicts, SameDebts,
         NEW fs \in Seq(MereFrames), Call(fs), NEW tk \in Seq(MereFrames), ticks' = ticks \o tk
  PROVE  Mere
<1>1. fs \in Seq(Frames) /\ tk \in Seq(Frames)
  BY MereSeq
<1>2. Shifted(fs) /\ OnTop = f
  BY <1>1, CallRuns
<1> QED BY <1>1, <1>2 DEF Mere, Runs

\* Ticks of these frames.
LEMMA MereTicks ==
  ASSUME CoreTypes
  PROVE  /\ ticks' = ticks => \E tk \in Seq(MereFrames) : ticks' = ticks \o tk
         /\ \A fr \in MereFrames : Tick(fr) => \E tk \in Seq(MereFrames) : ticks' = ticks \o tk
<1>1. MereFrames \subseteq Frames
  BY DEF MereFrames
<1> QED BY <1>1, TicksRun, MereLists

\* The functions that only look at the stream, write, or call back the user.
LEMMA MereActions ==
  ASSUME SinkInv,
         \/ UserReturn \/ WriteReturn \/ EndSetEnding \/ EndCallback \/ ImplWrite \/ Unsync
         \/ RunCallbacks \/ ErrorBuffer \/ ResetBuffer \/ ClearBufferEnd
         \/ OnFinishError \/ CallFinishedCallbacks \/ ConstructNT
  PROVE  Mere
<1>0. CoreTypes /\ DOMAIN st = Fields /\ Len(buffer) \in Nat
  <2>1. CoreTypes /\ DOMAIN st = Fields /\ buffer \in Seq(Nat)
    BY DEF SinkInv, CoreTypes
  <2> QED BY <2>1
<1>1. /\ 0 \in Int /\ 1 \in Int /\ <<>> \in Seq(Kinds \cup {"end"})
      /\ TRUE \in BOOLEAN /\ FALSE \in BOOLEAN
  OBVIOUS
<1>2. \A f \in MereNames : F(f) \in MereFrames
  BY MereMade
<1>3. CASE UserReturn
  <2>1. Top("user")
    BY <1>3 DEF UserReturn
  <2>2. SameVerdicts /\ SameDebts
    BY <1>0, <1>3 DEF UserReturn, history, SameVerdicts, SameDebts, Verdicts, Fields
  <2>3. \E tk \in Seq(MereFrames) : ticks' = ticks \o tk
    BY <1>0, <1>3, MereTicks DEF UserReturn
  <2>4. \E fs \in Seq(MereFrames) : Call(fs)
    BY <1>3, MereLists DEF UserReturn
  <2> QED BY <1>0, <2>1, <2>2, <2>3, <2>4, MereCall
<1>4. CASE WriteReturn
  <2>1. Top("writeReturn")
    BY <1>4 DEF WriteReturn
  <2>2. SameVerdicts /\ SameDebts
    BY <1>0, <1>4 DEF WriteReturn, history, SameVerdicts, SameDebts, Verdicts, Fields
  <2>3. \E tk \in Seq(MereFrames) : ticks' = ticks \o tk
    BY <1>0, <1>4, MereTicks DEF WriteReturn
  <2>4. \E fs \in Seq(MereFrames) : Call(fs)
    BY <1>4, MereLists DEF WriteReturn
  <2> QED BY <1>0, <2>1, <2>2, <2>3, <2>4, MereCall
<1>5. CASE EndSetEnding
  <2>1. Top("end")
    BY <1>5 DEF EndSetEnding
  <2>2. SameVerdicts /\ SameDebts
    BY <1>0, <1>5 DEF EndSetEnding, history, SameVerdicts, SameDebts, Verdicts, Fields
  <2>3. \E tk \in Seq(MereFrames) : ticks' = ticks \o tk
    BY <1>0, <1>5, MereTicks DEF EndSetEnding
  <2>4. \E fs \in Seq(MereFrames) : Call(fs)
    <3>1. Head(stack).n \in Int /\ Head(stack).cb \in Seq(Kinds \cup {"end"}) /\ Head(stack).er \in BOOLEAN
      BY <1>0, <2>1, TopFrame DEF Top
    <3>2. "finishMaybe" \in MereNames /\ "endCallback" \in MereNames
      BY DEF MereNames, Functions, Ones, Counts, Marked, Ending, Closing
    <3>3. st.finished \/ st.destroyed \in BOOLEAN
      BY <1>0 DEF CoreTypes
    <3> DEFINE n == Head(stack).n
               g == [Fn("endCallback", n) EXCEPT !.er = st.finished \/ st.destroyed]
    <3>4. Fn("finishMaybe", 1) \in MereFrames /\ Fn("endCallback", n) \in MereFrames
      BY MereMade, <1>1, <3>1, <3>2
    <3>5. g \in MereFrames
      <4>1. Fn("endCallback", n) \in Frames /\ Fn("endCallback", n).f = "endCallback"
        BY <3>4, FrameParts DEF MereFrames
      <4>2. g \in Frames /\ g.f = "endCallback"
        BY <4>1, <3>3 DEF Frames
      <4> QED BY <3>2, <4>2 DEF MereFrames
    <3>6. \/ Call(<<Fn("finishMaybe", 1), Fn("endCallback", n)>>) \/ Call(<<g>>)
      BY <1>5 DEF EndSetEnding
    <3> HIDE DEF g
    <3> QED BY <3>4, <3>5, <3>6, MereLists
  <2> QED BY <1>0, <2>1, <2>2, <2>3, <2>4, MereCall
<1>6. CASE EndCallback
  <2>1. Top("endCallback")
    BY <1>6 DEF EndCallback
  <2>2. SameVerdicts /\ SameDebts
    BY <1>0, <1>6 DEF EndCallback, history, SameVerdicts, SameDebts, Verdicts, Fields
  <2>3. \E tk \in Seq(MereFrames) : ticks' = ticks \o tk
    <3>1. Fc(<<"end">>, Head(stack).er \/ st.errored) \in MereFrames
      <4>1. Head(stack).er \in BOOLEAN /\ st.errored \in BOOLEAN
        BY <1>0, <2>1, TopFrame DEF Top, CoreTypes
      <4>2. (Head(stack).er \/ st.errored) \in BOOLEAN /\ <<"end">> \in Seq(Kinds \cup {"end"})
        BY <4>1
      <4>3. "user" \in MereNames
        BY DEF MereNames, Functions, Ones, Counts, Marked, Ending, Closing
      <4> QED BY MereMade, <4>2, <4>3
    <3>2. ticks' = ticks \/ Tick(Fc(<<"end">>, Head(stack).er \/ st.errored))
      BY <1>6 DEF EndCallback
    <3> QED BY <1>0, <3>1, <3>2, MereTicks
  <2>4. \E fs \in Seq(MereFrames) : Call(fs)
    BY <1>6, MereLists DEF EndCallback
  <2> QED BY <1>0, <2>1, <2>2, <2>3, <2>4, MereCall
<1>7. CASE ImplWrite
  <2>1. Top("_write")
    BY <1>7 DEF ImplWrite
  <2>2. SameVerdicts /\ SameDebts
    <3>1. st' = st /\ buffer' = buffer /\ events' = events
      BY <1>7 DEF ImplWrite, history
    <3>2. io' = io \/ io' = io \cup {"write"}
      BY <1>7, Zenon DEF ImplWrite
    <3>3. \A x \in {"final", "destroy"} : x \in io' => x \in io
      BY <3>2
    <3> QED BY <1>0, <3>1, <3>3 DEF SameVerdicts, SameDebts
  <2>3. \E tk \in Seq(MereFrames) : ticks' = ticks \o tk
    BY <1>0, <1>7, MereTicks DEF ImplWrite
  <2>4. \E fs \in Seq(MereFrames) : Call(fs)
    <3>1. "onwrite" \in MereNames
      BY DEF MereNames, Functions, Ones, Counts, Marked, Ending, Closing
    <3>2. \A er \in BOOLEAN : <<Fe("onwrite", er)>> \in Seq(MereFrames)
      BY MereMade, <3>1, MereLists
    <3> QED BY <1>7, <3>2, MereLists DEF ImplWrite
  <2> QED BY <1>0, <2>1, <2>2, <2>3, <2>4, MereCall
<1>8. CASE Unsync
  <2>1. Top("unsync")
    BY <1>8 DEF Unsync
  <2>2. SameVerdicts /\ SameDebts
    BY <1>0, <1>8 DEF Unsync, history, SameVerdicts, SameDebts, Verdicts, Fields
  <2>3. \E tk \in Seq(MereFrames) : ticks' = ticks \o tk
    BY <1>0, <1>8, MereTicks DEF Unsync
  <2>4. \E fs \in Seq(MereFrames) : Call(fs)
    BY <1>8, MereLists DEF Unsync
  <2> QED BY <1>0, <2>1, <2>2, <2>3, <2>4, MereCall
<1>9. CASE RunCallbacks
  <2>1. Top("callbacks")
    BY <1>9 DEF RunCallbacks
  <2>2. SameVerdicts /\ SameDebts
    BY <1>0, <1>9 DEF RunCallbacks, history, SameVerdicts, SameDebts, Verdicts, Fields
  <2>3. \E tk \in Seq(MereFrames) : ticks' = ticks \o tk
    BY <1>0, <1>9, MereTicks DEF RunCallbacks
  <2>4. \E fs \in Seq(MereFrames) : Call(fs)
    <3>1. Head(stack).n \in Int /\ Head(stack).cb \in Seq(Kinds \cup {"end"}) /\ Head(stack).er \in BOOLEAN
      BY <1>0, <2>1, TopFrame DEF Top
    <3> DEFINE fr == Head(stack)
               g == [fr EXCEPT !.cb = Tail(fr.cb)]
    <3>2. fr.cb # <<>> => g \in MereFrames
      <4>1. fr \in Frames /\ fr.f = "callbacks" /\ (fr.cb # <<>> => Tail(fr.cb) \in Seq(Kinds \cup {"end"}))
        BY <1>0, <2>1, <3>1, CallRuns
      <4>2. "callbacks" \in MereNames
        BY DEF MereNames, Functions, Ones, Counts, Marked, Ending, Closing
      <4>3. fr.cb # <<>> => g \in Frames /\ g.f = "callbacks"
        BY <4>1 DEF Frames
      <4> QED BY <4>2, <4>3 DEF MereFrames
    <3>3. User("cb") \in Seq(MereFrames)
      <4>1. F("user") \in MereFrames
        BY <1>2 DEF MereNames, Functions, Ones, Counts, Marked, Ending, Closing
      <4> QED BY <4>1, MereLists DEF User
    <3>4. \/ Call(<<>>)
          \/ fr.cb # <<>> /\ (Call(<<g>>) \/ Call(User("cb") \o <<g>>))
      <4> USE DEF RunCallbacks
      <4>1. CASE fr.cb = <<>>
        BY <1>9, <4>1, Zenon
      <4>2. CASE fr.cb # <<>> /\ Head(fr.cb) = "nop"
        BY <1>9, <4>2, Zenon
      <4>3. CASE fr.cb # <<>> /\ Head(fr.cb) # "nop"
        BY <1>9, <4>3, Zenon
      <4> QED BY <4>1, <4>2, <4>3
    <3> HIDE DEF g
    <3>5. fr.cb # <<>> => <<g>> \in Seq(MereFrames) /\ User("cb") \o <<g>> \in Seq(MereFrames)
      BY <3>2, <3>3, MereLists
    <3> QED BY <3>4, <3>5, MereLists
  <2> QED BY <1>0, <2>1, <2>2, <2>3, <2>4, MereCall
<1>10. CASE ErrorBuffer
  <2>1. Top("errorBuffer")
    BY <1>10 DEF ErrorBuffer
  <2>2. SameVerdicts /\ SameDebts
    BY <1>0, <1>10 DEF ErrorBuffer, history, SameVerdicts, SameDebts, Verdicts, Fields
  <2>3. \E tk \in Seq(MereFrames) : ticks' = ticks \o tk
    BY <1>0, <1>10, MereTicks DEF ErrorBuffer
  <2>4. \E fs \in Seq(MereFrames) : Call(fs)
    <3>1. F("errorLoop") \in MereFrames
      BY <1>1, <1>2 DEF MereNames, Functions, Ones, Counts, Marked, Ending, Closing
    <3> QED BY <1>10, <3>1, MereLists DEF ErrorBuffer
  <2> QED BY <1>0, <2>1, <2>2, <2>3, <2>4, MereCall
<1>11. CASE ResetBuffer
  <2>1. Top("resetBuffer")
    BY <1>11 DEF ResetBuffer
  <2>2. SameVerdicts /\ SameDebts
    <3>1. Len(buffer') <= Len(buffer)
      <4>1. buffer' = <<>> /\ Len(<<>>) = 0
        BY <1>11 DEF ResetBuffer
      <4> QED BY <1>0, <4>1
    <3> QED BY <1>0, <3>1, <1>11 DEF ResetBuffer, ResetBits, history, SameVerdicts, SameDebts, Verdicts, Fields
  <2>3. \E tk \in Seq(MereFrames) : ticks' = ticks \o tk
    BY <1>0, <1>11, MereTicks DEF ResetBuffer
  <2>4. \E fs \in Seq(MereFrames) : Call(fs)
    BY <1>11, MereLists DEF ResetBuffer
  <2> QED BY <1>0, <2>1, <2>2, <2>3, <2>4, MereCall
<1>12. CASE ClearBufferEnd
  <2>1. Top("clearBufferEnd")
    BY <1>12 DEF ClearBufferEnd
  <2>2. SameVerdicts /\ SameDebts
    BY <1>0, <1>12 DEF ClearBufferEnd, history, SameVerdicts, SameDebts, Verdicts, Fields, ResetBits
  <2>3. \E tk \in Seq(MereFrames) : ticks' = ticks \o tk
    BY <1>0, <1>12, MereTicks DEF ClearBufferEnd
  <2>4. \E fs \in Seq(MereFrames) : Call(fs)
    BY <1>12, MereLists DEF ClearBufferEnd
  <2> QED BY <1>0, <2>1, <2>2, <2>3, <2>4, MereCall
<1>13. CASE OnFinishError
  <2>1. Top("onFinishError")
    BY <1>13 DEF OnFinishError
  <2>2. SameVerdicts /\ SameDebts
    BY <1>0, <1>13 DEF OnFinishError, history, SameVerdicts, SameDebts, Verdicts, Fields
  <2>3. \E tk \in Seq(MereFrames) : ticks' = ticks \o tk
    BY <1>0, <1>13, MereTicks DEF OnFinishError
  <2>4. \E fs \in Seq(MereFrames) : Call(fs)
    <3>1. "errorOrDestroy" \in MereNames /\ (IF st.sync THEN 1 ELSE 0) \in Int
      BY DEF MereNames, Functions, Ones, Counts, Marked, Ending, Closing
    <3> DEFINE n == IF st.sync THEN 1 ELSE 0
    <3>2. Call(<<Fn("errorOrDestroy", n)>>)
      BY <1>13 DEF OnFinishError
    <3> HIDE DEF n
    <3>3. Fn("errorOrDestroy", n) \in MereFrames
      BY MereMade, <3>1 DEF n
    <3> QED BY <3>2, <3>3, MereLists
  <2> QED BY <1>0, <2>1, <2>2, <2>3, <2>4, MereCall
<1>14. CASE CallFinishedCallbacks
  <2>1. Top("callFinishedCallbacks")
    BY <1>14 DEF CallFinishedCallbacks
  <2>2. SameVerdicts /\ SameDebts
    BY <1>0, <1>14 DEF CallFinishedCallbacks, history, SameVerdicts, SameDebts, Verdicts, Fields
  <2>3. \E tk \in Seq(MereFrames) : ticks' = ticks \o tk
    BY <1>0, <1>14, MereTicks DEF CallFinishedCallbacks
  <2>4. \E fs \in Seq(MereFrames) : Call(fs)
    <3>1. Head(stack).n \in Int /\ Head(stack).cb \in Seq(Kinds \cup {"end"}) /\ Head(stack).er \in BOOLEAN
      BY <1>0, <2>1, TopFrame DEF Top
    <3>2. [i \in 1 .. st.onFinished |-> "end"] \in Seq(Kinds \cup {"end"})
      <4>1. st.onFinished \in Nat
        BY <1>0 DEF CoreTypes
      <4> QED BY <4>1
    <3> DEFINE cb == [i \in 1 .. st.onFinished |-> "end"]
    <3>3. Call(<<Fc(cb, Head(stack).er)>>)
      BY <1>14 DEF CallFinishedCallbacks
    <3>4. "user" \in MereNames
      BY DEF MereNames, Functions, Ones, Counts, Marked, Ending, Closing
    <3> HIDE DEF cb
    <3>5. Fc(cb, Head(stack).er) \in MereFrames
      BY MereMade, <3>1, <3>2 DEF cb
    <3> QED BY <3>3, <3>5, MereLists
  <2> QED BY <1>0, <2>1, <2>2, <2>3, <2>4, MereCall
<1>15. CASE ConstructNT
  <2>1. Top("constructNT")
    BY <1>15 DEF ConstructNT
  <2>2. SameVerdicts /\ SameDebts
    BY <1>0, <1>15 DEF ConstructNT, history, SameVerdicts, SameDebts, Verdicts, Fields
  <2>3. \E tk \in Seq(MereFrames) : ticks' = ticks \o tk
    BY <1>0, <1>15, MereTicks DEF ConstructNT
  <2>4. \E fs \in Seq(MereFrames) : Call(fs)
    BY <1>15, MereLists DEF ConstructNT
  <2> QED BY <1>0, <2>1, <2>2, <2>3, <2>4, MereCall
<1> QED BY <1>3, <1>4, <1>5, <1>6, <1>7, <1>8, <1>9, <1>10, <1>11, <1>12, <1>13, <1>14, <1>15

\* Code of the user calls the stream.
LEMMA MerePush ==
  ASSUME CoreTypes, InUser, SameVerdicts, SameDebts, NEW gs \in Seq(MereFrames), Push(gs),
         NEW tk \in Seq(MereFrames), ticks' = ticks \o tk
  PROVE  Mere
<1>1. gs \in Seq(Frames) /\ tk \in Seq(Frames)
  BY MereSeq
<1>2. PICK u \in PlainFrames :
        u.f = "user" /\ u \in Frames /\ Runs(gs \o <<u>>, tk) /\ OnTop \in {"none", "user"}
  BY <1>1, PushRuns
<1>3. u \in MereFrames
  BY <1>2 DEF MereFrames, MereNames, Functions, Ones, Counts, Marked, Ending, Closing
<1>4. gs \o <<u>> \in Seq(MereFrames)
  BY <1>3, MereLists
<1> QED BY <1>2, <1>4 DEF Mere

\* A task of its own starts.
LEMMA TaskRuns ==
  ASSUME CoreTypes, stack = <<>>, NEW fs \in Seq(Frames), stack' = fs,
         NEW tk \in Seq(Frames), ticks' = ticks \o tk
  PROVE  Runs(fs, tk) /\ OnTop = "none"
<1>1. fs \o <<>> = fs
  OBVIOUS
<1> QED BY <1>1 DEF Runs, Shifted, Under, OnTop

\* A call of the implementation that starts with a frame that owes nothing.
LEMMA MereTask ==
  ASSUME CoreTypes, stack = <<>>, SameVerdicts, SameDebts, NEW fs \in Seq(MereFrames), stack' = fs,
         NEW tk \in Seq(MereFrames), ticks' = ticks \o tk
  PROVE  Mere
<1>1. fs \in Seq(Frames) /\ tk \in Seq(Frames)
  BY MereSeq
<1>2. Runs(fs, tk) /\ OnTop = "none"
  BY <1>1, TaskRuns
<1> QED BY <1>2 DEF Mere

\* Calls of the user that queue nothing, callbacks of the implementation, and
\* errorBuffer() taking a chunk from the queue.
LEMMA MereCalls ==
  ASSUME SinkInv, NEW n \in Int, NEW k \in Kinds, NEW er \in BOOLEAN,
         \/ Cork \/ Uncork \/ End(n) \/ UserDestroy(er) \/ (Write(k) /\ writeRefused(k))
         \/ ImplWriteLater(er) \/ ImplConstruct(er) \/ ErrorLoop
  PROVE  Mere
<1>0. CoreTypes /\ DOMAIN st = Fields /\ Len(buffer) \in Nat /\ ticks \in Seq(Frames)
  <2>1. CoreTypes /\ DOMAIN st = Fields /\ buffer \in Seq(Nat)
    BY DEF SinkInv, CoreTypes
  <2> QED BY <2>1 DEF CoreTypes
<1>1. {"clearBuffer", "end", "destroy", "errorOrDestroy", "onwrite", "onConstruct", "errorLoop", "resetBuffer",
       "callFinishedCallbacks"} \subseteq MereNames
  BY DEF MereNames, Functions, Ones, Counts, Marked, Ending, Closing
<1>2. CASE Cork
  <2>1. SameVerdicts /\ SameDebts
    BY <1>0, <1>2 DEF Cork, SameVerdicts, SameDebts, Verdicts, Fields
  <2>2. InUser /\ Push(<<>>) /\ ticks' = ticks
    BY <1>2 DEF Cork, UserCalls
  <2> QED BY <1>0, <2>1, <2>2, MerePush, MereTicks, MereLists
<1>3. CASE Uncork
  <2>1. SameVerdicts /\ SameDebts
    BY <1>0, <1>3 DEF Uncork, history, SameVerdicts, SameDebts, Verdicts, Fields
  <2>2. InUser /\ ticks' = ticks /\ (Push(<<>>) \/ Push(<<F("clearBuffer")>>))
    BY <1>3 DEF Uncork
  <2>3. F("clearBuffer") \in MereFrames
    BY <1>1, MereMade
  <2> QED BY <1>0, <2>1, <2>2, <2>3, MerePush, MereTicks, MereLists
<1>4. CASE End(n)
  <2>1. SameVerdicts /\ SameDebts
    BY <1>0, <1>4 DEF End, SameVerdicts, SameDebts, Verdicts, Fields
  <2> DEFINE gs == (IF st.corked > 0 /\ ~st.writing THEN <<F("clearBuffer")>> ELSE <<>>) \o <<Fn("end", n)>>
  <2>2. InUser /\ ticks' = ticks /\ Push(gs)
    BY <1>4 DEF End, UserCalls
  <2>3. F("clearBuffer") \in MereFrames /\ Fn("end", n) \in MereFrames
    BY <1>1, MereMade
  <2>4. gs \in Seq(MereFrames)
    BY <2>3, MereLists
  <2> HIDE DEF gs
  <2> QED BY <1>0, <2>1, <2>2, <2>4, MerePush, MereTicks
<1>5. CASE UserDestroy(er)
  <2>1. SameVerdicts /\ SameDebts
    BY <1>0, <1>5 DEF UserDestroy, SameVerdicts, SameDebts, Verdicts, Fields
  <2>2. InUser /\ ticks' = ticks /\ Push(<<Fe("destroy", er)>>)
    BY <1>5 DEF UserDestroy, UserCalls
  <2>3. <<Fe("destroy", er)>> \in Seq(MereFrames)
    BY <1>1, MereMade, MereLists
  <2> QED BY <1>0, <2>1, <2>2, <2>3, MerePush, MereTicks
<1>6. CASE Write(k) /\ writeRefused(k)
  <2>1. SameVerdicts /\ SameDebts
    BY <1>0, <1>6 DEF Write, writeRefused, SameVerdicts, SameDebts, Verdicts, Fields
  <2>2. InUser /\ Tick(Fc(Single(k), TRUE)) /\ Push(<<Fn("errorOrDestroy", 1)>>)
    BY <1>6 DEF Write, writeRefused, UserCalls
  <2>3. <<Fn("errorOrDestroy", 1)>> \in Seq(MereFrames)
    BY <1>1, MereMade, MereLists
  <2>4. Fc(Single(k), TRUE) \in MereFrames
    <3>1. Single(k) \in Seq(Kinds \cup {"end"})
      <4>1. <<>> \in Seq(Kinds \cup {"end"}) /\ <<k>> \in Seq(Kinds \cup {"end"})
        OBVIOUS
      <4> QED BY <4>1 DEF Single
    <3> QED BY <3>1, MereMade
  <2> QED BY <1>0, <2>1, <2>2, <2>3, <2>4, MerePush, MereTicks
<1>7. CASE ImplWriteLater(er)
  <2>1. SameVerdicts /\ SameDebts
    BY <1>0, <1>7 DEF ImplWriteLater, history, SameVerdicts, SameDebts, Verdicts, Fields
  <2>2. stack = <<>> /\ stack' = <<Fe("onwrite", er)>> /\ ticks' = ticks
    BY <1>7 DEF ImplWriteLater
  <2>3. <<Fe("onwrite", er)>> \in Seq(MereFrames)
    BY <1>1, MereMade, MereLists
  <2> QED BY <1>0, <2>1, <2>2, <2>3, MereTask, MereTicks
<1>8. CASE ImplConstruct(er)
  <2>1. SameVerdicts /\ SameDebts
    BY <1>0, <1>8 DEF ImplConstruct, history, SameVerdicts, SameDebts, Verdicts, Fields
  <2>2. stack = <<>> /\ stack' = <<>> /\ Tick(Fe("onConstruct", er))
    BY <1>8 DEF ImplConstruct
  <2>3. Fe("onConstruct", er) \in MereFrames
    BY <1>1, MereMade
  <2> QED BY <1>0, <2>1, <2>2, <2>3, MereTask, MereTicks, MereLists
<1>9. CASE ErrorLoop
  <2>0. Top("errorLoop") /\ ticks' = ticks
    BY <1>9 DEF ErrorLoop
  <2>1. SameVerdicts /\ st'.expectWriteCb = st.expectWriteCb /\ st'.pendingcb = st.pendingcb
    BY <1>0, <1>9 DEF ErrorLoop, history, SameVerdicts, Verdicts, Fields
  <2>2. Len(buffer') <= Len(buffer)
    <3>1. CASE buffer = <<>>
      <4>1. DOMAIN buffer = {}
        BY <3>1
      <4>2. buffer' = buffer
        BY <1>9, <4>1 DEF ErrorLoop
      <4> QED BY <1>0, <4>2
    <3>2. CASE buffer # <<>>
      <4>1. buffer' = Tail(buffer) /\ buffer \in Seq(Nat)
        BY <1>0, <1>9, <3>2, ErrorLoopDrops DEF SinkInv, CoreTypes
      <4> QED BY <3>2, <4>1
    <3> QED BY <3>1, <3>2
  <2>3. \E fs \in Seq(MereFrames) : Call(fs)
    <3>1. CASE buffer = <<>>
      <4>1. DOMAIN buffer = {}
        BY <3>1
      <4>2. Call(<<Fe("callFinishedCallbacks", TRUE), F("resetBuffer")>>)
        BY <1>9, <4>1 DEF ErrorLoop
      <4>3. Fe("callFinishedCallbacks", TRUE) \in MereFrames /\ F("resetBuffer") \in MereFrames
        BY <1>1, MereMade
      <4> QED BY <4>2, <4>3, MereLists
    <3>2. CASE buffer # <<>>
      <4>1. Call(<<Fc(Single(given[buffer[1]]), TRUE), Fn("errorLoop", buffer[1])>>)
        BY <1>9, <3>2, ErrorLoopDrops
      <4>2. 1 \in DOMAIN buffer /\ buffer[1] \in Nat /\ buffer[1] \in 1 .. Len(given) /\ given \in Seq(Kinds)
        <5>1. buffer \in Seq(Nat) /\ 1 \in DOMAIN buffer /\ BufferOrdered /\ given \in Seq(Kinds)
          BY <3>2 DEF SinkInv, CoreTypes
        <5>2. buffer[1] \in Nat /\ Len(given) \in Nat
          BY <5>1
        <5> QED BY <5>1, <5>2 DEF BufferOrdered
      <4>3. Single(given[buffer[1]]) \in Seq(Kinds \cup {"end"}) /\ buffer[1] \in Int
        BY <1>0, <4>2, SingleType
      <4>4. Fc(Single(given[buffer[1]]), TRUE) \in MereFrames /\ Fn("errorLoop", buffer[1]) \in MereFrames
        BY <1>1, <4>3, MereMade
      <4> QED BY <4>1, <4>4, MereLists
    <3> QED BY <3>1, <3>2
  <2> QED BY <1>0, <2>0, <2>1, <2>2, <2>3, MereCall, MereTicks DEF SameDebts
<1> QED BY <1>2, <1>3, <1>4, <1>5, <1>6, <1>7, <1>8, <1>9

\* The functions that owe nothing.
Idle == Functions \ (Ones \cup Counts)

\* What the frames owe that the actions make.
LEMMA FrameOwes ==
  /\ \A f \in Idle : F(f) \in Frames /\ Pays[F(f)] = 0
  /\ \A f \in Idle, er \in BOOLEAN : Fe(f, er) \in Frames /\ Pays[Fe(f, er)] = 0
  /\ \A f \in Idle, n \in Int : Fn(f, n) \in Frames /\ Pays[Fn(f, n)] = 0
  /\ \A f \in Ones : F(f) \in Frames /\ Pays[F(f)] = 1
  /\ \A f \in Ones, er \in BOOLEAN : Fe(f, er) \in Frames /\ Pays[Fe(f, er)] = 1
  /\ \A f \in Ones, n \in Int, cb \in Seq(Kinds \cup {"end"}) :
       Fnc(f, n, cb) \in Frames /\ Pays[Fnc(f, n, cb)] = 1
  /\ \A f \in Counts, n \in Int, cb \in Seq(Kinds \cup {"end"}) :
       Fnc(f, n, cb) \in Frames /\ Pays[Fnc(f, n, cb)] = IF n > 0 THEN n ELSE 0
  /\ \A cb \in Seq(Kinds \cup {"end"}), er \in BOOLEAN : Fc(cb, er) \in Frames /\ Pays[Fc(cb, er)] = 0
<1>1. "user" \in Functions /\ 0 \in Int /\ <<>> \in Seq(Kinds \cup {"end"}) /\ TRUE \in BOOLEAN
  BY DEF Functions
<1>2. /\ \A f \in Idle : f \in Functions /\ f \notin Ones /\ f \notin Counts
      /\ \A f \in Ones : f \in Functions
      /\ \A f \in Counts : f \in Functions /\ f \notin Ones
  BY DEF Idle, Ones, Counts, Functions
<1>3. ASSUME NEW f \in Functions, NEW n \in Int, NEW cb \in Seq(Kinds \cup {"end"}), NEW er \in BOOLEAN
      PROVE  /\ F(f) \in Frames /\ Fe(f, er) \in Frames /\ Fn(f, n) \in Frames
             /\ Fnc(f, n, cb) \in Frames /\ Fc(cb, er) \in Frames
             /\ Pays[F(f)] = Bit(f \in Ones) /\ Pays[Fe(f, er)] = Bit(f \in Ones)
             /\ Pays[Fn(f, n)] = IF f \in Ones THEN 1 ELSE IF f \in Counts /\ n > 0 THEN n ELSE 0
             /\ Pays[Fnc(f, n, cb)] = IF f \in Ones THEN 1 ELSE IF f \in Counts /\ n > 0 THEN n ELSE 0
             /\ Pays[Fc(cb, er)] = 0
  BY FrameTypes, PaysOf
<1>4. ASSUME NEW f \in Functions, NEW er \in BOOLEAN
      PROVE  /\ F(f) \in Frames /\ Fe(f, er) \in Frames
             /\ Pays[F(f)] = Bit(f \in Ones) /\ Pays[Fe(f, er)] = Bit(f \in Ones)
  BY <1>1, <1>3
<1>5. ASSUME NEW f \in Functions, NEW n \in Int
      PROVE  /\ Fn(f, n) \in Frames
             /\ Pays[Fn(f, n)] = IF f \in Ones THEN 1 ELSE IF f \in Counts /\ n > 0 THEN n ELSE 0
  BY <1>1, <1>3
<1>6. ASSUME NEW f \in Functions, NEW n \in Int, NEW cb \in Seq(Kinds \cup {"end"})
      PROVE  /\ Fnc(f, n, cb) \in Frames
             /\ Pays[Fnc(f, n, cb)] = IF f \in Ones THEN 1 ELSE IF f \in Counts /\ n > 0 THEN n ELSE 0
  BY <1>1, <1>3
<1>7. ASSUME NEW cb \in Seq(Kinds \cup {"end"}), NEW er \in BOOLEAN
      PROVE  Fc(cb, er) \in Frames /\ Pays[Fc(cb, er)] = 0
  BY <1>1, <1>3
<1>8. \A f \in Functions : F(f) \in Frames /\ Pays[F(f)] = Bit(f \in Ones)
  BY <1>1, <1>4
<1> QED BY <1>2, <1>4, <1>5, <1>6, <1>7, <1>8 DEF Bit

\* The code of the user owes nothing.
LEMMA UserOwes ==
  ASSUME NEW site, NEW s \in Seq(Frames)
  PROVE  /\ User(site) \in Seq(Frames) /\ Total(Pays, User(site)) = 0
         /\ User(site) \o s \in Seq(Frames) /\ Total(Pays, User(site) \o s) = Total(Pays, s)
<1>1. F("user") \in Frames /\ Pays[F("user")] = 0
  BY FrameOwes DEF Idle, Functions, Ones, Counts
<1>2. User(site) \in Seq(Frames) /\ Total(Pays, User(site)) = 0
  BY <1>1, FrameLists, TotalShort, WeightTypes DEF User
<1>3. User(site) \o s \in Seq(Frames)
  BY <1>2
<1>4. Total(Pays, s) \in Nat
  BY TotalNat, WeightTypes
<1> QED BY <1>2, <1>3, <1>4, TotalCat, WeightTypes

\* What the frames and the ticks owe that a step leaves.
Leaves(a) == \E fs \in Seq(Frames) : Call(fs) /\ Total(Pays, fs) = a
Queues(b) == \E tk \in Seq(Frames) : ticks' = ticks \o tk /\ Total(Pays, tk) = b

\* What the lists that a function leaves owe.
LEMMA LeavesLists ==
  /\ Call(<<>>) => Leaves(0)
  /\ \A x \in Frames : Call(<<x>>) => Leaves(Pays[x])
  /\ \A x, y \in Frames : Call(<<x, y>>) => Leaves(Pays[x] + Pays[y])
  /\ \A x, y, z \in Frames : Call(<<x, y, z>>) => Leaves(Pays[x] + Pays[y] + Pays[z])
  /\ \A site : Call(User(site)) => Leaves(0)
  /\ \A site, x : x \in Frames /\ Call(User(site) \o <<x>>) => Leaves(Pays[x])
<1>1. /\ Total(Pays, <<>>) = 0
      /\ \A x \in Frames : Total(Pays, <<x>>) = Pays[x]
      /\ \A x, y \in Frames : Total(Pays, <<x, y>>) = Pays[x] + Pays[y]
      /\ \A x, y, z \in Frames : Total(Pays, <<x, y, z>>) = Pays[x] + Pays[y] + Pays[z]
  BY TotalShort, WeightTypes
<1>2. Call(<<>>) => Leaves(0)
  BY <1>1, FrameLists DEF Leaves
<1>3. ASSUME NEW x \in Frames, Call(<<x>>) PROVE Leaves(Pays[x])
  BY <1>1, <1>3, FrameLists DEF Leaves
<1>4. ASSUME NEW x \in Frames, NEW y \in Frames, Call(<<x, y>>) PROVE Leaves(Pays[x] + Pays[y])
  <2>1. <<x, y>> \in Seq(Frames) /\ Total(Pays, <<x, y>>) = Pays[x] + Pays[y]
    BY <1>1, FrameLists
  <2> QED BY <1>4, <2>1 DEF Leaves
<1>5. ASSUME NEW x \in Frames, NEW y \in Frames, NEW z \in Frames, Call(<<x, y, z>>)
      PROVE  Leaves(Pays[x] + Pays[y] + Pays[z])
  <2>1. <<x, y, z>> \in Seq(Frames) /\ Total(Pays, <<x, y, z>>) = Pays[x] + Pays[y] + Pays[z]
    BY <1>1, FrameLists
  <2> QED BY <1>5, <2>1 DEF Leaves
<1>6. ASSUME NEW site, Call(User(site)) PROVE Leaves(0)
  <2>1. User(site) \in Seq(Frames) /\ Total(Pays, User(site)) = 0
    BY UserOwes, FrameLists
  <2> QED BY <1>6, <2>1 DEF Leaves
<1>7. ASSUME NEW site, NEW x \in Frames, Call(User(site) \o <<x>>) PROVE Leaves(Pays[x])
  <2>1. <<x>> \in Seq(Frames) /\ Total(Pays, <<x>>) = Pays[x]
    BY <1>1, FrameLists
  <2>2. User(site) \o <<x>> \in Seq(Frames) /\ Total(Pays, User(site) \o <<x>>) = Pays[x]
    BY <2>1, UserOwes
  <2> QED BY <1>7, <2>2 DEF Leaves
<1> QED BY <1>2, <1>3, <1>4, <1>5, <1>6, <1>7

\* What the ticks that a function queues owe.
LEMMA QueuesLists ==
  ASSUME CoreTypes
  PROVE  (ticks' = ticks => Queues(0)) /\ \A x \in Frames : Tick(x) => Queues(Pays[x])
<1>1. Total(Pays, <<>>) = 0 /\ \A x \in Frames : Total(Pays, <<x>>) = Pays[x]
  BY TotalShort, WeightTypes
<1>2. ticks' = ticks => Queues(0)
  BY <1>1, TicksRun DEF Queues
<1>3. ASSUME NEW x \in Frames, Tick(x) PROVE Queues(Pays[x])
  <2>1. <<x>> \in Seq(Frames) /\ Total(Pays, <<x>>) = Pays[x] /\ ticks' = ticks \o <<x>>
    BY <1>1, <1>3, TicksRun
  <2> QED BY <2>1 DEF Queues
<1> QED BY <1>2, <1>3

\* A function runs: what it leaves owes no more than it owed, apart from what
\* it changes in the state.
LEMMA CallPends ==
  ASSUME CoreTypes, CoreTypes', PendingCounted, NEW f, Top(f), NEW a, Leaves(a), NEW b, Queues(b),
         st'.pendingcb \in Int,
         Len(buffer') + Bit(st'.expectWriteCb) + Bit("final" \in io') + a + b + st.pendingcb
           <= Len(buffer) + Bit(st.expectWriteCb) + Bit("final" \in io) + Pays[Head(stack)] + st'.pendingcb
  PROVE  PendingCounted'
<1>1. PICK fs \in Seq(Frames) : Call(fs) /\ Total(Pays, fs) = a
  BY DEF Leaves
<1>2. PICK tk \in Seq(Frames) : ticks' = ticks \o tk /\ Total(Pays, tk) = b
  BY DEF Queues
<1>3. Runs(fs, tk) /\ TopWeight(Pays) = Pays[Head(stack)]
  BY <1>1, <1>2, CallRuns DEF Runs, TopWeight
<1> QED BY <1>1, <1>2, <1>3, PendingStep

\* The same when the queue, the write in progress and _final are left alone.
LEMMA CallPays ==
  ASSUME CoreTypes, CoreTypes', PendingCounted, NEW f, Top(f), NEW a, Leaves(a), NEW b, Queues(b),
         st'.pendingcb \in Int, buffer' = buffer, st'.expectWriteCb = st.expectWriteCb,
         "final" \in io' => "final" \in io,
         a + b + st.pendingcb <= Pays[Head(stack)] + st'.pendingcb
  PROVE  PendingCounted'
<1>1. PICK fs \in Seq(Frames) : Call(fs) /\ Total(Pays, fs) = a
  BY DEF Leaves
<1>2. PICK tk \in Seq(Frames) : ticks' = ticks \o tk /\ Total(Pays, tk) = b
  BY DEF Queues
<1>3. Runs(fs, tk) /\ TopWeight(Pays) = Pays[Head(stack)]
  BY <1>1, <1>2, CallRuns DEF Runs, TopWeight
<1>4. TopWeight(Pays) \in Nat /\ a \in Nat /\ b \in Nat
  BY <1>1, <1>2, <1>3, HeldRuns, WeightTypes
<1>5. Len(buffer) \in Nat /\ st.pendingcb \in Int
  <2>1. buffer \in Seq(Nat)
    BY DEF CoreTypes
  <2> QED BY <2>1 DEF PendingCounted
<1>6. Bit("final" \in io') <= Bit("final" \in io) /\ \A x : Bit(x) \in Nat
  BY DEF Bit
<1> DEFINE c == TopWeight(Pays)
           l == Len(buffer)
           e == Bit(st.expectWriteCb)
           x == Bit("final" \in io')
           y == Bit("final" \in io)
           p == st.pendingcb
           q == st'.pendingcb
<1>7. /\ a \in Nat /\ b \in Nat /\ c \in Nat /\ l \in Nat /\ e \in Nat /\ x \in Nat /\ y \in Nat
      /\ p \in Int /\ q \in Int /\ x <= y /\ a + b + p <= c + q
  BY <1>3, <1>4, <1>5, <1>6
<1>8. Len(buffer') = l /\ Bit(st'.expectWriteCb) = e /\ Pays[Head(stack)] = c
  BY <1>3
<1> HIDE DEF c, l, e, x, y, p, q
<1>9. l + e + x + a + b + p <= l + e + y + c + q
  BY <1>7
<1> QED BY <1>8, <1>9, CallPends DEF l, e, x, y, p, q

\* What the frame on top owes, and the state that all these proofs look at.
LEMMA TopOwes ==
  ASSUME CoreTypes, PendingCounted, NEW f, Top(f)
  PROVE  /\ Pays[Head(stack)] = IF f \in Ones THEN 1
                                ELSE IF f \in Counts /\ Head(stack).n > 0 THEN Head(stack).n ELSE 0
         /\ Head(stack).n \in Int /\ Head(stack).cb \in Seq(Kinds \cup {"end"})
         /\ Head(stack).er \in BOOLEAN /\ Head(stack) \in Frames /\ Head(stack).f = f
         /\ DOMAIN st = Fields /\ st.pendingcb \in Int
<1>1. Head(stack) \in Frames /\ Head(stack).f = f /\ stack # <<>>
  BY CallRuns
<1>2. DOMAIN st = Fields /\ st.pendingcb \in Int
  BY DEF CoreTypes, PendingCounted
<1> QED BY <1>1, <1>2, TopFrame DEF Pays

\* One write more for the tick with the callbacks of those that are done.
LEMMA InfoCounts ==
  ASSUME CoreTypes, ticks' = [ticks EXCEPT ![InfoTick].n = @ + 1]
  PROVE  /\ ticks' \in Seq(Frames) /\ Total(Pays, ticks') <= Total(Pays, ticks) + 1
         /\ Len(ticks') = Len(ticks) /\ \A i \in DOMAIN ticks : ticks'[i].f = ticks[i].f
<1> DEFINE i == InfoTick
           g == [ticks[i] EXCEPT !.n = ticks[i].n + 1]
<1>1. ticks \in Seq(Frames) /\ Len(ticks) \in Nat /\ Total(Pays, ticks) \in Nat
  <2>1. ticks \in Seq(Frames)
    BY DEF CoreTypes
  <2> QED BY <2>1, TotalNat, WeightTypes
<1>2. ticks' = [ticks EXCEPT ![i] = g]
  OBVIOUS
<1> HIDE DEF i
<1>3. CASE i \notin DOMAIN ticks
  <2>1. ticks' = ticks
    BY <1>1, <1>2, <1>3
  <2>2. Total(Pays, ticks') <= Total(Pays, ticks) + 1
    BY <1>1, <2>1
  <2>3. ticks' \in Seq(Frames) /\ Len(ticks') = Len(ticks) /\ \A j \in DOMAIN ticks : ticks'[j].f = ticks[j].f
    BY ONLY <1>1, <2>1
  <2> QED BY ONLY <2>2, <2>3
<1>4. CASE i \in DOMAIN ticks
  <2>1. i \in 1 .. Len(ticks) /\ ticks[i] \in Frames
    BY <1>1, <1>4
  <2>2. g \in Frames /\ g.f = ticks[i].f /\ g.n = ticks[i].n + 1 /\ ticks[i].n \in Int
    <3> DEFINE h == ticks[i]
    <3> SUFFICES ASSUME NEW r \in Frames
                 PROVE  LET x == [r EXCEPT !.n = r.n + 1] IN
                        x \in Frames /\ x.f = r.f /\ x.n = r.n + 1 /\ r.n \in Int
      BY <2>1, Zenon
    <3> QED BY DEF Frames
  <2> HIDE DEF g
  <2>3. /\ ticks' \in Seq(Frames) /\ Len(ticks') = Len(ticks) /\ ticks'[i] = g
        /\ \A j \in 1 .. Len(ticks) : j # i => ticks'[j] = ticks[j]
    BY <1>1, <1>2, <2>1, <2>2
  <2>4. Total(Pays, ticks') = Total(Pays, ticks) - Pays[ticks[i]] + Pays[ticks'[i]]
    BY <1>1, <2>1, <2>3, TotalPart, WeightTypes
  <2>5. Pays[g] <= Pays[ticks[i]] + 1 /\ Pays[g] \in Int /\ Pays[ticks[i]] \in Int
    BY <2>1, <2>2 DEF Pays
  <2>6. \A j \in DOMAIN ticks : ticks'[j].f = ticks[j].f
    BY <1>1, <2>2, <2>3
  <2>7. Total(Pays, ticks') <= Total(Pays, ticks) + 1
    <3>1. Total(Pays, ticks') = Total(Pays, ticks) - Pays[ticks[i]] + Pays[g]
      BY <2>3, <2>4
    <3> QED BY ONLY <1>1, <2>5, <3>1
  <2> QED BY ONLY <2>3, <2>6, <2>7
<1> QED BY <1>3, <1>4

\* The write is over: its callbacks are what is owed for it now.
LEMMA PendOnwrite ==
  ASSUME SinkInv, CoreTypes', PendingCounted, Onwrite PROVE PendingCounted'
<1>0. Top("onwrite") /\ CoreTypes
  BY DEF Onwrite, SinkInv
<1>1. Pays[Head(stack)] = 0 /\ Head(stack).er \in BOOLEAN /\ DOMAIN st = Fields /\ st.pendingcb \in Int
  BY <1>0, TopOwes DEF Ones, Counts
<1>2. st.writecb \in Seq(Kinds \cup {"end"}) /\ Len(buffer) \in Nat /\ 0 \in Int /\ 1 \in Int
  <2>1. st.writecb \in Seq(Kinds) /\ buffer \in Seq(Nat)
    BY <1>0 DEF CoreTypes
  <2> QED BY <2>1
<1>3. buffer' = buffer /\ io' = io
  BY DEF Onwrite, history
<1>4. Bit("final" \in io) \in Nat
  BY DEF Bit
<1>5. CASE ~st.expectWriteCb
  <2>1. Call(<<Fn("errorOrDestroy", 0)>>) /\ st' = st /\ ticks' = ticks
    BY <1>5 DEF Onwrite
  <2>2. Fn("errorOrDestroy", 0) \in Frames /\ Pays[Fn("errorOrDestroy", 0)] = 0
    BY FrameOwes DEF Idle, Functions, Ones, Counts
  <2>3. Leaves(0) /\ Queues(0)
    BY <1>0, <2>1, <2>2, LeavesLists, QueuesLists
  <2>4. 0 + 0 + st.pendingcb <= Pays[Head(stack)] + st'.pendingcb
    BY <1>1, <2>1
  <2> QED BY <1>0, <1>1, <1>3, <2>1, <2>3, <2>4, CallPays
<1> DEFINE h == Head(stack)
           k == Fnc("onwriteError", 0, st.writecb)
<1>6. CASE st.expectWriteCb /\ h.er
  <2>1. k \in Frames /\ Pays[k] = 1
    BY <1>2, FrameOwes DEF Ones
  <2>2. st'.pendingcb = st.pendingcb /\ st'.expectWriteCb = FALSE
    BY <1>1, <1>6 DEF Onwrite, Fields
  <2>3. Bit(st.expectWriteCb) = 1 /\ Bit(st'.expectWriteCb) = 0
    BY <1>6, <2>2 DEF Bit
  <2>4. \/ Tick(k) /\ Call(<<>>)
        \/ Call(<<k>>) /\ ticks' = ticks
    BY <1>6 DEF Onwrite
  <2> HIDE DEF k
  <2>5. PICK a \in {0, 1}, b \in {0, 1} : Leaves(a) /\ Queues(b) /\ a + b = 1
    <3>1. CASE Tick(k) /\ Call(<<>>)
      <4>1. Leaves(0) /\ Queues(1)
        BY <1>0, <2>1, <3>1, LeavesLists, QueuesLists
      <4> QED BY <4>1
    <3>2. CASE Call(<<k>>) /\ ticks' = ticks
      <4>1. Leaves(1) /\ Queues(0)
        BY <1>0, <2>1, <3>2, LeavesLists, QueuesLists
      <4> QED BY <4>1
    <3> QED BY <2>4, <3>1, <3>2
  <2>6. Len(buffer') + Bit(st'.expectWriteCb) + Bit("final" \in io') + a + b + st.pendingcb
           <= Len(buffer) + Bit(st.expectWriteCb) + Bit("final" \in io) + Pays[Head(stack)] + st'.pendingcb
    BY <1>1, <1>2, <1>3, <1>4, <2>2, <2>3, <2>5
  <2> QED BY <1>0, <1>1, <2>2, <2>5, <2>6, CallPends
<1>7. CASE st.expectWriteCb /\ ~h.er
  <2> DEFINE x == IF st.sync THEN Fnc("onwriteSync", 0, st.writecb) ELSE Fnc("afterWrite", 1, st.writecb)
  <2>1. x \in Frames /\ Pays[x] = 1 /\ F("clearBuffer") \in Frames /\ Pays[F("clearBuffer")] = 0
    BY <1>2, FrameOwes DEF Idle, Functions, Ones, Counts
  <2>2. st'.pendingcb = st.pendingcb /\ st'.expectWriteCb = FALSE
    BY <1>1, <1>7 DEF Onwrite, Fields
  <2>3. Bit(st.expectWriteCb) = 1 /\ Bit(st'.expectWriteCb) = 0
    BY <1>7, <2>2 DEF Bit
  <2>4. Call(<<F("clearBuffer"), x>>) /\ ticks' = ticks
    BY <1>7 DEF Onwrite
  <2> HIDE DEF x
  <2>5. Leaves(1) /\ Queues(0)
    <3>1. Leaves(Pays[F("clearBuffer")] + Pays[x]) /\ Queues(0)
      BY <1>0, <2>1, <2>4, LeavesLists, QueuesLists
    <3> QED BY <2>1, <3>1
  <2>6. Len(buffer') + Bit(st'.expectWriteCb) + Bit("final" \in io') + 1 + 0 + st.pendingcb
           <= Len(buffer) + Bit(st.expectWriteCb) + Bit("final" \in io) + Pays[Head(stack)] + st'.pendingcb
    BY <1>1, <1>2, <1>3, <1>4, <2>2, <2>3
  <2> QED BY <1>0, <1>1, <2>2, <2>5, <2>6, CallPends
<1> QED BY <1>1, <1>5, <1>6, <1>7

\* onwriteSync settles its debt, or hands it to a tick.
LEMMA PendOnwriteSync ==
  ASSUME SinkInv, CoreTypes', PendingCounted, OnwriteSync PROVE PendingCounted'
<1>0. Top("onwriteSync") /\ CoreTypes
  BY DEF OnwriteSync, SinkInv
<1>1. /\ Pays[Head(stack)] = 1 /\ Head(stack).cb \in Seq(Kinds \cup {"end"})
      /\ DOMAIN st = Fields /\ st.pendingcb \in Int /\ 1 \in Int
  BY <1>0, TopOwes DEF Ones
<1>2. buffer' = buffer /\ io' = io
  BY DEF OnwriteSync, history
<1> DEFINE cb == Head(stack).cb
           same == st.afterWriteTickInfo /\ Len(cb) = 1 /\ ticks[InfoTick].cb = cb
<1>3. CASE cb = <<>> /\ ~st.afterWritePending /\ NeedTick
  <2>1. Tick(Fnc("afterWrite", 1, cb)) /\ Call(<<>>)
    BY <1>3 DEF OnwriteSync
  <2>2. st'.pendingcb = st.pendingcb /\ st'.expectWriteCb = st.expectWriteCb
    BY <1>1, <1>3 DEF OnwriteSync, Fields
  <2>3. Fnc("afterWrite", 1, cb) \in Frames /\ Pays[Fnc("afterWrite", 1, cb)] = 1
    BY <1>1, FrameOwes DEF Counts
  <2>4. Leaves(0) /\ Queues(1)
    BY <1>0, <2>1, <2>3, LeavesLists, QueuesLists
  <2>5. 0 + 1 + st.pendingcb <= Pays[Head(stack)] + st'.pendingcb
    BY <1>1, <2>2
  <2> QED BY <1>0, <1>1, <1>2, <2>2, <2>4, <2>5, CallPays
<1>4. CASE cb = <<>> /\ (st.afterWritePending \/ ~NeedTick)
  <2>1. ticks' = ticks /\ Call(<<Fn("finishMaybe", 1)>>)
    BY <1>4 DEF OnwriteSync
  <2>2. st'.pendingcb = st.pendingcb - 1 /\ st'.expectWriteCb = st.expectWriteCb
    BY <1>1, <1>4 DEF OnwriteSync, Fields
  <2>3. Fn("finishMaybe", 1) \in Frames /\ Pays[Fn("finishMaybe", 1)] = 0
    BY <1>1, FrameOwes DEF Idle, Functions, Ones, Counts
  <2>4. Leaves(0) /\ Queues(0)
    BY <1>0, <2>1, <2>3, LeavesLists, QueuesLists
  <2>5. 0 + 0 + st.pendingcb <= Pays[Head(stack)] + st'.pendingcb
    BY <1>1, <2>2
  <2>6. st'.pendingcb \in Int
    BY <1>1, <2>2
  <2> QED BY <1>0, <1>1, <1>2, <2>2, <2>4, <2>5, <2>6, CallPays
<1>5. CASE cb # <<>> /\ same
  <2>1. ticks' = [ticks EXCEPT ![InfoTick].n = @ + 1] /\ Call(<<>>) /\ st' = st
    BY <1>5 DEF OnwriteSync
  <2>2. Shifted(<<>>) /\ stack # <<>> /\ stack \in Seq(Frames) /\ stack' = Under /\ Under \in Seq(Frames)
    <3>1. Call(<<>>) /\ <<>> \in Seq(Frames) /\ stack # <<>> /\ stack \in Seq(Frames)
      BY <1>0, <2>1, CallRuns DEF CoreTypes
    <3>2. stack' = Tail(stack) /\ Tail(stack) \in Seq(Frames)
      <4>1. stack' = <<>> \o Tail(stack) /\ Tail(stack) \in Seq(Frames)
        BY <3>1 DEF Call
      <4> QED BY <4>1
    <3> QED BY <1>0, <3>1, <3>2, CallRuns DEF Under
  <2>3. Total(Pays, stack) = 1 + Total(Pays, stack')
    <3>1. stack' = Tail(stack)
      BY <2>2 DEF Under
    <3> QED BY <1>1, <2>2, <3>1, TotalTail, WeightTypes
  <2>4. Total(Pays, ticks') <= Total(Pays, ticks) + 1 /\ ticks' \in Seq(Frames) /\ ticks \in Seq(Frames)
    BY <1>0, <2>1, InfoCounts DEF CoreTypes
  <2>5. /\ Total(Pays, stack') \in Nat /\ Total(Pays, ticks') \in Nat /\ Total(Pays, ticks) \in Nat
        /\ Len(buffer) \in Nat /\ \A x : Bit(x) \in Nat
    <3>1. buffer \in Seq(Nat)
      BY <1>0 DEF CoreTypes
    <3> QED BY <2>2, <2>4, <3>1, TotalNat, WeightTypes DEF Bit
  <2>6. Held(Pays)' <= Held(Pays) /\ Held(Pays) \in Nat /\ Held(Pays)' \in Nat
    BY <2>3, <2>4, <2>5 DEF Held
  <2>7. Owes' <= Owes /\ Owes \in Nat /\ Owes' \in Nat
    <3>1. Len(buffer') = Len(buffer) /\ st'.expectWriteCb = st.expectWriteCb /\ io' = io
      BY <1>2, <2>1
    <3> QED BY <2>5, <2>6, <3>1 DEF Owes
  <2> QED BY <1>1, <2>1, <2>7 DEF PendingCounted
<1>6. CASE cb # <<>> /\ ~same
  <2>1. Tick(Fnc("afterWriteTick", 1, cb)) /\ Call(<<>>)
    BY <1>6 DEF OnwriteSync
  <2>2. st'.pendingcb = st.pendingcb /\ st'.expectWriteCb = st.expectWriteCb
    BY <1>1, <1>6 DEF OnwriteSync, Fields
  <2>3. Fnc("afterWriteTick", 1, cb) \in Frames /\ Pays[Fnc("afterWriteTick", 1, cb)] = 1
    <3> HIDE DEF cb, same
    <3>1. cb \in Seq(Kinds \cup {"end"})
      BY <1>1 DEF cb
    <3> QED BY <1>1, <3>1, FrameOwes DEF Counts
  <2>4. Leaves(0) /\ Queues(1)
    BY <1>0, <2>1, <2>3, LeavesLists, QueuesLists
  <2>5. 0 + 1 + st.pendingcb <= Pays[Head(stack)] + st'.pendingcb
    BY <1>1, <2>2
  <2> HIDE DEF cb, same
  <2> QED BY <1>0, <1>1, <1>2, <2>2, <2>4, <2>5, CallPays
<1> QED BY <1>3, <1>4, <1>5, <1>6

\* afterWriteTick() passes what it owes on, afterWrite() does so after 'drain', and
\* its loop pays for one write after the other.
LEMMA PendAfterWrite ==
  ASSUME SinkInv, CoreTypes', PendingCounted, AfterWriteTick \/ AfterWrite \/ AfterWriteLoop
  PROVE  PendingCounted'
<1> DEFINE fr == Head(stack)
           owes == IF fr.n > 0 THEN fr.n ELSE 0
<1>0. CoreTypes
  BY DEF SinkInv
<1>1. buffer' = buffer /\ io' = io /\ ticks' = ticks
  BY DEF AfterWriteTick, AfterWrite, AfterWriteLoop, history
<1>2. PICK f \in Counts : Top(f)
  BY DEF AfterWriteTick, AfterWrite, AfterWriteLoop, Counts
<1>3. /\ Pays[fr] = owes /\ fr.n \in Int /\ fr.cb \in Seq(Kinds \cup {"end"}) /\ fr \in Frames /\ fr.f = f
      /\ DOMAIN st = Fields /\ st.pendingcb \in Int
  BY <1>0, <1>2, TopOwes DEF Ones, Counts
<1>4. Queues(0)
  BY <1>0, <1>1, QueuesLists
<1>5. \A g \in Counts : Fnc(g, fr.n, fr.cb) \in Frames /\ Pays[Fnc(g, fr.n, fr.cb)] = owes
  BY <1>3, FrameOwes
<1>6. CASE AfterWriteTick
  <2>1. Call(<<Fnc("afterWrite", fr.n, fr.cb)>>)
    BY <1>6 DEF AfterWriteTick
  <2>2. st'.pendingcb = st.pendingcb /\ st'.expectWriteCb = st.expectWriteCb
    BY <1>3, <1>6 DEF AfterWriteTick, Fields
  <2> HIDE DEF fr
  <2>3. Leaves(owes)
    <3>1. Fnc("afterWrite", fr.n, fr.cb) \in Frames /\ Pays[Fnc("afterWrite", fr.n, fr.cb)] = owes
      BY <1>5 DEF Counts
    <3> HIDE DEF owes
    <3> QED BY <2>1, <3>1, LeavesLists
  <2>4. owes + 0 + st.pendingcb <= Pays[Head(stack)] + st'.pendingcb
    BY <1>3, <2>2 DEF fr
  <2> HIDE DEF owes
  <2> QED BY <1>0, <1>1, <1>2, <1>3, <1>4, <2>2, <2>3, <2>4, CallPays
<1>7. CASE AfterWrite
  <2>1. Call(User("drain") \o <<Fnc("afterWriteLoop", fr.n, fr.cb)>>) \/ Call(<<Fnc("afterWriteLoop", fr.n, fr.cb)>>)
    <3>1. Call(<<>> \o <<Fnc("afterWriteLoop", fr.n, fr.cb)>>) \/ Call(User("drain") \o <<Fnc("afterWriteLoop", fr.n, fr.cb)>>)
      BY <1>7 DEF AfterWrite
    <3>2. <<>> \o <<Fnc("afterWriteLoop", fr.n, fr.cb)>> = <<Fnc("afterWriteLoop", fr.n, fr.cb)>>
      <4>1. Fnc("afterWriteLoop", fr.n, fr.cb) \in Frames
        BY <1>5 DEF Counts
      <4>2. <<Fnc("afterWriteLoop", fr.n, fr.cb)>> \in Seq(Frames)
        BY <4>1
      <4> QED BY <4>2
    <3> QED BY <3>1, <3>2
  <2>2. st'.pendingcb = st.pendingcb /\ st'.expectWriteCb = st.expectWriteCb
    BY <1>3, <1>7 DEF AfterWrite, Fields
  <2> HIDE DEF fr
  <2>3. Leaves(owes)
    <3>1. Fnc("afterWriteLoop", fr.n, fr.cb) \in Frames /\ Pays[Fnc("afterWriteLoop", fr.n, fr.cb)] = owes
      BY <1>5 DEF Counts
    <3> HIDE DEF owes
    <3> QED BY <2>1, <3>1, LeavesLists
  <2>4. owes + 0 + st.pendingcb <= Pays[Head(stack)] + st'.pendingcb
    BY <1>3, <2>2 DEF fr
  <2> HIDE DEF owes
  <2> QED BY <1>0, <1>1, <1>2, <1>3, <1>4, <2>2, <2>3, <2>4, CallPays
<1>8. CASE AfterWriteLoop /\ fr.n > 0
  <2> DEFINE g == [fr EXCEPT !.n = @ - 1]
  <2>1. Call(<<Fc(fr.cb, FALSE), g>>)
    BY <1>8 DEF AfterWriteLoop
  <2>2. st'.pendingcb = st.pendingcb - 1 /\ st'.expectWriteCb = st.expectWriteCb
    BY <1>3, <1>8 DEF AfterWriteLoop, Fields
  <2>3. g \in Frames /\ Pays[g] = fr.n - 1
    <3>1. g \in Frames /\ g.f = f /\ g.n = fr.n - 1
      BY <1>3 DEF Frames
    <3> HIDE DEF g, fr
    <3> QED BY <1>2, <1>3, <1>8, <3>1 DEF Pays, Ones, Counts
  <2>4. Fc(fr.cb, FALSE) \in Frames /\ Pays[Fc(fr.cb, FALSE)] = 0
    BY <1>3, FrameOwes
  <2> DEFINE a == Pays[Fc(fr.cb, FALSE)] + Pays[g]
  <2> HIDE DEF g
  <2>5. Leaves(a)
    <3> DEFINE x == Fc(fr.cb, FALSE)
    <3>1. x \in Frames /\ Call(<<x, g>>)
      BY <2>1, <2>4
    <3> HIDE DEF x
    <3>2. Leaves(Pays[x] + Pays[g])
      BY <2>3, <3>1, LeavesLists
    <3> QED BY <3>2 DEF x
  <2>6. a + 0 + st.pendingcb <= Pays[Head(stack)] + st'.pendingcb
    BY <1>3, <1>8, <2>2, <2>3, <2>4
  <2>7. st'.pendingcb \in Int
    BY <1>3, <2>2
  <2> HIDE DEF a, fr
  <2> QED BY <1>0, <1>1, <1>2, <1>4, <2>2, <2>5, <2>6, <2>7, CallPays
<1>9. CASE AfterWriteLoop /\ fr.n = 0
  <2>1. \/ Call(<<F("errorBuffer")>> \o <<Fn("finishMaybe", 1)>>)
        \/ Call(<<>> \o <<Fn("finishMaybe", 1)>>)
    <3>1. Call((IF st.destroyed THEN <<F("errorBuffer")>> ELSE <<>>) \o <<Fn("finishMaybe", 1)>>)
      <4>1. ~(fr.n > 0)
        BY <1>9
      <4> HIDE DEF fr
      <4> QED BY <1>9, <4>1, Zenon DEF AfterWriteLoop, fr
    <3>2. CASE st.destroyed
      BY <3>1, <3>2, Zenon
    <3>3. CASE ~st.destroyed
      BY <3>1, <3>3, Zenon
    <3> QED BY <3>2, <3>3
  <2>2. st' = st
    BY <1>9 DEF AfterWriteLoop
  <2>3. /\ F("errorBuffer") \in Frames /\ Pays[F("errorBuffer")] = 0
        /\ Fn("finishMaybe", 1) \in Frames /\ Pays[Fn("finishMaybe", 1)] = 0
    BY FrameOwes DEF Idle, Functions, Ones, Counts
  <2>4. Leaves(0)
    <3> DEFINE x == F("errorBuffer")
               y == Fn("finishMaybe", 1)
    <3> HIDE DEF x, y
    <3>1. Call(<<x, y>>) \/ Call(<<y>>)
      <4>1. <<x>> \o <<y>> = <<x, y>> /\ <<>> \o <<y>> = <<y>>
        <5>1. x \in Frames /\ y \in Frames
          BY <2>3 DEF x, y
        <5>2. <<x>> \o <<y>> = <<x, y>>
          BY <5>1, ConcatTwo
        <5> QED BY <5>1, <5>2
      <4> QED BY <2>1, <4>1 DEF x, y
    <3>2. x \in Frames /\ y \in Frames /\ Pays[x] = 0 /\ Pays[y] = 0
      BY <2>3 DEF x, y
    <3>3. Leaves(Pays[x] + Pays[y]) \/ Leaves(Pays[y])
      BY <3>1, <3>2, LeavesLists
    <3> QED BY <3>2, <3>3
  <2>5. 0 + 0 + st.pendingcb <= Pays[Head(stack)] + st'.pendingcb
    BY <1>3, <1>9, <2>2
  <2> QED BY <1>0, <1>1, <1>2, <1>3, <1>4, <2>2, <2>4, <2>5, CallPays
<1> QED BY <1>6, <1>7, <1>8, <1>9 DEF AfterWriteLoop

\* The functions that owe one decrement pay it, or pass it on.
LEMMA PendOnes ==
  ASSUME SinkInv, CoreTypes', PendingCounted, OnwriteError \/ FinishNT \/ OnFinish \/ Finish
  PROVE  PendingCounted'
<1> DEFINE fr == Head(stack)
<1>0. CoreTypes
  BY DEF SinkInv
<1>1. buffer' = buffer /\ io' = io /\ ticks' = ticks
  BY DEF OnwriteError, FinishNT, OnFinish, Finish, history
<1>2. PICK f \in Ones : Top(f)
  BY DEF OnwriteError, FinishNT, OnFinish, Finish, Ones
<1>3. /\ Pays[fr] = 1 /\ fr.cb \in Seq(Kinds \cup {"end"}) /\ fr.er \in BOOLEAN
      /\ DOMAIN st = Fields /\ st.pendingcb \in Int
  BY <1>0, <1>2, TopOwes
<1>4. Queues(0)
  BY <1>0, <1>1, QueuesLists
<1>5. /\ \A f0 \in Idle : F(f0) \in Frames /\ Pays[F(f0)] = 0
      /\ \A f0 \in Idle : \A er \in BOOLEAN : Fe(f0, er) \in Frames /\ Pays[Fe(f0, er)] = 0
      /\ \A f0 \in Idle : \A n \in Int : Fn(f0, n) \in Frames /\ Pays[Fn(f0, n)] = 0
      /\ {"errorBuffer", "errorOrDestroy", "callFinishedCallbacks", "onFinishError", "onFinishTick", "emitFinish"}
            \subseteq Idle
  BY FrameOwes DEF Idle, Functions, Ones, Counts
<1>6. CASE st'.expectWriteCb = st.expectWriteCb /\ st'.pendingcb \in Int /\
           \/ Leaves(0) /\ st.pendingcb - 1 <= st'.pendingcb
           \/ Leaves(1) /\ st.pendingcb <= st'.pendingcb
  <2>1. CASE Leaves(0) /\ st.pendingcb - 1 <= st'.pendingcb
    <3>1. 0 + 0 + st.pendingcb <= Pays[Head(stack)] + st'.pendingcb
      BY <1>3, <1>6, <2>1
    <3> QED BY <1>0, <1>1, <1>2, <1>4, <1>6, <2>1, <3>1, CallPays
  <2>2. CASE Leaves(1) /\ st.pendingcb <= st'.pendingcb
    <3>1. 1 + 0 + st.pendingcb <= Pays[Head(stack)] + st'.pendingcb
      BY <1>3, <1>6, <2>2
    <3> QED BY <1>0, <1>1, <1>2, <1>4, <1>6, <2>2, <3>1, CallPays
  <2> QED BY <1>6, <2>1, <2>2
<1>7. CASE OnwriteError
  <2>1. Call(<<Fc(fr.cb, TRUE), F("errorBuffer"), Fn("errorOrDestroy", 0)>>)
    BY <1>7 DEF OnwriteError
  <2>2. st'.pendingcb = st.pendingcb - 1 /\ st'.expectWriteCb = st.expectWriteCb
    BY <1>3, <1>7 DEF OnwriteError, Fields
  <2>3. Fc(fr.cb, TRUE) \in Frames /\ Pays[Fc(fr.cb, TRUE)] = 0
    BY <1>3, FrameOwes
  <2>4. /\ F("errorBuffer") \in Frames /\ Pays[F("errorBuffer")] = 0
        /\ Fn("errorOrDestroy", 0) \in Frames /\ Pays[Fn("errorOrDestroy", 0)] = 0
    BY <1>5
  <2>5. Leaves(0)
    <3>1. Leaves(Pays[Fc(fr.cb, TRUE)] + Pays[F("errorBuffer")] + Pays[Fn("errorOrDestroy", 0)])
      BY <2>1, <2>3, <2>4, LeavesLists
    <3> QED BY <2>3, <2>4, <3>1
  <2> QED BY <1>3, <1>6, <2>2, <2>5
<1>8. CASE FinishNT
  <2>1. F("finish") \in Frames /\ Pays[F("finish")] = 1
    BY FrameOwes DEF Ones
  <2>2. CASE needFinish(st)
    <3>1. Call(<<F("finish")>>) /\ st' = st
      BY <1>8, <2>2 DEF FinishNT
    <3>2. Leaves(1)
      BY <2>1, <3>1, LeavesLists
    <3> QED BY <1>3, <1>6, <3>1, <3>2
  <2>3. CASE ~needFinish(st)
    <3>1. Call(<<>>) /\ st' = [st EXCEPT !.pendingcb = @ - 1]
      BY <1>8, <2>3 DEF FinishNT
    <3>2. st'.pendingcb = st.pendingcb - 1 /\ st'.expectWriteCb = st.expectWriteCb
      BY <1>3, <3>1 DEF Fields
    <3>3. Leaves(0)
      BY <3>1, LeavesLists
    <3> QED BY <1>3, <1>6, <3>2, <3>3
  <2> QED BY <2>2, <2>3
<1>9. CASE Finish
  <2>1. Call(<<Fe("callFinishedCallbacks", FALSE), F("emitFinish")>>)
    BY <1>9 DEF Finish
  <2>2. st'.pendingcb = st.pendingcb - 1 /\ st'.expectWriteCb = st.expectWriteCb
    BY <1>3, <1>9 DEF Finish, Fields
  <2>3. /\ F("emitFinish") \in Frames /\ Pays[F("emitFinish")] = 0
        /\ Fe("callFinishedCallbacks", FALSE) \in Frames /\ Pays[Fe("callFinishedCallbacks", FALSE)] = 0
    BY <1>5
  <2>4. Leaves(0)
    <3>1. Leaves(Pays[Fe("callFinishedCallbacks", FALSE)] + Pays[F("emitFinish")])
      BY <2>1, <2>3, LeavesLists
    <3> QED BY <2>3, <3>1
  <2> QED BY <1>3, <1>6, <2>2, <2>4
<1>10. CASE OnFinish
  <2>1. st'.expectWriteCb = st.expectWriteCb /\ st'.pendingcb \in {st.pendingcb, st.pendingcb - 1}
    <3>1. \/ st' = st
          \/ st' = [st EXCEPT !.pendingcb = @ - 1]
          \/ st' = [[st EXCEPT !.pendingcb = @ - 1] EXCEPT !.prefinished = TRUE]
      BY <1>10, Zenon DEF OnFinish
    <3> QED BY <1>3, <3>1 DEF Fields
  <2>2. /\ Fn("errorOrDestroy", 0) \in Frames /\ Pays[Fn("errorOrDestroy", 0)] = 0
        /\ Fe("callFinishedCallbacks", TRUE) \in Frames /\ Pays[Fe("callFinishedCallbacks", TRUE)] = 0
        /\ F("onFinishError") \in Frames /\ Pays[F("onFinishError")] = 0
        /\ F("onFinishTick") \in Frames /\ Pays[F("onFinishTick")] = 0
    <3>1. {"errorOrDestroy", "callFinishedCallbacks", "onFinishError", "onFinishTick"} \subseteq Idle
      BY <1>5
    <3>2. Fn("errorOrDestroy", 0) \in Frames /\ Pays[Fn("errorOrDestroy", 0)] = 0
      BY <3>1, FrameOwes
    <3>3. Fe("callFinishedCallbacks", TRUE) \in Frames /\ Pays[Fe("callFinishedCallbacks", TRUE)] = 0
      BY <3>1, FrameOwes
    <3>4. /\ F("onFinishError") \in Frames /\ Pays[F("onFinishError")] = 0
          /\ F("onFinishTick") \in Frames /\ Pays[F("onFinishTick")] = 0
      BY <3>1, FrameOwes
    <3> QED BY <3>2, <3>3, <3>4
  <2>3. \/ Call(<<Fn("errorOrDestroy", 0)>>)
        \/ Call(<<Fe("callFinishedCallbacks", TRUE), F("onFinishError")>>)
        \/ Call(User("prefinish") \o <<F("onFinishTick")>>)
        \/ Call(<<>>)
    BY <1>10 DEF OnFinish
  <2>4. \/ Leaves(Pays[Fn("errorOrDestroy", 0)])
        \/ Leaves(Pays[Fe("callFinishedCallbacks", TRUE)] + Pays[F("onFinishError")])
        \/ Leaves(Pays[F("onFinishTick")])
        \/ Leaves(0)
    BY <2>2, <2>3, LeavesLists
  <2>5. Leaves(0)
    BY <2>2, <2>4
  <2>6. st.pendingcb - 1 <= st'.pendingcb /\ st'.pendingcb \in Int
    BY <1>3, <2>1
  <2> QED BY <1>6, <2>1, <2>5, <2>6
<1> QED BY <1>7, <1>8, <1>9, <1>10

\* The functions that owe nothing and change neither the queue nor pendingcb.
LEMMA PendIdle ==
  ASSUME SinkInv, CoreTypes', PendingCounted,
         \/ FinishMaybe \/ EmitFinish \/ ErrorOrDestroy \/ Destroy \/ ImplDestroy \/ OnDestroy
         \/ EmitErrorCloseNT \/ EmitErrorNT \/ EmitCloseNT \/ OnConstruct
  PROVE  PendingCounted'
<1> DEFINE fr == Head(stack)
<1>0. CoreTypes
  BY DEF SinkInv
<1>1. buffer' = buffer
  BY DEF FinishMaybe, EmitFinish, ErrorOrDestroy, Destroy, ImplDestroy, OnDestroy, EmitErrorCloseNT,
         EmitErrorNT, EmitCloseNT, OnConstruct, history
<1>2. PICK f \in Idle : Top(f)
  <2>1. {"finishMaybe", "emitFinish", "errorOrDestroy", "destroy", "_destroy", "onDestroy",
         "emitErrorCloseNT", "emitErrorNT", "emitCloseNT", "onConstruct"} \subseteq Idle
    BY DEF Idle, Functions, Ones, Counts
  <2> QED BY <2>1 DEF FinishMaybe, EmitFinish, ErrorOrDestroy, Destroy, ImplDestroy, OnDestroy,
             EmitErrorCloseNT, EmitErrorNT, EmitCloseNT, OnConstruct
<1>3. /\ Pays[fr] = 0 /\ fr.n \in Int /\ fr.er \in BOOLEAN
      /\ DOMAIN st = Fields /\ st.pendingcb \in Int
  BY <1>0, <1>2, TopOwes DEF Idle
<1>4. /\ st'.pendingcb = st.pendingcb /\ st'.expectWriteCb = st.expectWriteCb
  <2>1. CASE FinishMaybe \/ EmitFinish \/ ImplDestroy \/ EmitErrorCloseNT
    BY <2>1 DEF FinishMaybe, EmitFinish, ImplDestroy, EmitErrorCloseNT, history
  <2>2. CASE ErrorOrDestroy
    <3>1. st' = st \/ st' = [st EXCEPT !.errored = TRUE]
      BY <2>2, Zenon DEF ErrorOrDestroy
    <3> QED BY <1>3, <3>1 DEF Fields
  <2>3. CASE Destroy
    BY <1>3, <2>3 DEF Destroy, Fields
  <2>4. CASE OnDestroy
    BY <1>3, <2>4 DEF OnDestroy, Fields
  <2>5. CASE EmitErrorNT \/ EmitCloseNT
    BY <1>3, <2>5 DEF EmitErrorNT, EmitCloseNT, Fields
  <2>6. CASE OnConstruct
    BY <1>3, <2>6 DEF OnConstruct, Fields
  <2> QED BY <2>1, <2>2, <2>3, <2>4, <2>5, <2>6
<1>5. "final" \in io' => "final" \in io
  <2>1. CASE ImplDestroy
    <3>1. io' = io \/ io' = io \cup {"destroy"}
      BY <2>1, Zenon DEF ImplDestroy
    <3> QED BY <3>1
  <2>2. CASE \/ FinishMaybe \/ EmitFinish \/ ErrorOrDestroy \/ Destroy \/ OnDestroy
             \/ EmitErrorCloseNT \/ EmitErrorNT \/ EmitCloseNT \/ OnConstruct
    BY <2>2 DEF FinishMaybe, EmitFinish, ErrorOrDestroy, Destroy, OnDestroy, EmitErrorCloseNT,
         EmitErrorNT, EmitCloseNT, OnConstruct, history
  <2> QED BY <2>1, <2>2
<1>6. \A g \in {"prefinish", "destroy", "emitErrorNT", "emitCloseNT", "clearBuffer", "emitErrorCloseNT",
                "errorBuffer"} : F(g) \in Frames /\ Pays[F(g)] = 0
  BY FrameOwes DEF Idle, Functions, Ones, Counts
<1>7. \A g \in {"destroy", "_destroy", "onDestroy"} : \A er \in BOOLEAN :
        Fe(g, er) \in Frames /\ Pays[Fe(g, er)] = 0
  BY FrameOwes DEF Idle, Functions, Ones, Counts
<1>8. \A g \in {"finishMaybeCheck", "errorOrDestroy", "finishMaybe"} : \A n \in Int :
        Fn(g, n) \in Frames /\ Pays[Fn(g, n)] = 0
  BY FrameOwes DEF Idle, Functions, Ones, Counts
<1>9. Queues(0)
  <2>1. CASE FinishMaybe \/ EmitFinish \/ ImplDestroy \/ EmitErrorCloseNT \/ EmitErrorNT \/ EmitCloseNT \/ OnConstruct
    <3>1. ticks' = ticks
      BY <2>1 DEF FinishMaybe, EmitFinish, ImplDestroy, EmitErrorCloseNT, EmitErrorNT, EmitCloseNT, OnConstruct
    <3> QED BY <1>0, <3>1, QueuesLists
  <2>2. CASE ErrorOrDestroy
    <3>1. ticks' = ticks \/ Tick(F("emitErrorNT"))
      BY <2>2, Zenon DEF ErrorOrDestroy
    <3>2. F("emitErrorNT") \in Frames /\ Pays[F("emitErrorNT")] = 0
      BY <1>6
    <3> QED BY <1>0, <3>1, <3>2, QueuesLists
  <2>3. CASE Destroy
    <3>1. ticks' = ticks \/ Tick(F("errorBuffer"))
      BY <2>3 DEF Destroy, Tick
    <3>2. F("errorBuffer") \in Frames /\ Pays[F("errorBuffer")] = 0
      BY <1>6
    <3> QED BY <1>0, <3>1, <3>2, QueuesLists
  <2>4. CASE OnDestroy
    <3>1. Tick(F("emitErrorCloseNT")) \/ Tick(F("emitCloseNT"))
      <4>1. Tick(F(IF fr.er THEN "emitErrorCloseNT" ELSE "emitCloseNT"))
        BY <2>4, Zenon DEF OnDestroy
      <4> HIDE DEF fr
      <4>2. CASE fr.er
        BY <4>1, <4>2
      <4>3. CASE ~fr.er
        BY <4>1, <4>3
      <4> QED BY <4>2, <4>3
    <3>2. \A g \in {"emitErrorCloseNT", "emitCloseNT"} : F(g) \in Frames /\ Pays[F(g)] = 0
      BY <1>6
    <3> QED BY <1>0, <3>1, <3>2, QueuesLists
  <2> QED BY <2>1, <2>2, <2>3, <2>4
<1>10. CASE Leaves(0)
  <2>1. 0 + 0 + st.pendingcb <= Pays[Head(stack)] + st'.pendingcb /\ st'.pendingcb \in Int
    BY <1>3, <1>4
  <2> QED BY <1>0, <1>1, <1>2, <1>4, <1>5, <1>9, <1>10, <2>1, CallPays
<1>11. ASSUME NEW x \in Frames, Pays[x] = 0, Call(<<x>>) PROVE Leaves(0)
  <2>1. Leaves(Pays[x])
    BY <1>11, LeavesLists
  <2> QED BY <1>11, <2>1
<1>12. ASSUME NEW x \in Frames, NEW y \in Frames, Pays[x] = 0, Pays[y] = 0, Call(<<x, y>>) PROVE Leaves(0)
  <2>1. Leaves(Pays[x] + Pays[y])
    BY <1>12, LeavesLists
  <2> QED BY <1>12, <2>1
<1>13. Call(<<>>) => Leaves(0)
  BY LeavesLists
<1>14. \A site : Call(User(site)) => Leaves(0)
  BY LeavesLists
<1>15. CASE FinishMaybe
  <2>1. Call(<<F("prefinish"), Fn("finishMaybeCheck", fr.n)>>) \/ Call(<<>>)
    BY <1>15 DEF FinishMaybe
  <2>2. /\ F("prefinish") \in Frames /\ Pays[F("prefinish")] = 0
        /\ Fn("finishMaybeCheck", fr.n) \in Frames /\ Pays[Fn("finishMaybeCheck", fr.n)] = 0
    BY <1>3, <1>6, <1>8
  <2> QED BY <1>10, <1>12, <1>13, <2>1, <2>2
<1>16. CASE EmitFinish
  <2>1. User("finish") \in Seq(Frames)
    BY UserOwes, FrameLists
  <2>2. Call(User("finish") \o <<F("destroy")>>) \/ Call(User("finish"))
    <3>1. Call(User("finish") \o <<F("destroy")>>) \/ Call(User("finish") \o <<>>)
      BY <1>16 DEF EmitFinish
    <3>2. User("finish") \o <<>> = User("finish")
      BY <2>1
    <3> QED BY <3>1, <3>2
  <2>3. F("destroy") \in Frames /\ Pays[F("destroy")] = 0
    BY <1>6
  <2>4. Leaves(Pays[F("destroy")]) \/ Leaves(0)
    BY <2>2, <2>3, LeavesLists
  <2> QED BY <1>10, <2>3, <2>4
<1>17. CASE ErrorOrDestroy
  <2>1. Call(<<>>) \/ Call(<<Fe("destroy", TRUE)>>) \/ Call(<<F("emitErrorNT")>>)
    BY <1>17, Zenon DEF ErrorOrDestroy
  <2>2. Fe("destroy", TRUE) \in Frames /\ Pays[Fe("destroy", TRUE)] = 0 /\ F("emitErrorNT") \in Frames
           /\ Pays[F("emitErrorNT")] = 0
    BY <1>6, <1>7
  <2> QED BY <1>10, <1>11, <1>13, <2>1, <2>2
<1>18. CASE Destroy
  <2>1. Call(<<>>) \/ Call(<<Fe("_destroy", fr.er)>>)
    BY <1>18 DEF Destroy
  <2>2. Fe("_destroy", fr.er) \in Frames /\ Pays[Fe("_destroy", fr.er)] = 0
    BY <1>3, <1>7
  <2> QED BY <1>10, <1>11, <1>13, <2>1, <2>2
<1>19. CASE ImplDestroy
  <2>1. PICK er \in BOOLEAN : Call(<<>>) \/ Call(<<Fe("onDestroy", er)>>)
    <3>1. \/ Call(<<>>)
          \/ \E er \in {fr.er, TRUE} : Call(<<Fe("onDestroy", er)>>)
      BY <1>19, Zenon DEF ImplDestroy
    <3> HIDE DEF fr
    <3> QED BY <1>3, <3>1
  <2>2. Fe("onDestroy", er) \in Frames /\ Pays[Fe("onDestroy", er)] = 0
    BY <1>7
  <2> QED BY <1>10, <1>11, <1>13, <2>1, <2>2
<1>20. CASE OnDestroy
  BY <1>10, <1>13, <1>20 DEF OnDestroy
<1>21. CASE EmitErrorCloseNT
  <2>1. Call(<<F("emitErrorNT"), F("emitCloseNT")>>)
    BY <1>21 DEF EmitErrorCloseNT
  <2> QED BY <1>6, <1>10, <1>12, <2>1
<1>22. CASE EmitErrorNT
  <2>1. Call(<<>>) \/ Call(User("error"))
    BY <1>22 DEF EmitErrorNT
  <2> QED BY <1>10, <1>13, <1>14, <2>1
<1>23. CASE EmitCloseNT
  BY <1>10, <1>14, <1>23 DEF EmitCloseNT
<1>24. CASE OnConstruct
  <2>1. PICK er \in BOOLEAN : \/ Call(<<Fe("_destroy", er)>>)
                              \/ Call(<<Fn("errorOrDestroy", 1)>>)
                              \/ Call(<<F("clearBuffer"), Fn("finishMaybe", 0)>>)
    <3>1. \/ Call(<<Fe("_destroy", fr.er \/ st.destroyErr)>>)
          \/ Call(<<Fn("errorOrDestroy", 1)>>)
          \/ Call(<<F("clearBuffer"), Fn("finishMaybe", 0)>>)
      BY <1>24 DEF OnConstruct, AfterConstruct
    <3>2. (fr.er \/ st.destroyErr) \in BOOLEAN
      OBVIOUS
    <3> QED BY <3>1, <3>2, Zenon
  <2>2. /\ Fe("_destroy", er) \in Frames /\ Pays[Fe("_destroy", er)] = 0
        /\ Fn("errorOrDestroy", 1) \in Frames /\ Pays[Fn("errorOrDestroy", 1)] = 0
        /\ F("clearBuffer") \in Frames /\ Pays[F("clearBuffer")] = 0
        /\ Fn("finishMaybe", 0) \in Frames /\ Pays[Fn("finishMaybe", 0)] = 0
    BY <1>6, <1>7, <1>8
  <2> QED BY <1>10, <1>11, <1>12, <2>1, <2>2
<1> QED BY <1>15, <1>16, <1>17, <1>18, <1>19, <1>20, <1>21, <1>22, <1>23, <1>24

\* _final is counted from prefinish() until its callback.
LEMMA PendFinal ==
  ASSUME SinkInv, CoreTypes', PendingCounted, Prefinish \/ ImplFinal \/ FinishMaybeCheck \/ OnFinishTick
  PROVE  PendingCounted'
<1> DEFINE fr == Head(stack)
<1>0. CoreTypes
  BY DEF SinkInv
<1>1. buffer' = buffer
  BY DEF Prefinish, ImplFinal, FinishMaybeCheck, OnFinishTick, history
<1>2. Len(buffer) \in Nat /\ \A x : Bit(x) \in Nat
  <2>1. buffer \in Seq(Nat)
    BY <1>0 DEF CoreTypes
  <2> QED BY <2>1 DEF Bit
<1>3. \A f : Top(f) => /\ Pays[fr] = (IF f \in Ones THEN 1 ELSE IF f \in Counts /\ fr.n > 0 THEN fr.n ELSE 0)
                       /\ fr.n \in Int /\ DOMAIN st = Fields /\ st.pendingcb \in Int
  BY <1>0, TopOwes
<1>4. \A x \in Frames : Call(<<x>>) /\ Pays[x] = 1 => Leaves(1)
  BY LeavesLists
<1>5. /\ F("_final") \in Frames /\ Pays[F("_final")] = 1 /\ F("finish") \in Frames /\ Pays[F("finish")] = 1
      /\ F("finishNT") \in Frames /\ Pays[F("finishNT")] = 1
      /\ \A er \in BOOLEAN : Fe("onFinish", er) \in Frames /\ Pays[Fe("onFinish", er)] = 1
  BY FrameOwes DEF Ones
<1>6. F("unsync") \in Frames /\ Pays[F("unsync")] = 0
  BY FrameOwes DEF Idle, Functions, Ones, Counts
<1>7. CASE Prefinish
  <2>0. Top("prefinish") /\ ticks' = ticks /\ io' = io
    BY <1>7 DEF Prefinish
  <2>1. Pays[fr] = 0 /\ DOMAIN st = Fields /\ st.pendingcb \in Int
    BY <1>3, <2>0 DEF Ones, Counts
  <2>2. \/ st' = st /\ Call(<<>>)
        \/ st' = [st EXCEPT !.finalCalled = TRUE, !.sync = TRUE, !.pendingcb = @ + 1]
              /\ Call(<<F("_final"), F("unsync")>>)
        \/ st' = [st EXCEPT !.finalCalled = TRUE, !.prefinished = TRUE] /\ Call(User("prefinish"))
    BY <1>7, Zenon DEF Prefinish
  <2>3. Queues(0)
    BY <1>0, <2>0, QueuesLists
  <2>4. PICK a \in {0, 1} : Leaves(a) /\ st'.pendingcb = st.pendingcb + a /\ st'.expectWriteCb = st.expectWriteCb
    <3>1. CASE st' = st /\ Call(<<>>)
      BY <2>1, <3>1, LeavesLists
    <3>2. CASE st' = [st EXCEPT !.finalCalled = TRUE, !.sync = TRUE, !.pendingcb = @ + 1]
                 /\ Call(<<F("_final"), F("unsync")>>)
      <4>1. Leaves(Pays[F("_final")] + Pays[F("unsync")])
        BY <1>5, <1>6, <3>2, LeavesLists
      <4>2. Leaves(1)
        BY <1>5, <1>6, <4>1
      <4>3. st'.pendingcb = st.pendingcb + 1 /\ st'.expectWriteCb = st.expectWriteCb
        BY <2>1, <3>2 DEF Fields
      <4> QED BY <4>2, <4>3
    <3>3. CASE st' = [st EXCEPT !.finalCalled = TRUE, !.prefinished = TRUE] /\ Call(User("prefinish"))
      <4>1. Leaves(0)
        BY <3>3, LeavesLists
      <4>2. st'.pendingcb = st.pendingcb /\ st'.expectWriteCb = st.expectWriteCb
        BY <2>1, <3>3 DEF Fields
      <4> QED BY <2>1, <4>1, <4>2
    <3> QED BY <2>2, <3>1, <3>2, <3>3
  <2>5. a + 0 + st.pendingcb <= Pays[Head(stack)] + st'.pendingcb /\ st'.pendingcb \in Int
    BY <2>1, <2>4
  <2> QED BY <1>0, <1>1, <2>0, <2>3, <2>4, <2>5, CallPays
<1>8. CASE ImplFinal
  <2>0. Top("_final") /\ ticks' = ticks /\ st' = st
    BY <1>8 DEF ImplFinal
  <2>1. Pays[fr] = 1 /\ DOMAIN st = Fields /\ st.pendingcb \in Int
    BY <1>3, <2>0 DEF Ones
  <2>2. \/ \E er \in BOOLEAN : Call(<<Fe("onFinish", er)>>) /\ io' = io
        \/ io' = io \cup {"final"} /\ Call(<<>>)
    BY <1>8, Zenon DEF ImplFinal
  <2>3. Queues(0)
    BY <1>0, <2>0, QueuesLists
  <2>4. PICK a \in {0, 1} : Leaves(a) /\ a + Bit("final" \in io') <= 1 + Bit("final" \in io)
    <3>1. CASE \E er \in BOOLEAN : Call(<<Fe("onFinish", er)>>) /\ io' = io
      <4>1. Leaves(1)
        BY <1>4, <1>5, <3>1
      <4>2. Bit("final" \in io') = Bit("final" \in io)
        BY <3>1
      <4> QED BY <1>2, <4>1, <4>2
    <3>2. CASE io' = io \cup {"final"} /\ Call(<<>>)
      <4>1. Leaves(0)
        BY <3>2, LeavesLists
      <4>2. Bit("final" \in io') <= 1
        BY DEF Bit
      <4>3. Bit("final" \in io) \in Nat /\ Bit("final" \in io') \in Nat
        BY <1>2
      <4> QED BY <4>1, <4>2, <4>3
    <3> QED BY <2>2, <3>1, <3>2
  <2>5. Len(buffer') + Bit(st'.expectWriteCb) + Bit("final" \in io') + a + 0 + st.pendingcb
           <= Len(buffer) + Bit(st.expectWriteCb) + Bit("final" \in io) + Pays[Head(stack)] + st'.pendingcb
    <3> DEFINE l == Len(buffer)
               e == Bit(st.expectWriteCb)
               x == Bit("final" \in io')
               y == Bit("final" \in io)
               p == st.pendingcb
    <3>1. /\ l \in Nat /\ e \in Nat /\ x \in Nat /\ y \in Nat /\ p \in Int /\ a \in Nat /\ a + x <= 1 + y
          /\ Len(buffer') = l /\ Bit(st'.expectWriteCb) = e /\ st'.pendingcb = p /\ Pays[Head(stack)] = 1
      BY <1>1, <1>2, <2>0, <2>1, <2>4
    <3> HIDE DEF l, e, x, y, p
    <3>2. l + e + x + a + 0 + p <= l + e + y + 1 + p
      BY ONLY <3>1
    <3> QED BY <3>1, <3>2 DEF l, e, x, y, p
  <2> QED BY <1>0, <2>0, <2>1, <2>3, <2>4, <2>5, CallPends
<1>9. CASE FinishMaybeCheck
  <2>0. Top("finishMaybeCheck") /\ io' = io
    BY <1>9 DEF FinishMaybeCheck, history
  <2>1. Pays[fr] = 0 /\ DOMAIN st = Fields /\ st.pendingcb \in Int
    BY <1>3, <2>0 DEF Ones, Counts
  <2>2. \/ st' = [st EXCEPT !.pendingcb = @ + 1] /\ Tick(F("finishNT")) /\ Call(<<>>)
        \/ st' = [st EXCEPT !.pendingcb = @ + 1] /\ Call(<<F("finish")>>) /\ ticks' = ticks
        \/ st' = st /\ Call(<<>>) /\ ticks' = ticks
    BY <1>9, Zenon DEF FinishMaybeCheck
  <2>3. PICK a \in {0, 1}, b \in {0, 1} :
          Leaves(a) /\ Queues(b) /\ st'.pendingcb = st.pendingcb + a + b /\ st'.expectWriteCb = st.expectWriteCb
    <3>1. CASE st' = [st EXCEPT !.pendingcb = @ + 1] /\ Tick(F("finishNT")) /\ Call(<<>>)
      <4>1. Leaves(0) /\ Queues(1)
        BY <1>0, <1>5, <3>1, LeavesLists, QueuesLists
      <4>2. st'.pendingcb = st.pendingcb + 1 /\ st'.expectWriteCb = st.expectWriteCb
        BY <2>1, <3>1 DEF Fields
      <4>3. st'.pendingcb = st.pendingcb + 0 + 1
        BY <2>1, <4>2
      <4> QED BY <4>1, <4>2, <4>3
    <3>2. CASE st' = [st EXCEPT !.pendingcb = @ + 1] /\ Call(<<F("finish")>>) /\ ticks' = ticks
      <4>1. Leaves(1) /\ Queues(0)
        BY <1>0, <1>4, <1>5, <3>2, QueuesLists
      <4>2. st'.pendingcb = st.pendingcb + 1 /\ st'.expectWriteCb = st.expectWriteCb
        BY <2>1, <3>2 DEF Fields
      <4>3. st'.pendingcb = st.pendingcb + 1 + 0
        BY <2>1, <4>2
      <4> QED BY <4>1, <4>2, <4>3
    <3>3. CASE st' = st /\ Call(<<>>) /\ ticks' = ticks
      <4>1. Leaves(0) /\ Queues(0)
        BY <1>0, <3>3, LeavesLists, QueuesLists
      <4>2. st'.pendingcb = st.pendingcb + 0 + 0
        BY <2>1, <3>3
      <4> QED BY <3>3, <4>1, <4>2
    <3> QED BY <2>2, <3>1, <3>2, <3>3
  <2>4. a + b + st.pendingcb <= Pays[Head(stack)] + st'.pendingcb /\ st'.pendingcb \in Int
    BY <2>1, <2>3
  <2> QED BY <1>0, <1>1, <2>0, <2>3, <2>4, CallPays
<1>10. CASE OnFinishTick
  <2>0. Top("onFinishTick") /\ io' = io
    BY <1>10 DEF OnFinishTick, history
  <2>1. Pays[fr] = 0 /\ DOMAIN st = Fields /\ st.pendingcb \in Int
    BY <1>3, <2>0 DEF Ones, Counts
  <2>2. st'.pendingcb = st.pendingcb + 1 /\ st'.expectWriteCb = st.expectWriteCb
    BY <1>10, <2>1 DEF OnFinishTick, Fields
  <2>3. Leaves(0) /\ Queues(1)
    <3>1. Tick(F("finish")) /\ Call(<<>>)
      BY <1>10 DEF OnFinishTick
    <3> QED BY <1>0, <1>5, <3>1, LeavesLists, QueuesLists
  <2>4. 0 + 1 + st.pendingcb <= Pays[Head(stack)] + st'.pendingcb /\ st'.pendingcb \in Int
    BY <2>1, <2>2
  <2> QED BY <1>0, <1>1, <2>0, <2>2, <2>3, <2>4, CallPays
<1> QED BY <1>7, <1>8, <1>9, <1>10

\* Tasks of their own: a late callback of _final or of _destroy, and a tick.
LEMMA PendTasks ==
  ASSUME SinkInv, CoreTypes', PendingCounted, NEW er \in BOOLEAN,
         ImplFinalLater(er) \/ ImplDestroyLater(er) \/ RunTick
  PROVE  PendingCounted'
<1>0. CoreTypes /\ st.pendingcb \in Int
  BY DEF SinkInv, PendingCounted
<1>1. buffer' = buffer /\ st' = st /\ stack = <<>>
  BY DEF ImplFinalLater, ImplDestroyLater, RunTick, history
<1>2. Len(buffer) \in Nat /\ \A x : Bit(x) \in Nat
  <2>1. buffer \in Seq(Nat)
    BY <1>0 DEF CoreTypes
  <2> QED BY <2>1 DEF Bit
<1>3. Fe("onFinish", er) \in Frames /\ Pays[Fe("onFinish", er)] = 1
  BY FrameOwes DEF Ones
<1>4. Fe("onDestroy", er) \in Frames /\ Pays[Fe("onDestroy", er)] = 0
  BY FrameOwes DEF Idle, Functions, Ones, Counts
<1>5. Total(Pays, stack) = 0 /\ ticks \in Seq(Frames) /\ Total(Pays, ticks) \in Nat
  <2>1. ticks \in Seq(Frames)
    BY <1>0 DEF CoreTypes
  <2> QED BY <1>1, <2>1, TotalShort, TotalNat, WeightTypes
<1>6. CASE Owes' <= Owes
  <2>1. Owes \in Nat /\ Owes' \in Int
    <3>1. stack' \in Seq(Frames) /\ ticks' \in Seq(Frames)
      BY DEF CoreTypes
    <3>2. Total(Pays, stack') \in Nat /\ Total(Pays, ticks') \in Nat
      BY <3>1, TotalNat, WeightTypes
    <3> QED BY <1>1, <1>2, <1>5, <3>2 DEF Owes, Held
  <2> QED BY <1>0, <1>1, <1>6, <2>1 DEF PendingCounted
<1>7. CASE ImplFinalLater(er)
  <2>1. stack' = <<Fe("onFinish", er)>> /\ ticks' = ticks /\ "final" \in io /\ "final" \notin io'
    BY <1>7 DEF ImplFinalLater
  <2>2. Total(Pays, stack') = 1
    BY <1>3, <2>1, TotalShort, WeightTypes
  <2>3. Bit("final" \in io) = 1 /\ Bit("final" \in io') = 0
    BY <2>1 DEF Bit
  <2> QED BY <1>1, <1>2, <1>5, <1>6, <2>1, <2>2, <2>3 DEF Owes, Held
<1>8. CASE ImplDestroyLater(er)
  <2>1. stack' = <<Fe("onDestroy", er)>> /\ ticks' = ticks /\ io' = io \ {"destroy"}
    BY <1>8 DEF ImplDestroyLater
  <2>2. Total(Pays, stack') = 0
    BY <1>4, <2>1, TotalShort, WeightTypes
  <2>3. Bit("final" \in io') = Bit("final" \in io)
    BY <2>1 DEF Bit
  <2> QED BY <1>1, <1>2, <1>5, <1>6, <2>1, <2>2, <2>3 DEF Owes, Held
<1>9. CASE RunTick
  <2>1. stack' = <<Head(ticks)>> /\ ticks' = Tail(ticks) /\ io' = io /\ ticks # <<>>
    BY <1>9 DEF RunTick
  <2>2. Head(ticks) \in Frames
    BY <1>5, <2>1
  <2>3. Total(Pays, stack') = Pays[Head(ticks)]
    BY <2>1, <2>2, TotalShort, WeightTypes
  <2>4. Total(Pays, ticks) = Pays[Head(ticks)] + Total(Pays, ticks')
    BY <1>5, <2>1, TotalTail, WeightTypes
  <2>5. Held(Pays)' = Held(Pays) /\ Held(Pays) \in Nat
    <3>1. Pays[Head(ticks)] \in Nat
      BY <2>2, WeightTypes DEF Weights
    <3>2. ticks' \in Seq(Frames)
      BY DEF CoreTypes
    <3>3. Total(Pays, ticks') \in Nat
      BY <3>2, TotalNat, WeightTypes
    <3> QED BY <1>5, <2>3, <2>4, <3>1, <3>3 DEF Held
  <2> QED BY <1>1, <1>2, <1>6, <2>1, <2>5 DEF Owes
<1> QED BY <1>7, <1>8, <1>9

\* clearBuffer() counts its batch once, and its loop moves a chunk to the sink.
LEMMA PendClear ==
  ASSUME SinkInv, CoreTypes', PendingCounted, ClearBuffer \/ ClearBufferLoop
  PROVE  PendingCounted'
<1> DEFINE fr == Head(stack)
<1>0. CoreTypes /\ TopOK
  BY DEF SinkInv
<1>1. ticks' = ticks /\ io' = io
  BY DEF ClearBuffer, ClearBufferLoop
<1>2. buffer \in Seq(Nat) /\ Len(buffer) \in Nat /\ Bit("final" \in io) \in Nat /\ Bit(FALSE) = 0 /\ Bit(TRUE) = 1
  <2>1. buffer \in Seq(Nat)
    BY <1>0 DEF CoreTypes
  <2> QED BY <2>1 DEF Bit
<1>3. PICK f \in Idle : Top(f)
  <2>1. {"clearBuffer", "clearBufferLoop"} \subseteq Idle
    BY DEF Idle, Functions, Ones, Counts
  <2> QED BY <2>1 DEF ClearBuffer, ClearBufferLoop
<1>4. Pays[fr] = 0 /\ DOMAIN st = Fields /\ st.pendingcb \in Int
  BY <1>0, <1>3, TopOwes DEF Idle
<1>5. Queues(0)
  BY <1>0, <1>1, QueuesLists
<1>6. \A f0 \in {"_write", "unsync", "clearBufferEnd", "clearBufferLoop"} : F(f0) \in Frames /\ Pays[F(f0)] = 0
  BY FrameOwes DEF Idle, Functions, Ones, Counts
<1>7. \A x, y, z \in Frames : Pays[x] = 0 /\ Pays[y] = 0 /\ Pays[z] = 0 /\ Call(<<x, y, z>>) => Leaves(0)
  <2> SUFFICES ASSUME NEW x \in Frames, NEW y \in Frames, NEW z \in Frames,
                      Pays[x] = 0, Pays[y] = 0, Pays[z] = 0, Call(<<x, y, z>>)
               PROVE  Leaves(0)
    OBVIOUS
  <2>1. Leaves(Pays[x] + Pays[y] + Pays[z])
    BY LeavesLists
  <2> QED BY <2>1
<1>8. \A x \in Frames : Pays[x] = 0 /\ Call(<<x>>) => Leaves(0)
  BY LeavesLists
<1>9. CASE buffer' = buffer /\ st'.pendingcb = st.pendingcb /\ st'.expectWriteCb = st.expectWriteCb /\ Leaves(0)
  <2>1. 0 + 0 + st.pendingcb <= Pays[Head(stack)] + st'.pendingcb /\ st'.pendingcb \in Int
    BY <1>4, <1>9
  <2> QED BY <1>0, <1>1, <1>3, <1>5, <1>9, <2>1, CallPays
<1>10. CASE ClearBuffer /\ ~ClearReady
  <2>1. buffer' = buffer /\ st' = st /\ Call(<<>>)
    BY <1>10 DEF ClearBuffer, ClearReady
  <2> QED BY <1>9, <2>1, LeavesLists
<1>11. CASE ClearBuffer /\ ClearReady /\ ~(Len(Array) > 1 /\ opt.writev)
  <2>1. Array = buffer
    BY <1>11, ClearBufferReady DEF SinkInv
  <2>2. /\ st' = [st EXCEPT !.bufferProcessing = TRUE, !.failed = <<>>] /\ buffer' = buffer
        /\ Call(<<F("clearBufferLoop")>>)
    BY <1>11, <2>1 DEF ClearBuffer, ClearReady
  <2>3. st'.pendingcb = st.pendingcb /\ st'.expectWriteCb = st.expectWriteCb
    BY <1>4, <2>2 DEF Fields
  <2> QED BY <1>6, <1>8, <1>9, <2>2, <2>3
<1>12. CASE ClearBuffer /\ ClearReady /\ Len(Array) > 1 /\ opt.writev
  <2>1. Array = buffer /\ ~st.writing
    BY <1>12, ClearBufferReady DEF SinkInv
  <2> DEFINE ks == [i \in DOMAIN Array |-> given[Array[i]]]
             cb == IF \A i \in DOMAIN ks : ks[i] = "nop" THEN <<>> ELSE ks
             s == [st EXCEPT !.bufferProcessing = TRUE, !.failed = <<>>]
  <2>2. /\ st' = StartWrite([s EXCEPT !.pendingcb = @ - (Len(Array) - 1)], st.length, cb)
        /\ buffer' = <<>> /\ Call(<<F("_write"), F("unsync"), F("clearBufferEnd")>>)
    BY <1>12 DEF ClearBuffer, ClearReady
  <2> HIDE DEF cb
  <2>3. st'.pendingcb = st.pendingcb - (Len(buffer) - 1) /\ st'.expectWriteCb = TRUE
    BY <1>4, <2>1, <2>2 DEF StartWrite, Fields
  <2>4. st.expectWriteCb = FALSE
    BY <1>0, <2>1 DEF TopOK, CoreTypes
  <2>5. Leaves(0)
    BY <1>6, <1>7, <2>2
  <2>6. Len(buffer') = 0 /\ st'.pendingcb \in Int
    BY <1>2, <1>4, <2>2, <2>3
  <2>7. Len(buffer') + Bit(st'.expectWriteCb) + Bit("final" \in io') + 0 + 0 + st.pendingcb
           <= Len(buffer) + Bit(st.expectWriteCb) + Bit("final" \in io) + Pays[Head(stack)] + st'.pendingcb
    <3>1. Len(buffer') = 0 /\ Bit(st'.expectWriteCb) = 1 /\ Bit(st.expectWriteCb) = 0 /\ Pays[Head(stack)] = 0
      BY <1>2, <1>4, <2>3, <2>4, <2>6
    <3> QED BY <1>1, <1>2, <1>4, <2>3, <3>1
  <2> QED BY <1>0, <1>3, <1>5, <2>5, <2>6, <2>7, CallPends
<1>13. CASE ClearBufferLoop /\ buffer # <<>> /\ ~st.writing
  <2>1. buffer' = Tail(buffer) /\ st' = StartWrite(st, 1, Single(given[Head(buffer)]))
         /\ Call(<<F("_write"), F("unsync"), F("clearBufferLoop")>>)
    BY <1>13 DEF ClearBufferLoop
  <2>2. st'.pendingcb = st.pendingcb /\ st'.expectWriteCb = TRUE
    BY <1>4, <2>1 DEF StartWrite, Fields
  <2>3. Len(buffer') = Len(buffer) - 1
    BY <1>2, <1>13, <2>1
  <2>4. st.expectWriteCb = FALSE
    BY <1>0, <1>13 DEF TopOK, CoreTypes
  <2>5. Leaves(0)
    BY <1>6, <1>7, <2>1
  <2>6. Len(buffer') + Bit(st'.expectWriteCb) + Bit("final" \in io') + 0 + 0 + st.pendingcb
           <= Len(buffer) + Bit(st.expectWriteCb) + Bit("final" \in io) + Pays[Head(stack)] + st'.pendingcb
    <3>1. Bit(st'.expectWriteCb) = 1 /\ Bit(st.expectWriteCb) = 0 /\ Pays[Head(stack)] = 0
      BY <1>2, <1>4, <2>2, <2>4
    <3> QED BY <1>1, <1>2, <1>4, <2>2, <2>3, <3>1
  <2>7. st'.pendingcb \in Int
    BY <1>4, <2>2
  <2> QED BY <1>0, <1>3, <1>5, <2>5, <2>6, <2>7, CallPends
<1>14. CASE ClearBufferLoop /\ (buffer = <<>> \/ st.writing)
  <2>1. buffer' = buffer /\ st' = st /\ Call(<<F("clearBufferEnd")>>)
    BY <1>14 DEF ClearBufferLoop
  <2> QED BY <1>6, <1>8, <1>9, <2>1
<1> QED BY <1>10, <1>11, <1>12, <1>13, <1>14

\* write() counts the chunk, in the queue or with the sink.
LEMMA PendWrite ==
  ASSUME SinkInv, CoreTypes', PendingCounted, NEW k \in Kinds, Write(k), writeOrBuffer(k)
  PROVE  PendingCounted'
<1>0. CoreTypes /\ TopOK /\ InUser
  BY DEF SinkInv, Write, UserCalls
<1>1. ticks' = ticks /\ io' = io /\ st.pendingcb \in Int /\ DOMAIN st = Fields
  BY <1>0 DEF Write, writeOrBuffer, PendingCounted, CoreTypes
<1>2. buffer \in Seq(Nat) /\ Len(buffer) \in Nat /\ Len(given) + 1 \in Nat /\ Bit("final" \in io) \in Nat
         /\ Bit(FALSE) = 0 /\ Bit(TRUE) = 1 /\ Bit(st.expectWriteCb) \in Nat
  <2>1. buffer \in Seq(Nat) /\ given \in Seq(Kinds)
    BY <1>0 DEF CoreTypes
  <2> QED BY <2>1 DEF Bit
<1>3. \A f0 \in {"_write", "unsync", "writeReturn"} : F(f0) \in Frames /\ Pays[F(f0)] = 0
  BY FrameOwes DEF Idle, Functions, Ones, Counts
<1>4. ticks' = ticks \o <<>> /\ <<>> \in Seq(Frames) /\ Total(Pays, <<>>) = 0
  BY <1>0, <1>1, TicksRun, TotalShort, WeightTypes
<1>5. PICK gs \in Seq(Frames) :
        /\ Push(gs) /\ Total(Pays, gs) = 0
        /\ st'.pendingcb = st.pendingcb + 1
        /\ Len(buffer') + Bit(st'.expectWriteCb) = Len(buffer) + Bit(st.expectWriteCb) + 1
  <2>1. CASE MustBuffer
    <3>1. /\ buffer' = Append(buffer, Len(given) + 1)
          /\ st' = [[st EXCEPT !.pendingcb = @ + 1, !.length = @ + 1] EXCEPT !.buffered = TRUE]
          /\ Push(<<F("writeReturn")>>)
      BY <2>1 DEF writeOrBuffer
    <3>2. st'.pendingcb = st.pendingcb + 1 /\ st'.expectWriteCb = st.expectWriteCb
      BY <1>1, <3>1 DEF Fields
    <3>3. Len(buffer') = Len(buffer) + 1
      BY <1>2, <3>1
    <3>4. <<F("writeReturn")>> \in Seq(Frames) /\ Total(Pays, <<F("writeReturn")>>) = 0
      BY <1>3, FrameLists, TotalShort, WeightTypes
    <3>5. Len(buffer') + Bit(st'.expectWriteCb) = Len(buffer) + Bit(st.expectWriteCb) + 1
      BY <1>2, <3>2, <3>3
    <3> QED BY <3>1, <3>2, <3>4, <3>5
  <2>2. CASE ~MustBuffer
    <3> DEFINE s == [st EXCEPT !.pendingcb = @ + 1, !.length = @ + 1]
    <3>1. /\ buffer' = buffer /\ st' = StartWrite(s, 1, Single(k))
          /\ Push(<<F("_write"), F("unsync"), F("writeReturn")>>)
      BY <2>2 DEF writeOrBuffer
    <3>2. st'.pendingcb = st.pendingcb + 1 /\ st'.expectWriteCb = TRUE
      BY <1>1, <3>1 DEF StartWrite, Fields
    <3>3. st.expectWriteCb = FALSE
      BY <1>0, <2>2 DEF MustBuffer, TopOK, CoreTypes
    <3>4. /\ <<F("_write"), F("unsync"), F("writeReturn")>> \in Seq(Frames)
          /\ Total(Pays, <<F("_write"), F("unsync"), F("writeReturn")>>) = 0
      <4>1. F("_write") \in Frames /\ F("unsync") \in Frames /\ F("writeReturn") \in Frames
        BY <1>3
      <4>2. Total(Pays, <<F("_write"), F("unsync"), F("writeReturn")>>)
              = Pays[F("_write")] + Pays[F("unsync")] + Pays[F("writeReturn")]
        BY <4>1, TotalShort, WeightTypes
      <4> QED BY <1>3, <4>1, <4>2, FrameLists
    <3>5. Len(buffer') + Bit(st'.expectWriteCb) = Len(buffer) + Bit(st.expectWriteCb) + 1
      <4>1. Len(buffer') = Len(buffer) /\ Bit(st'.expectWriteCb) = 1 /\ Bit(st.expectWriteCb) = 0
        BY <1>2, <3>1, <3>2, <3>3
      <4> QED BY <1>2, <4>1
    <3> QED BY <3>1, <3>2, <3>4, <3>5
  <2> QED BY <2>1, <2>2
<1>6. PICK u \in PlainFrames :
        u.f = "user" /\ u \in Frames /\ Runs(gs \o <<u>>, <<>>) /\ OnTop \in {"none", "user"}
        /\ Total(Pays, gs \o <<u>>) = Total(Pays, gs) + Pays[u]
  BY <1>0, <1>4, <1>5, PushRuns, WeightTypes
<1>7. Pays[u] = 0 /\ TopWeight(Pays) = 0
  <2>1. Pays[u] = 0
    BY <1>6 DEF Pays, Ones, Counts
  <2>2. CASE stack = <<>>
    BY <2>1, <2>2 DEF TopWeight
  <2>3. CASE stack # <<>>
    <3>1. Head(stack) \in Frames /\ Head(stack).f = "user"
      <4>1. Head(stack) \in Frames
        BY <1>0, <2>3, TopFrame
      <4>2. Head(stack).f \in {"none", "user"} /\ "none" \notin Functions
        BY <1>6, <2>3 DEF OnTop, Functions
      <4>3. Head(stack).f \in Functions
        BY <1>0, <2>3, TopFrame
      <4> QED BY <4>1, <4>2, <4>3
    <3> QED BY <2>1, <2>3, <3>1 DEF TopWeight, Pays, Ones, Counts
  <2> QED BY <2>2, <2>3
<1>8. Total(Pays, gs \o <<u>>) = 0 /\ st'.pendingcb \in Int
  BY <1>1, <1>5, <1>6, <1>7
<1>9. Len(buffer') + Bit(st'.expectWriteCb) + Bit("final" \in io') + Total(Pays, gs \o <<u>>) + Total(Pays, <<>>)
             + st.pendingcb
        <= Len(buffer) + Bit(st.expectWriteCb) + Bit("final" \in io) + TopWeight(Pays) + st'.pendingcb
  BY <1>1, <1>2, <1>4, <1>5, <1>7, <1>8
<1> HIDE DEF PendingCounted
<1> QED BY <1>0, <1>6, <1>8, <1>9, PendingStep

\* Every step keeps it.
LEMMA PendNext ==
  ASSUME SinkInv, SinkInv', PendingCounted, [Next]_vars PROVE PendingCounted'
<1>0. CoreTypes /\ CoreTypes'
  BY DEF SinkInv
<1>1. CASE UserCall
  <2>1. ASSUME NEW k \in Kinds, Write(k) PROVE PendingCounted'
    <3>1. CASE writeRefused(k)
      <4>1. 0 \in Int /\ TRUE \in BOOLEAN
        OBVIOUS
      <4>2. Mere
        BY <2>1, <3>1, <4>1, MereCalls
      <4> QED BY <1>0, <4>2, MerePending
    <3>2. CASE writeOrBuffer(k)
      BY <1>0, <2>1, <3>2, PendWrite
    <3> QED BY <2>1, <3>1, <3>2 DEF Write
  <2>2. ASSUME NEW n \in 0 .. 1, NEW er \in BOOLEAN, Cork \/ Uncork \/ End(n) \/ UserDestroy(er)
        PROVE  PendingCounted'
    <3>1. SinkInv /\ n \in Int /\ "nop" \in Kinds /\ er \in BOOLEAN
      BY DEF Kinds
    <3>2. Mere
      <4>2. CASE Cork
        BY <3>1, <4>2, MereCalls
      <4>3. CASE Uncork
        BY <3>1, <4>3, MereCalls
      <4>4. CASE End(n)
        BY <3>1, <4>4, MereCalls
      <4>5. CASE UserDestroy(er)
        BY <3>1, <4>5, MereCalls
      <4> QED BY <2>2, <4>2, <4>3, <4>4, <4>5
    <3> QED BY <1>0, <3>2, MerePending
  <2>3. 0 \in 0 .. 1 /\ TRUE \in BOOLEAN
    OBVIOUS
  <2> QED BY <1>1, <2>1, <2>2, <2>3 DEF UserCall
<1>2. CASE Implementation
  <2>1. PICK er \in BOOLEAN :
          \/ ImplWriteLater(er) \/ ImplFinalLater(er) \/ ImplDestroyLater(er)
          \/ ImplConstruct(er)
    BY <1>2 DEF Implementation
  <2>2. CASE ImplWriteLater(er) \/ ImplConstruct(er)
    <3>1. 0 \in Int /\ "nop" \in Kinds
      BY DEF Kinds
    <3>2. Mere
      BY <2>2, <3>1, MereCalls
    <3> QED BY <1>0, <3>2, MerePending
  <2> QED BY <1>0, <2>1, <2>2, PendTasks
<1>3. CASE Run
  <2>1. CASE \/ UserReturn \/ WriteReturn \/ EndSetEnding \/ EndCallback \/ ImplWrite \/ Unsync
             \/ RunCallbacks \/ ErrorBuffer \/ ResetBuffer \/ ClearBufferEnd
             \/ OnFinishError \/ CallFinishedCallbacks \/ ConstructNT
    <3>1. Mere
      BY <2>1, MereActions
    <3> QED BY <1>0, <3>1, MerePending
  <2>2. CASE ErrorLoop
    <3>1. 0 \in Int /\ "nop" \in Kinds /\ TRUE \in BOOLEAN
      BY DEF Kinds
    <3>2. Mere
      BY <2>2, <3>1, MereCalls
    <3> QED BY <1>0, <3>2, MerePending
  <2>3. CASE Onwrite \/ OnwriteSync
    BY <1>0, <2>3, PendOnwrite, PendOnwriteSync
  <2>4. CASE AfterWriteTick \/ AfterWrite \/ AfterWriteLoop
    BY <1>0, <2>4, PendAfterWrite
  <2>5. CASE OnwriteError \/ FinishNT \/ OnFinish \/ Finish
    BY <1>0, <2>5, PendOnes
  <2>6. CASE \/ FinishMaybe \/ EmitFinish \/ ErrorOrDestroy \/ Destroy \/ ImplDestroy \/ OnDestroy
             \/ EmitErrorCloseNT \/ EmitErrorNT \/ EmitCloseNT \/ OnConstruct
    BY <1>0, <2>6, PendIdle
  <2>7. CASE Prefinish \/ ImplFinal \/ FinishMaybeCheck \/ OnFinishTick
    BY <1>0, <2>7, PendFinal
  <2>8. CASE ClearBuffer \/ ClearBufferLoop
    BY <1>0, <2>8, PendClear
  <2>9. CASE RunTick
    <3>1. TRUE \in BOOLEAN
      OBVIOUS
    <3> QED BY <1>0, <2>9, <3>1, PendTasks
  <2> QED BY <1>3, <2>1, <2>2, <2>3, <2>4, <2>5, <2>6, <2>7, <2>8, <2>9 DEF Run
<1>4. CASE UNCHANGED vars
  <2>1. UNCHANGED <<st, buffer, stack, ticks, io>>
    BY <1>4 DEF vars
  <2> QED BY <2>1 DEF PendingCounted, Owes, Held, Total, Adds
<1> QED BY <1>1, <1>2, <1>3, <1>4 DEF Next

\* Nothing is owed at first.
LEMMA PendInit == Init => PendingCounted
<1> SUFFICES ASSUME Init PROVE PendingCounted
  OBVIOUS
<1>1. st.pendingcb = 0 /\ st.expectWriteCb = FALSE /\ buffer = <<>> /\ stack = <<>> /\ io = {}
  BY DEF Init, InitState
<1>2. CoreTypes
  BY SinkInit DEF SinkInv
<1>3. Total(Pays, stack) = 0
  BY <1>1, TotalShort, WeightTypes
<1>4. Total(Pays, ticks) = 0
  <2>1. F("constructNT") \in Frames /\ Pays[F("constructNT")] = 0
    BY FrameOwes DEF Idle, Functions, Ones, Counts
  <2>2. ticks = <<>> \/ ticks = <<F("constructNT")>>
    BY DEF Init
  <2> QED BY <2>1, <2>2, TotalShort, WeightTypes
<1>5. Len(buffer) = 0 /\ Bit(st.expectWriteCb) = 0 /\ Bit("final" \in io) = 0
  BY <1>1 DEF Bit
<1> QED BY <1>1, <1>3, <1>4, <1>5 DEF PendingCounted, Owes, Held

(***************************************************************************)
(* The types of what the queue does not depend on                          *)
(***************************************************************************)

\* The implementation may be asked for four things.
IoCalls == {"write", "final", "destroy", "construct"}
FlagTypes == \A x \in Flags : st[x] \in BOOLEAN
RestTypes ==
  /\ opt \in Options /\ FlagTypes /\ st.writelen \in Nat
  /\ sunk \in Seq(1 .. Len(given)) /\ io \subseteq IoCalls
  /\ asked \in [Asked -> Nat] /\ called \in [Asked -> Nat]

\* The functions of the stream, and the calls of the user and of the implementation.
Step(k, n, er) ==
  \/ UserReturn \/ WriteReturn \/ EndSetEnding \/ EndCallback \/ ImplWrite
  \/ Unsync \/ Onwrite \/ OnwriteSync \/ AfterWriteTick \/ AfterWrite
  \/ AfterWriteLoop \/ OnwriteError \/ RunCallbacks \/ ErrorBuffer \/ ErrorLoop
  \/ ResetBuffer \/ ClearBuffer \/ ClearBufferLoop \/ ClearBufferEnd \/ FinishMaybe
  \/ Prefinish \/ FinishMaybeCheck \/ FinishNT \/ ImplFinal \/ OnFinish
  \/ OnFinishError \/ OnFinishTick \/ CallFinishedCallbacks \/ Finish \/ EmitFinish
  \/ ErrorOrDestroy \/ Destroy \/ ImplDestroy \/ OnDestroy \/ EmitErrorCloseNT
  \/ EmitErrorNT \/ EmitCloseNT \/ ConstructNT \/ OnConstruct \/ RunTick
  \/ Write(k) \/ Cork \/ Uncork \/ End(n) \/ UserDestroy(er)
  \/ ImplWriteLater(er) \/ ImplFinalLater(er) \/ ImplDestroyLater(er) \/ ImplConstruct(er)

\* Flags stay flags.
LEMMA FlagsStep ==
  ASSUME SinkInv, FlagTypes, NEW k \in Kinds, NEW n \in 0 .. 1, NEW er \in BOOLEAN, Step(k, n, er)
  PROVE  FlagTypes'
<1>1. DOMAIN st = Fields /\ Flags \subseteq Fields
  BY DEF SinkInv, CoreTypes, Flags, Fields
<1>2. stack # <<>> => Head(stack).er \in BOOLEAN
  BY TopFrame DEF SinkInv
<1>3. CASE \/ UserReturn \/ ImplWrite \/ RunCallbacks \/ ErrorBuffer \/ FinishMaybe
           \/ ImplFinal \/ OnFinishError \/ EmitFinish \/ ImplDestroy \/ EmitErrorCloseNT
           \/ ConstructNT \/ RunTick \/ UserDestroy(er) \/ ImplWriteLater(er) \/ ImplFinalLater(er)
           \/ ImplDestroyLater(er) \/ ImplConstruct(er)
  <2>1. st' = st
    BY <1>3 DEF history, UserReturn, ImplWrite, RunCallbacks, ErrorBuffer, FinishMaybe, ImplFinal, OnFinishError, EmitFinish, ImplDestroy, EmitErrorCloseNT, ConstructNT, RunTick, UserDestroy, ImplWriteLater, ImplFinalLater, ImplDestroyLater, ImplConstruct
  <2> QED BY <2>1 DEF FlagTypes
<1>4. CASE WriteReturn
  BY <1>1, <1>2, <1>4 DEF WriteReturn, Top, FlagTypes, Flags
<1>5. CASE EndSetEnding
  BY <1>1, <1>2, <1>5 DEF EndSetEnding, Top, FlagTypes, Flags
<1>6. CASE EndCallback
  BY <1>1, <1>2, <1>6 DEF EndCallback, Top, FlagTypes, Flags
<1>7. CASE Unsync
  BY <1>1, <1>2, <1>7 DEF Unsync, Top, FlagTypes, Flags
<1>8. CASE Onwrite
  BY <1>1, <1>2, <1>8 DEF Onwrite, Top, FlagTypes, Flags
<1>9. CASE OnwriteSync
  BY <1>1, <1>2, <1>9 DEF OnwriteSync, Top, FlagTypes, Flags
<1>10. CASE AfterWriteTick
  BY <1>1, <1>2, <1>10 DEF AfterWriteTick, Top, FlagTypes, Flags
<1>11. CASE AfterWrite
  BY <1>1, <1>2, <1>11 DEF AfterWrite, Top, FlagTypes, Flags
<1>12. CASE AfterWriteLoop
  BY <1>1, <1>2, <1>12 DEF AfterWriteLoop, Top, FlagTypes, Flags
<1>13. CASE OnwriteError
  BY <1>1, <1>2, <1>13 DEF OnwriteError, Top, FlagTypes, Flags
<1>14. CASE ErrorLoop
  BY <1>1, <1>2, <1>14 DEF ErrorLoop, Top, FlagTypes, Flags
<1>15. CASE ResetBuffer
  BY <1>1, <1>2, <1>15 DEF ResetBuffer, ResetBits, Top, FlagTypes, Flags
<1>16. CASE ClearBuffer
  BY <1>1, <1>2, <1>16 DEF ClearBuffer, StartWrite, Top, FlagTypes, Flags
<1>17. CASE ClearBufferLoop
  BY <1>1, <1>2, <1>17 DEF ClearBufferLoop, StartWrite, Top, FlagTypes, Flags
<1>18. CASE ClearBufferEnd
  BY <1>1, <1>2, <1>18 DEF ClearBufferEnd, ResetBits, Top, FlagTypes, Flags
<1>19. CASE Prefinish
  BY <1>1, <1>2, <1>19 DEF Prefinish, Top, FlagTypes, Flags
<1>20. CASE FinishMaybeCheck
  BY <1>1, <1>2, <1>20 DEF FinishMaybeCheck, Top, FlagTypes, Flags
<1>21. CASE FinishNT
  BY <1>1, <1>2, <1>21 DEF FinishNT, Top, FlagTypes, Flags
<1>22. CASE OnFinish
  BY <1>1, <1>2, <1>22 DEF OnFinish, Top, FlagTypes, Flags
<1>23. CASE OnFinishTick
  BY <1>1, <1>2, <1>23 DEF OnFinishTick, Top, FlagTypes, Flags
<1>24. CASE CallFinishedCallbacks
  BY <1>1, <1>2, <1>24 DEF CallFinishedCallbacks, Top, FlagTypes, Flags
<1>25. CASE Finish
  BY <1>1, <1>2, <1>25 DEF Finish, Top, FlagTypes, Flags
<1>26. CASE ErrorOrDestroy
  BY <1>1, <1>2, <1>26 DEF ErrorOrDestroy, Top, FlagTypes, Flags
<1>27. CASE Destroy
  BY <1>1, <1>2, <1>27 DEF Destroy, Top, FlagTypes, Flags
<1>28. CASE OnDestroy
  BY <1>1, <1>2, <1>28 DEF OnDestroy, Top, FlagTypes, Flags
<1>29. CASE EmitErrorNT
  BY <1>1, <1>2, <1>29 DEF EmitErrorNT, Top, FlagTypes, Flags
<1>30. CASE EmitCloseNT
  BY <1>1, <1>2, <1>30 DEF EmitCloseNT, Top, FlagTypes, Flags
<1>31. CASE OnConstruct
  BY <1>1, <1>2, <1>31 DEF OnConstruct, Top, FlagTypes, Flags
<1>32. CASE Write(k)
  BY <1>1, <1>2, <1>32 DEF Write, writeRefused, writeOrBuffer, StartWrite, Top, FlagTypes, Flags
<1>33. CASE Cork
  BY <1>1, <1>2, <1>33 DEF Cork, Top, FlagTypes, Flags
<1>34. CASE Uncork
  BY <1>1, <1>2, <1>34 DEF Uncork, Top, FlagTypes, Flags
<1>35. CASE End(n)
  BY <1>1, <1>2, <1>35 DEF End, Top, FlagTypes, Flags
<1> QED BY <1>3, <1>4, <1>5, <1>6, <1>7, <1>8, <1>9, <1>10, <1>11, <1>12, <1>13, <1>14, <1>15, <1>16, <1>17, <1>18, <1>19, <1>20, <1>21, <1>22, <1>23, <1>24, <1>25, <1>26, <1>27, <1>28, <1>29, <1>30, <1>31, <1>32, <1>33, <1>34, <1>35 DEF Step

\* A list with its elements in a set is a list of that set.
LEMMA SeqWithin ==
  ASSUME NEW T, NEW s \in Seq(T), NEW S, \A i \in DOMAIN s : s[i] \in S
  PROVE  s \in Seq(S)
<1>1. Len(s) \in Nat /\ DOMAIN s = 1 .. Len(s) /\ s = [i \in 1 .. Len(s) |-> s[i]]
  OBVIOUS
<1>2. s \in [1 .. Len(s) -> S]
  BY <1>1
<1> QED BY <1>1, <1>2, SeqDef

\* What went to the sink was given to write(), and writelen counts it.
LEMMA SinkTypes ==
  ASSUME SinkInv, LengthInv, RestTypes, NEW k \in Kinds, NEW n \in 0 .. 1, NEW er \in BOOLEAN, Step(k, n, er)
  PROVE  sunk' \in Seq(1 .. Len(given')) /\ st'.writelen \in Nat
<1>1. /\ DOMAIN st = Fields /\ given \in Seq(Kinds) /\ Len(given) \in Nat /\ sunk \in Seq(1 .. Len(given))
      /\ st.writelen \in Nat /\ "writelen" \in Fields /\ buffer \in Seq(Nat) /\ Len(buffer) \in Nat
      /\ \A i \in DOMAIN buffer : buffer[i] \in 1 .. Len(given)
  BY DEF SinkInv, CoreTypes, RestTypes, Fields, BufferOrdered
<1>2. buffer \in Seq(1 .. Len(given))
  BY <1>1, SeqWithin
<1>3. CASE Unseen
  BY <1>1, <1>3 DEF Unseen, Marks, Lengths
<1>4. CASE Write(k)
  <2>1. CASE writeRefused(k)
    BY <1>1, <2>1 DEF writeRefused
  <2>2. CASE writeOrBuffer(k)
    <3>1. Len(given') = Len(given) + 1
      BY <1>1, <2>2 DEF writeOrBuffer
    <3>2. sunk \in Seq(1 .. Len(given')) /\ Len(given) + 1 \in 1 .. Len(given')
      BY <1>1, <3>1
    <3>3. sunk' = sunk \/ sunk' = Append(sunk, Len(given) + 1)
      BY <2>2 DEF writeOrBuffer
    <3>4. st'.writelen \in {st.writelen, 1}
      <4>1. CASE MustBuffer
        BY <1>1, <2>2, <4>1 DEF writeOrBuffer
      <4>2. CASE ~MustBuffer
        BY <1>1, <2>2, <4>2 DEF writeOrBuffer, StartWrite
      <4> QED BY <4>1, <4>2
    <3>5. st'.writelen \in Nat
      BY <1>1, <3>4
    <3> QED BY <3>2, <3>3, <3>5
  <2> QED BY <1>4, <2>1, <2>2 DEF Write
<1>5. CASE ClearBuffer
  <2>1. given' = given
    BY <1>5 DEF ClearBuffer
  <2>2. CASE st' = st /\ sunk' = sunk
    BY <1>1, <2>1, <2>2
  <2>3. CASE ~(st' = st /\ sunk' = sunk)
    <3>1. ~st.destroyed
      BY <1>5, <2>3 DEF ClearBuffer
    <3>2. st.failed = <<>> /\ ~st.writing
      BY <1>5, <3>1 DEF ClearBuffer, SinkInv, TopOK
    <3>3. Array = buffer
      BY <1>1, <3>2 DEF Array
    <3>4. st.length \in Nat
      BY <1>1, <3>2 DEF LengthInv, LengthExact
    <3>5. sunk' = sunk \/ sunk' = sunk \o buffer
      BY <1>5, <3>3 DEF ClearBuffer
    <3>6. st'.writelen \in {st.writelen, st.length}
      BY <1>1, <1>5 DEF ClearBuffer, StartWrite
    <3>7. sunk \o buffer \in Seq(1 .. Len(given))
      BY <1>1, <1>2
    <3> QED BY <1>1, <2>1, <3>4, <3>5, <3>6, <3>7
  <2> QED BY <2>2, <2>3
<1>6. CASE ClearBufferLoop
  <2>1. given' = given
    BY <1>6 DEF ClearBufferLoop
  <2>2. sunk' = sunk \/ (buffer # <<>> /\ sunk' = Append(sunk, Head(buffer)))
    BY <1>6 DEF ClearBufferLoop
  <2>3. st'.writelen \in {st.writelen, 1}
    BY <1>1, <1>6 DEF ClearBufferLoop, StartWrite
  <2>4. buffer # <<>> => Head(buffer) \in 1 .. Len(given)
    BY <1>2
  <2>5. buffer # <<>> => Append(sunk, Head(buffer)) \in Seq(1 .. Len(given))
    BY <1>1, <2>4
  <2>6. sunk' \in Seq(1 .. Len(given'))
    BY <1>1, <2>1, <2>2, <2>5
  <2>7. st'.writelen \in Nat
    BY <1>1, <2>3
  <2> QED BY <2>6, <2>7
<1>7. CASE Onwrite
  <2>1. given' = given /\ sunk' = sunk
    BY <1>7 DEF Onwrite, history
  <2>2. st'.writelen \in {st.writelen, 0}
    BY <1>1, <1>7 DEF Onwrite
  <2> QED BY <1>1, <2>1, <2>2
<1>8. CASE ErrorLoop
  BY <1>1, <1>8 DEF ErrorLoop, history
<1>9. CASE ResetBuffer \/ ClearBufferEnd
  BY <1>1, <1>9 DEF ResetBuffer, ClearBufferEnd, ResetBits, history
<1>10. CASE Finish \/ ErrorOrDestroy \/ Destroy \/ OnDestroy
  BY <1>1, <1>10 DEF Finish, ErrorOrDestroy, Destroy, OnDestroy, history
<1>11. CASE ~(Unseen \/ Write(k))
  <2>1. ~(Cork \/ Uncork \/ End(n) \/ UserDestroy(er))
    BY <1>11, UnseenCalls
  <2>2. ~(ImplWriteLater(er) \/ ImplFinalLater(er) \/ ImplDestroyLater(er) \/ ImplConstruct(er))
    BY <1>11, UnseenCalls
  <2>3. Step(k, n, er) => \/ ClearBuffer \/ ClearBufferLoop \/ Onwrite \/ ErrorLoop \/ ResetBuffer
                          \/ ClearBufferEnd \/ Finish \/ ErrorOrDestroy \/ Destroy \/ OnDestroy
    BY <1>11, <2>1, <2>2, UnseenRun DEF Step
  <2> QED BY <1>5, <1>6, <1>7, <1>8, <1>9, <1>10, <2>3
<1> QED BY <1>3, <1>4, <1>11

\* Counts that grow stay counts.
LEMMA CountMore ==
  ASSUME NEW g \in [Asked -> Nat], NEW a, NEW d \in Nat
  PROVE  [g EXCEPT ![a] = @ + d] \in [Asked -> Nat]
<1>1. \A x \in Asked : [g EXCEPT ![a] = @ + d][x] \in Nat
  <2> SUFFICES ASSUME NEW x \in Asked PROVE [g EXCEPT ![a] = @ + d][x] \in Nat
    OBVIOUS
  <2>1. g[x] \in Nat /\ g[x] + d \in Nat
    OBVIOUS
  <2>2. [g EXCEPT ![a] = @ + d][x] = IF x = a THEN g[x] + d ELSE g[x]
    OBVIOUS
  <2> QED BY <2>1, <2>2
<1>2. DOMAIN [g EXCEPT ![a] = @ + d] = Asked
  OBVIOUS
<1>3. [g EXCEPT ![a] = @ + d] = [x \in Asked |-> [g EXCEPT ![a] = @ + d][x]]
  BY <1>2
<1> QED BY <1>1, <1>3

\* The options stay, the calls of the implementation are among the four, and the
\* counts of the callbacks are counts.
LEMMA HistoryTypes ==
  ASSUME RestTypes, NEW k \in Kinds, NEW n \in 0 .. 1, NEW er \in BOOLEAN, Step(k, n, er)
  PROVE  /\ opt' \in Options /\ io' \subseteq IoCalls
         /\ asked' \in [Asked -> Nat] /\ called' \in [Asked -> Nat]
<1>1. /\ opt \in Options /\ io \subseteq IoCalls /\ asked \in [Asked -> Nat] /\ called \in [Asked -> Nat]
      /\ n \in Nat
  BY DEF RestTypes
<1>2. CASE \/ UserReturn \/ WriteReturn \/ EndSetEnding \/ EndCallback
           \/ Unsync \/ Onwrite
  BY <1>1, <1>2 DEF UserReturn, WriteReturn, EndSetEnding, EndCallback, Unsync, Onwrite, history
<1>3. CASE \/ OnwriteSync \/ AfterWriteTick \/ AfterWrite \/ AfterWriteLoop
           \/ OnwriteError \/ ErrorBuffer
  BY <1>1, <1>3 DEF OnwriteSync, AfterWriteTick, AfterWrite, AfterWriteLoop, OnwriteError, ErrorBuffer, history
<1>4. CASE \/ ErrorLoop \/ ResetBuffer \/ ClearBuffer \/ ClearBufferLoop
           \/ ClearBufferEnd \/ FinishMaybe
  BY <1>1, <1>4 DEF ErrorLoop, ResetBuffer, ClearBuffer, ClearBufferLoop, ClearBufferEnd, FinishMaybe, history
<1>5. CASE \/ Prefinish \/ FinishMaybeCheck \/ FinishNT \/ OnFinish
           \/ OnFinishError \/ OnFinishTick
  BY <1>1, <1>5 DEF Prefinish, FinishMaybeCheck, FinishNT, OnFinish, OnFinishError, OnFinishTick, history
<1>6. CASE \/ CallFinishedCallbacks \/ Finish \/ EmitFinish \/ ErrorOrDestroy
           \/ Destroy \/ OnDestroy
  BY <1>1, <1>6 DEF CallFinishedCallbacks, Finish, EmitFinish, ErrorOrDestroy, Destroy, OnDestroy, history
<1>7. CASE \/ EmitErrorCloseNT \/ EmitErrorNT \/ EmitCloseNT \/ OnConstruct
           \/ RunTick \/ Cork
  BY <1>1, <1>7 DEF EmitErrorCloseNT, EmitErrorNT, EmitCloseNT, OnConstruct, RunTick, Cork, history
<1>8. CASE \/ Uncork \/ UserDestroy(er)
  BY <1>1, <1>8 DEF Uncork, UserDestroy, history
<1>9. CASE ImplWrite
  BY <1>1, <1>9 DEF ImplWrite, IoCalls, history
<1>10. CASE ImplFinal
  BY <1>1, <1>10 DEF ImplFinal, IoCalls, history
<1>11. CASE ImplDestroy
  BY <1>1, <1>11 DEF ImplDestroy, IoCalls, history
<1>12. CASE ConstructNT
  BY <1>1, <1>12 DEF ConstructNT, IoCalls, history
<1>13. CASE ImplWriteLater(er)
  BY <1>1, <1>13 DEF ImplWriteLater, IoCalls, history
<1>14. CASE ImplFinalLater(er)
  BY <1>1, <1>14 DEF ImplFinalLater, IoCalls, history
<1>15. CASE ImplDestroyLater(er)
  BY <1>1, <1>15 DEF ImplDestroyLater, IoCalls, history
<1>16. CASE ImplConstruct(er)
  BY <1>1, <1>16 DEF ImplConstruct, IoCalls, history
<1>17. CASE Write(k)
  <2>1. opt' = opt /\ io' = io /\ called' = called
    BY <1>17 DEF Write
  <2>2. asked' = asked \/ asked' = [asked EXCEPT ![k] = @ + 1]
    BY <1>17 DEF Write
  <2>3. [asked EXCEPT ![k] = @ + 1] \in [Asked -> Nat]
    BY <1>1, CountMore
  <2> QED BY <1>1, <2>1, <2>2, <2>3
<1>18. CASE End(n)
  <2>1. opt' = opt /\ io' = io /\ called' = called /\ asked' = [asked EXCEPT !["end"] = @ + n]
    BY <1>18 DEF End
  <2>2. [asked EXCEPT !["end"] = @ + n] \in [Asked -> Nat]
    BY <1>1, CountMore
  <2> QED BY <1>1, <2>1, <2>2
<1>19. CASE RunCallbacks
  BY <1>1, <1>19 DEF RunCallbacks
<1> QED BY <1>2, <1>3, <1>4, <1>5, <1>6, <1>7, <1>8, <1>9, <1>10, <1>11, <1>12, <1>13, <1>14, <1>15, <1>16, <1>17, <1>18, <1>19 DEF Step

\* Every step is one of them.
LEMMA StepOfNext ==
  ASSUME Next PROVE \E k \in Kinds, n \in 0 .. 1, er \in BOOLEAN : Step(k, n, er)
<1>0. "nop" \in Kinds /\ 0 \in 0 .. 1 /\ TRUE \in BOOLEAN
  BY DEF Kinds
<1>1. CASE UserCall
  BY <1>0, <1>1 DEF UserCall, Step
<1>2. CASE Implementation
  BY <1>0, <1>2 DEF Implementation, Step
<1>3. CASE Run
  BY <1>0, <1>3 DEF Run, Step
<1> QED BY <1>1, <1>2, <1>3 DEF Next

\* Every step keeps the types.
LEMMA RestNext ==
  ASSUME SinkInv, LengthInv, RestTypes, [Next]_vars PROVE RestTypes'
<1>1. CASE Next
  <2>1. PICK k \in Kinds, n \in 0 .. 1, er \in BOOLEAN : Step(k, n, er)
    BY <1>1, StepOfNext
  <2>2. FlagTypes'
    BY <2>1, FlagsStep DEF RestTypes
  <2>3. sunk' \in Seq(1 .. Len(given')) /\ st'.writelen \in Nat
    BY <2>1, SinkTypes
  <2>4. /\ opt' \in Options /\ io' \subseteq IoCalls
        /\ asked' \in [Asked -> Nat] /\ called' \in [Asked -> Nat]
    BY <2>1, HistoryTypes
  <2> QED BY <2>2, <2>3, <2>4 DEF RestTypes
<1>2. CASE UNCHANGED vars
  BY <1>2 DEF vars, RestTypes, FlagTypes
<1> QED BY <1>1, <1>2

\* pendingcb counts at least what is queued, with the sink and owed by the frames,
\* so that it is never negative.
LEMMA PendingNat == ASSUME SinkInv, PendingCounted PROVE st.pendingcb \in Nat
<1>1. stack \in Seq(Frames) /\ ticks \in Seq(Frames) /\ buffer \in Seq(Nat)
  BY DEF SinkInv, CoreTypes
<1>2. Held(Pays) \in Nat
  BY <1>1, TotalNat, WeightTypes DEF Held
<1>3. Bit(st.expectWriteCb) \in Nat /\ Bit("final" \in io) \in Nat /\ Len(buffer) \in Nat
  BY <1>1 DEF Bit
<1> QED BY <1>2, <1>3 DEF PendingCounted, Owes

\* The invariant of the state of the stream.
SoundInv == SinkInv /\ LengthInv /\ PendingCounted /\ RestTypes

\* It holds of the state the constructor leaves, ...
LEMMA SoundInit == Init => SoundInv
<1> SUFFICES ASSUME Init PROVE SoundInv
  OBVIOUS
<1>1. SinkInv /\ PendingCounted
  BY SinkInit, PendInit
<1>2. /\ st = InitState /\ buffer = <<>> /\ sunk = <<>> /\ given = <<>> /\ io = {} /\ opt \in Options
      /\ asked = [a \in Asked |-> 0] /\ called = [a \in Asked |-> 0]
  BY DEF Init
<1>3. opt.construct \in BOOLEAN
  BY <1>2, WritableAssumption
<1>4. FlagTypes /\ st.writelen = 0 /\ st.length = 0
  BY <1>2, <1>3 DEF FlagTypes, Flags, InitState
<1>5. RestTypes
  BY <1>2, <1>4 DEF RestTypes
<1>6. LengthInv
  BY <1>1, <1>2, <1>4 DEF LengthInv, LengthExact
<1> QED BY <1>1, <1>5, <1>6 DEF SoundInv

\* ... and every step keeps it.
LEMMA SoundNext == ASSUME ~LateUncork, SoundInv, [Next]_vars PROVE SoundInv'
<1>0. SinkInv /\ LengthInv /\ PendingCounted /\ RestTypes
  BY DEF SoundInv
<1>1. SinkInv'
  BY <1>0, SinkNext
<1>2. LengthInv'
  BY <1>0, LengthNext
<1>3. PendingCounted'
  BY <1>0, <1>1, PendNext
<1>4. RestTypes'
  BY <1>0, RestNext
<1> QED BY <1>1, <1>2, <1>3, <1>4 DEF SoundInv

\* The state of the stream is well formed, and state.length is exact, in every state:
\* the counters of writable.js, pendingcb among them, which is decremented in eight
\* places and on which 'finish' waits, never go below zero, whichever of a tick, a
\* synchronous or a late callback, an error or a batch of _writev decrements them.
THEOREM StateSoundHolds ==
  ASSUME ~LateUncork PROVE Spec => []StateSound
<1>1. Init => SoundInv
  BY SoundInit
<1>2. SoundInv /\ [Next]_vars => SoundInv'
  BY SoundNext
<1>3. SoundInv => StateSound
  <2> SUFFICES ASSUME SoundInv PROVE StateSound
    OBVIOUS
  <2>0. SinkInv /\ LengthInv /\ PendingCounted /\ RestTypes
    BY DEF SoundInv
  <2>1. st.pendingcb \in Nat
    BY <2>0, PendingNat
  <2>2. /\ buffer \in Seq(Nat) /\ given \in Seq(Kinds) /\ st.corked \in Nat /\ st.onFinished \in Nat
        /\ st.writecb \in Seq(Kinds) /\ st.writelen \in Nat /\ Len(given) \in Nat
    BY <2>0 DEF SinkInv, CoreTypes, RestTypes
  <2>3. st.length \in Nat
    <3>1. Len(buffer) \in Nat /\ st.length = Len(buffer) + st.writelen
      BY <2>0, <2>2 DEF LengthInv, LengthExact
    <3> QED BY <2>2, <3>1
  <2>4. buffer \in Seq(1 .. Len(given))
    <3>1. \A i \in DOMAIN buffer : buffer[i] \in 1 .. Len(given)
      BY <2>0, <2>2 DEF SinkInv, BufferOrdered
    <3> QED BY <2>2, <3>1, SeqWithin
  <2>5. LengthExact
    BY <2>0 DEF LengthInv
  <2>6. TypeOK
    BY <2>0, <2>1, <2>2, <2>3, <2>4 DEF TypeOK, RestTypes, FlagTypes, IoCalls
  <2> QED BY <2>5, <2>6 DEF StateSound
<1> QED BY <1>1, <1>2, <1>3, PTL DEF Spec

(***************************************************************************)
(* The events                                                              *)
(***************************************************************************)

EventNames == {"prefinish", "finish", "error", "close"}
Ev(e) == \E i \in DOMAIN events : events[i] = e

\* The functions on the way to 'finish' and to 'close', of which one is there at a time.
Tracked == Ending \cup Closing \cup {"finishNT", "emitFinish"}
ToFinish == Ending \cup {"finishNT"}
Finishing == Held(Of(ToFinish)) + Bit("final" \in io) <= Bit(st.finalCalled)
FinishedOnce == Held(Of(Ending)) + Bit("final" \in io) + Bit(st.finished) <= Bit(st.finalCalled)
FinishEmitted == Held(Of({"emitFinish"})) + Bit(Ev("finish")) <= Bit(st.finished)
ClosedOnce ==
  Held(Of(Closing)) + Bit("destroy" \in io) + Bit(st.destroyed /\ ~st.constructed) + Bit(st.closeEmitted)
    <= Bit(st.destroyed)
Tallies == Finishing /\ FinishedOnce /\ FinishEmitted /\ ClosedOnce

\* Ticks that close the stream, and what may not run after them.
Closers == {"emitErrorCloseNT", "emitCloseNT"}
Late == {"finish", "emitErrorNT"}
NotClosed == {"finish", "onFinishTick", "emitFinish", "emitErrorNT"}
Immediate == {"prefinish", "onFinishTick"}
NoTicks == {"prefinish", "onFinishTick", "emitFinish", "finishMaybeCheck"}

\* A tick that closes the stream runs alone, and nothing late is in the ticks by then.
CloseLast ==
  \A i \in DOMAIN stack : stack[i].f \in Closers =>
    i = Len(stack) /\ \A j \in DOMAIN ticks : ticks[j].f \notin Late
CloseTicksLast ==
  \A i, j \in DOMAIN ticks : ticks[i].f \in Closers /\ ticks[j].f \in Late => j < i

\* Functions that run at once, before the stream may be destroyed.
AtOnceOnly == \A i \in DOMAIN stack : stack[i].f \in Immediate => i = 1 /\ ~st.destroyed
CheckLater ==
  \A i \in DOMAIN stack : stack[i].f = "finishMaybeCheck" =>
    st.finalCalled \/ (i = 2 /\ OnTop = "prefinish")

\* After 'close' nothing is left that emits an event.
AfterClose ==
  st.closeEmitted => /\ \A i \in DOMAIN stack : stack[i].f \notin NotClosed
                     /\ \A i \in DOMAIN ticks : ticks[i].f \notin Late
TickKinds == \A i \in DOMAIN ticks : ticks[i].f \notin NoTicks
Places == CloseLast /\ CloseTicksLast /\ AtOnceOnly /\ CheckLater /\ AfterClose /\ TickKinds

\* What was emitted is recorded in the state.
Records ==
  /\ events \in Seq(EventNames)
  /\ Ev("prefinish") => st.prefinished
  /\ Ev("error") => st.errorEmitted
  /\ Ev("close") => st.closeEmitted
  /\ st.prefinished => st.finalCalled

EventInv == Tallies /\ Places /\ Records /\ EventsOrdered

\* The flags that the events depend on are flags.
EventFlags ==
  /\ st.finalCalled \in BOOLEAN /\ st.finished \in BOOLEAN /\ st.prefinished \in BOOLEAN
  /\ st.destroyed \in BOOLEAN /\ st.constructed \in BOOLEAN /\ st.closeEmitted \in BOOLEAN
  /\ st.errorEmitted \in BOOLEAN

\* The frames s hold at most one tracked frame, of the function f.
Carries(s, f) ==
  /\ s \in Seq(Frames)
  /\ \A i, j \in DOMAIN s : s[i].f \in Tracked /\ s[j].f \in Tracked => i = j
  /\ \A i \in DOMAIN s : s[i].f \in Tracked => s[i].f = f
  /\ f \in Tracked => \E i \in DOMAIN s : s[i].f = f

\* They weigh one in the sets that hold f.
LEMMA CarriesTotal ==
  ASSUME NEW s, NEW f, Carries(s, f), NEW S, S \subseteq Tracked
  PROVE  Total(Of(S), s) = Bit(f \in S)
<1>1. s \in Seq(Frames) /\ Of(S) \in Weights /\ DOMAIN s = 1 .. Len(s) /\ Len(s) \in Nat
  BY WeightTypes DEF Carries
<1>2. CASE \A i \in DOMAIN s : s[i].f \notin S
  <2>1. \A i \in 1 .. Len(s) : Of(S)[s[i]] = 0
    BY <1>1, <1>2 DEF Of
  <2>2. f \notin S
    BY <1>2 DEF Carries
  <2> QED BY <1>1, <2>1, <2>2, TotalZero DEF Bit
<1>3. ASSUME NEW i \in DOMAIN s, s[i].f \in S PROVE Total(Of(S), s) = Bit(f \in S)
  <2>1. f = s[i].f /\ s[i] \in Frames /\ i \in 1 .. Len(s)
    BY <1>1, <1>3 DEF Carries
  <2> DEFINE t == [s EXCEPT ![i] = F("user")]
  <2>2. F("user") \in Frames /\ F("user").f = "user" /\ "user" \notin Tracked
    BY FrameOwes, FrameParts DEF Idle, Functions, Ones, Counts, Tracked, Ending, Closing
  <2>3. /\ t \in Seq(Frames) /\ Len(t) = Len(s) /\ t[i] = F("user")
        /\ \A j \in 1 .. Len(s) : j # i => t[j] = s[j]
    BY <1>1, <2>1, <2>2
  <2> HIDE DEF t
  <2>4. Total(Of(S), t) = Total(Of(S), s) - Of(S)[s[i]] + Of(S)[t[i]]
    BY <1>1, <2>1, <2>3, TotalPart
  <2>5. \A j \in 1 .. Len(t) : Of(S)[t[j]] = 0
    <3> SUFFICES ASSUME NEW j \in 1 .. Len(t) PROVE Of(S)[t[j]] = 0
      OBVIOUS
    <3>1. t[j] \in Frames
      BY <2>3
    <3>2. t[j].f \notin S
      BY <1>1, <1>3, <2>2, <2>3 DEF Carries
    <3> QED BY <3>1, <3>2 DEF Of
  <2>6. Total(Of(S), t) = 0
    BY <1>1, <2>3, <2>5, TotalZero
  <2>7. Of(S)[s[i]] = 1 /\ Of(S)[t[i]] = 0
    BY <1>3, <2>1, <2>2, <2>3, <2>5 DEF Of
  <2>8. Total(Of(S), s) \in Nat /\ Bit(f \in S) = 1
    BY <1>1, <1>3, <2>1, TotalNat DEF Bit
  <2> QED BY <2>4, <2>6, <2>7, <2>8
<1> QED BY <1>2, <1>3

\* What a step does to the tallies.
LEMMA TallyStep ==
  ASSUME CoreTypes, NEW fs, NEW tk, Runs(fs, tk), NEW f, Carries(fs, f), NEW g, Carries(tk, g),
         NEW S, S \subseteq Tracked
  PROVE  /\ Held(Of(S))' = Held(Of(S)) + Bit(f \in S) + Bit(g \in S) - Bit(OnTop \in S)
         /\ Held(Of(S)) \in Nat /\ Held(Of(S))' \in Nat
<1>1. /\ Held(Of(S))' = Held(Of(S)) + Total(Of(S), fs) + Total(Of(S), tk) - TopWeight(Of(S))
      /\ Held(Of(S)) \in Nat
  BY HeldRuns, WeightTypes
<1>2. Total(Of(S), fs) = Bit(f \in S) /\ Total(Of(S), tk) = Bit(g \in S)
  BY CarriesTotal
<1>3. TopWeight(Of(S)) = Bit(OnTop \in S)
  <2>1. CASE stack = <<>>
    <3>1. OnTop \notin S
      BY <2>1 DEF OnTop, Tracked, Ending, Closing
    <3> QED BY <2>1, <3>1 DEF TopWeight, Bit
  <2>2. CASE stack # <<>>
    <3>1. Head(stack) \in Frames
      BY <2>2, TopFrame
    <3> QED BY <2>2, <3>1 DEF TopWeight, OnTop, Of, Bit
  <2> QED BY <2>1, <2>2
<1>4. Held(Of(S))' \in Nat
  <2>1. stack' \in Seq(Frames) /\ ticks' \in Seq(Frames)
    <3>1. ticks \in Seq(Frames) /\ tk \in Seq(Frames) /\ ticks' = ticks \o tk /\ Shifted(fs)
      BY DEF CoreTypes, Runs
    <3> QED BY <3>1, Shift
  <2>2. Total(Of(S), stack') \in Nat /\ Total(Of(S), ticks') \in Nat
    BY <2>1, TotalNat, WeightTypes
  <2> QED BY <2>2 DEF Held
<1> QED BY <1>1, <1>2, <1>3, <1>4

\* A frame of a set is counted.
LEMMA HeldOne ==
  ASSUME CoreTypes, NEW S, Held(Of(S)) <= 0
  PROVE  /\ \A i \in DOMAIN stack : stack[i].f \notin S
         /\ \A i \in DOMAIN ticks : ticks[i].f \notin S
<1>1. stack \in Seq(Frames) /\ ticks \in Seq(Frames) /\ Of(S) \in Weights
  BY WeightTypes DEF CoreTypes
<1>2. Total(Of(S), stack) \in Nat /\ Total(Of(S), ticks) \in Nat
  BY <1>1, TotalNat
<1>3. Total(Of(S), stack) = 0 /\ Total(Of(S), ticks) = 0
  BY <1>2 DEF Held
<1>4. ASSUME NEW s \in Seq(Frames), Total(Of(S), s) = 0, NEW i \in DOMAIN s PROVE s[i].f \notin S
  <2>1. i \in 1 .. Len(s) /\ s[i] \in Frames
    BY <1>4
  <2>2. Of(S)[s[i]] <= 0
    BY <1>1, <1>4, <2>1, TotalPart
  <2> QED BY <2>1, <2>2 DEF Of
<1> QED BY <1>1, <1>3, <1>4

\* Before destroy() nothing closes the stream.
LEMMA NotClosing ==
  ASSUME CoreTypes, EventFlags, ClosedOnce, ~st.destroyed
  PROVE  /\ \A i \in DOMAIN stack : stack[i].f \notin Closing
         /\ \A i \in DOMAIN ticks : ticks[i].f \notin Closing
         /\ ~st.closeEmitted /\ "destroy" \notin io /\ Held(Of(Closing)) = 0
<1>1. Held(Of(Closing)) \in Nat
  <2>1. stack \in Seq(Frames) /\ ticks \in Seq(Frames) /\ Of(Closing) \in Weights
    BY WeightTypes DEF CoreTypes
  <2> QED BY <2>1, TotalNat DEF Held
<1>2. \A b \in BOOLEAN : Bit(b) \in 0 .. 1 /\ (Bit(b) = 1 <=> b)
  BY DEF Bit
<1>3. Bit(st.destroyed) = 0 /\ Bit(st.destroyed /\ ~st.constructed) = 0
  BY DEF Bit
<1>4. Bit("destroy" \in io) \in 0 .. 1 /\ Bit(st.closeEmitted) \in 0 .. 1
  BY DEF Bit
<1>5. Held(Of(Closing)) = 0 /\ Bit("destroy" \in io) = 0 /\ Bit(st.closeEmitted) = 0
  BY <1>1, <1>3, <1>4 DEF ClosedOnce
<1>6. ~st.closeEmitted /\ "destroy" \notin io
  BY <1>5 DEF Bit
<1> QED BY <1>5, <1>6, HeldOne

\* What the frames fs and the ticks tk that a step leaves must be like.
Leave(fs, tk) ==
  /\ st.finalCalled \/ OnTop = "prefinish" => st'.finalCalled
  /\ \A i \in DOMAIN fs :
       /\ fs[i].f \in Closers =>
            i = Len(fs) /\ Len(stack) <= 1 /\ tk = <<>> /\ \A j \in DOMAIN ticks : ticks[j].f \notin Late
       /\ fs[i].f \in Immediate => i = 1 /\ ~st'.destroyed
       /\ fs[i].f = "finishMaybeCheck" => st'.finalCalled \/ (i = 2 /\ fs[1].f = "prefinish")
       /\ fs[i].f \in NotClosed => ~st'.closeEmitted
  /\ \A i \in DOMAIN tk :
       /\ tk[i].f \notin NoTicks
       /\ tk[i].f \in Late =>
            ~st'.closeEmitted /\ ~st.destroyed /\ \A j \in DOMAIN tk : tk[j].f \notin Closers
  /\ st'.closeEmitted =>
       st.closeEmitted \/ (Len(stack) <= 1 /\ \A j \in DOMAIN ticks : ticks[j].f \notin Late)

\* Where the frames and the ticks are, after a step that leaves fs and tk.
LEMMA PlacesKept ==
  ASSUME CoreTypes, EventFlags, ClosedOnce, Places, NEW fs, NEW tk, Runs(fs, tk), Leave(fs, tk)
  PROVE  Places'
<1> DEFINE n == Len(fs)
           m == Len(stack)
           p == Len(ticks)
           q == Len(tk)
<1>1. /\ stack' \in Seq(Frames) /\ n \in Nat /\ m \in Nat /\ Len(stack') \in Nat
      /\ DOMAIN stack' = 1 .. Len(stack') /\ DOMAIN stack = 1 .. m /\ DOMAIN fs = 1 .. n
      /\ Len(stack') = IF m = 0 THEN n ELSE n + m - 1
      /\ \A i \in 1 .. Len(stack') : IF i <= n THEN stack'[i] = fs[i]
                                     ELSE i - n + 1 \in 2 .. m /\ stack'[i] = stack[i - n + 1]
      /\ m # 0 => OnTop = stack[1].f
      /\ stack' # <<>> => OnTop' = stack'[1].f /\ Len(stack') >= 1
  <2>1. Shifted(fs) /\ fs \in Seq(Frames)
    BY DEF Runs
  <2> QED BY <2>1, Shift DEF OnTop
<1>2. /\ p \in Nat /\ q \in Nat /\ DOMAIN ticks = 1 .. p /\ DOMAIN tk = 1 .. q
      /\ DOMAIN ticks' = 1 .. p + q
      /\ \A i \in 1 .. p : ticks'[i] = ticks[i]
      /\ \A i \in 1 .. p + q : i > p => i - p \in 1 .. q /\ ticks'[i] = tk[i - p]
  <2>1. ticks \in Seq(Frames) /\ tk \in Seq(Frames) /\ ticks' = ticks \o tk
    BY DEF CoreTypes, Runs
  <2>2. Len(ticks \o tk) = p + q /\ p \in Nat /\ q \in Nat
    BY <2>1
  <2>3. \A i \in 1 .. p : (ticks \o tk)[i] = ticks[i]
    BY <2>1
  <2>4. \A i \in 1 .. p + q : i > p => i - p \in 1 .. q /\ (ticks \o tk)[i] = tk[i - p]
    BY <2>1, <2>2
  <2>5. DOMAIN (ticks \o tk) = 1 .. p + q /\ DOMAIN ticks = 1 .. p /\ DOMAIN tk = 1 .. q
    BY <2>1
  <2> QED BY <2>1, <2>2, <2>3, <2>4, <2>5
<1> HIDE DEF n, m, p, q
<1>10. \A i \in DOMAIN ticks' : \/ \E j \in DOMAIN ticks : ticks'[i] = ticks[j]
                              \/ \E j \in DOMAIN tk : ticks'[i] = tk[j]
  <2> SUFFICES ASSUME NEW i \in DOMAIN ticks'
               PROVE  \/ \E j \in DOMAIN ticks : ticks'[i] = ticks[j]
                      \/ \E j \in DOMAIN tk : ticks'[i] = tk[j]
    OBVIOUS
  <2>1. i \in 1 .. p + q
    BY <1>2
  <2>2. CASE i <= p
    <3>1. i \in DOMAIN ticks /\ ticks'[i] = ticks[i]
      BY <1>2, <2>1, <2>2
    <3> QED BY <3>1
  <2>3. CASE i > p
    <3>1. i - p \in DOMAIN tk /\ ticks'[i] = tk[i - p]
      BY <1>2, <2>1, <2>3
    <3> QED BY <3>1
  <2> QED BY <1>2, <2>1, <2>2, <2>3
<1>3. ASSUME NEW i \in DOMAIN tk, tk[i].f \in Late
      PROVE  /\ \A j \in DOMAIN stack : stack[j].f \notin Closers
             /\ \A j \in DOMAIN ticks : ticks[j].f \notin Closers
  <2>1. ~st.destroyed /\ Closers \subseteq Closing
    BY <1>3 DEF Closers, Closing, Leave
  <2> QED BY <2>1, NotClosing
<1>4. CloseLast'
  <2> SUFFICES ASSUME NEW i \in DOMAIN stack', stack'[i].f \in Closers
               PROVE  i = Len(stack') /\ \A j \in DOMAIN ticks' : ticks'[j].f \notin Late
    BY DEF CloseLast
  <2>1. CASE i <= n
    <3>1. i = n /\ m <= 1 /\ tk = <<>> /\ \A j \in DOMAIN ticks : ticks[j].f \notin Late
      BY <1>1, <2>1 DEF n, m, Leave
    <3>2. q = 0 /\ i = Len(stack')
      BY <1>1, <3>1 DEF q
    <3> QED BY ONLY <1>2, <3>1, <3>2, <1>10
  <2>2. CASE i > n
    <3>1. i - n + 1 \in 2 .. m /\ stack'[i] = stack[i - n + 1]
      BY <1>1, <2>2
    <3>2. i - n + 1 = m /\ \A j \in DOMAIN ticks : ticks[j].f \notin Late
      BY <1>1, <3>1 DEF Places, CloseLast, m
    <3>3. i = Len(stack')
      <4>1. i \in Nat /\ n \in Nat /\ m \in Nat /\ m >= 2 /\ Len(stack') = n + m - 1
        BY <1>1, <3>1
      <4> QED BY ONLY <3>2, <4>1
    <3>4. \A j \in DOMAIN tk : tk[j].f \notin Late
      BY <1>1, <1>3, <3>1
    <3> QED BY ONLY <1>10, <3>2, <3>3, <3>4
  <2> QED BY <1>1, <2>1, <2>2
<1>5. CloseTicksLast'
  <2> SUFFICES ASSUME NEW i \in DOMAIN ticks', NEW j \in DOMAIN ticks',
                      ticks'[i].f \in Closers, ticks'[j].f \in Late
               PROVE  j < i
    BY DEF CloseTicksLast
  <2>1. CASE i <= p
    <3>1. j <= p
      <4> SUFFICES ASSUME ~(j <= p) PROVE FALSE
        OBVIOUS
      <4>1. j - p \in DOMAIN tk /\ ticks'[j] = tk[j - p] /\ i \in DOMAIN ticks /\ ticks'[i] = ticks[i]
        BY <1>2, <2>1
      <4> QED BY <1>3, <4>1
    <3>2. ticks'[i] = ticks[i] /\ ticks'[j] = ticks[j] /\ i \in DOMAIN ticks /\ j \in DOMAIN ticks
      BY <1>2, <2>1, <3>1
    <3> QED BY <3>2 DEF Places, CloseTicksLast
  <2>2. CASE i > p
    <3>1. j <= p
      <4> SUFFICES ASSUME ~(j <= p) PROVE FALSE
        OBVIOUS
      <4>1. j - p \in DOMAIN tk /\ ticks'[j] = tk[j - p] /\ i - p \in DOMAIN tk /\ ticks'[i] = tk[i - p]
        BY <1>2, <2>2
      <4> QED BY <4>1 DEF Leave
    <3>2. i \in Nat /\ j \in Nat /\ p \in Nat
      BY <1>2
    <3> QED BY ONLY <2>2, <3>1, <3>2
  <2> QED BY <1>2, <2>1, <2>2
<1>6. AtOnceOnly'
  <2> SUFFICES ASSUME NEW i \in DOMAIN stack', stack'[i].f \in Immediate PROVE i = 1 /\ ~st'.destroyed
    BY DEF AtOnceOnly
  <2>1. CASE i <= n
    BY <1>1, <2>1 DEF Leave
  <2>2. CASE i > n
    <3>1. i - n + 1 \in 2 .. m /\ stack'[i] = stack[i - n + 1]
      BY <1>1, <2>2
    <3> QED BY <1>1, <3>1 DEF Places, AtOnceOnly
  <2> QED BY <1>1, <2>1, <2>2
<1>7. CheckLater'
  <2> SUFFICES ASSUME NEW i \in DOMAIN stack', stack'[i].f = "finishMaybeCheck"
               PROVE  st'.finalCalled \/ (i = 2 /\ OnTop' = "prefinish")
    BY DEF CheckLater
  <2>1. CASE i <= n
    <3>1. st'.finalCalled \/ (i = 2 /\ fs[1].f = "prefinish" /\ stack'[1] = fs[1] /\ stack' # <<>>)
      BY <1>1, <2>1 DEF Leave
    <3> QED BY <1>1, <3>1
  <2>2. CASE i > n
    <3>1. i - n + 1 \in 2 .. m /\ stack'[i] = stack[i - n + 1]
      BY <1>1, <2>2
    <3>2. st.finalCalled \/ OnTop = "prefinish"
      BY <1>1, <3>1 DEF Places, CheckLater
    <3> QED BY <3>2 DEF Leave
  <2> QED BY <1>1, <2>1, <2>2
<1>8. AfterClose'
  <2> SUFFICES ASSUME st'.closeEmitted
               PROVE  /\ \A i \in DOMAIN stack' : stack'[i].f \notin NotClosed
                      /\ \A i \in DOMAIN ticks' : ticks'[i].f \notin Late
    BY DEF AfterClose
  <2>1. /\ \A i \in 2 .. m : stack[i].f \notin NotClosed
        /\ \A i \in DOMAIN ticks : ticks[i].f \notin Late
    <3>1. CASE st.closeEmitted
      BY <1>1, <3>1 DEF Places, AfterClose
    <3>2. CASE m <= 1 /\ \A j \in DOMAIN ticks : ticks[j].f \notin Late
      BY <1>1, <3>2
    <3>3. st.closeEmitted \/ (Len(stack) <= 1 /\ \A j \in DOMAIN ticks : ticks[j].f \notin Late)
      BY DEF Leave
    <3>4. st.closeEmitted \/ (m <= 1 /\ \A j \in DOMAIN ticks : ticks[j].f \notin Late)
      BY <3>3 DEF m
    <3> QED BY <3>1, <3>2, <3>4
  <2>2. \A i \in DOMAIN stack' : stack'[i].f \notin NotClosed
    <3> SUFFICES ASSUME NEW i \in DOMAIN stack' PROVE stack'[i].f \notin NotClosed
      OBVIOUS
    <3>1. CASE i <= n
      <4>1. i \in DOMAIN fs /\ stack'[i] = fs[i]
        BY <1>1, <3>1
      <4> QED BY <4>1 DEF Leave
    <3>2. CASE i > n
      <4>1. i - n + 1 \in 2 .. m /\ stack'[i] = stack[i - n + 1]
        BY <1>1, <3>2
      <4> QED BY <2>1, <4>1
    <3> QED BY <1>1, <3>1, <3>2
  <2>3. \A i \in DOMAIN ticks' : ticks'[i].f \notin Late
    <3>1. \A i \in DOMAIN tk : tk[i].f \notin Late
      BY DEF Leave
    <3> QED BY ONLY <1>10, <2>1, <3>1
  <2> QED BY <2>2, <2>3
<1>9. TickKinds'
  BY <1>10 DEF TickKinds, Places, Leave
<1> QED BY <1>4, <1>5, <1>6, <1>7, <1>8, <1>9 DEF Places

\* An event that is new, while 'close' is not emitted.
LEMMA EventAdded ==
  ASSUME Records, EventsOrdered, NEW e \in EventNames, events' = Append(events, e),
         ~Ev(e), ~Ev("close")
  PROVE  /\ EventsOrdered' /\ events' \in Seq(EventNames)
         /\ \A x : Ev(x)' <=> Ev(x) \/ x = e
<1> DEFINE k == Len(events)
<1>1. /\ events \in Seq(EventNames) /\ k \in Nat /\ DOMAIN events = 1 .. k
      /\ events' \in Seq(EventNames) /\ Len(events') = k + 1 /\ DOMAIN events' = 1 .. k + 1
      /\ events'[k + 1] = e /\ \A i \in 1 .. k : events'[i] = events[i]
  BY DEF Records
<1> HIDE DEF k
<1>2. \A x : Ev(x)' <=> Ev(x) \/ x = e
  <2>1. ASSUME NEW x PROVE Ev(x)' <=> Ev(x) \/ x = e
    <3>1. Ev(x)' <=> \E i \in 1 .. k + 1 : events'[i] = x
      BY <1>1 DEF Ev
    <3>2. Ev(x) <=> \E i \in 1 .. k : events[i] = x
      BY <1>1 DEF Ev
    <3> QED BY <1>1, <3>1, <3>2
  <2> QED BY <2>1
<1>3. \A i \in 1 .. k + 1 : events'[i] = e <=> i = k + 1
  BY <1>1 DEF Ev
<1>4. \A x \in EventNames : \A i, j \in Emitted(x)' : i = j
  <2> SUFFICES ASSUME NEW x \in EventNames, NEW i \in 1 .. k + 1, NEW j \in 1 .. k + 1,
                      events'[i] = x, events'[j] = x
               PROVE  i = j
    BY <1>1 DEF Emitted
  <2>1. CASE x = e
    BY <1>3, <2>1
  <2>2. CASE x # e
    <3>1. i \in 1 .. k /\ j \in 1 .. k
      BY <1>1, <2>2
    <3>2. events[i] = x /\ events[j] = x
      BY <1>1, <3>1
    <3> QED BY <1>1, <3>1, <3>2 DEF EventsOrdered, Emitted, EventNames
  <2> QED BY <2>1, <2>2
<1>5. \A i \in Emitted("close")' : i = Len(events')
  <2> SUFFICES ASSUME NEW i \in 1 .. k + 1, events'[i] = "close" PROVE i = k + 1
    BY <1>1 DEF Emitted
  <2>1. i \in 1 .. k => Ev("close")
    BY <1>1 DEF Ev
  <2> QED BY <1>1, <2>1
<1> QED BY <1>1, <1>2, <1>4, <1>5 DEF EventsOrdered, EventNames

\* A step that emits nothing.
LEMMA EventsSame ==
  ASSUME Records, EventsOrdered, events' = events, st.prefinished => st'.prefinished,
         st.errorEmitted => st'.errorEmitted, st.closeEmitted => st'.closeEmitted,
         st'.prefinished => st'.finalCalled
  PROVE  Records' /\ EventsOrdered' /\ \A e : Ev(e)' <=> Ev(e)
BY DEF Records, EventsOrdered, Emitted, Ev

\* Frames of no function that is tracked.
LEMMA QuietCarries ==
  ASSUME NEW s \in Seq(QuietFrames)
  PROVE  /\ Carries(s, "none") /\ s \in Seq(Frames)
         /\ \A i \in DOMAIN s : s[i].f \notin Marked
<1>1. s \in Seq(Frames)
  BY MereSeq
<1>2. \A i \in DOMAIN s : s[i].f \notin Marked
  <2>1. \A i \in DOMAIN s : s[i] \in QuietFrames
    OBVIOUS
  <2> QED BY <2>1 DEF QuietFrames
<1>3. "none" \notin Tracked /\ Tracked \subseteq Marked
  BY DEF Tracked, Marked, Ending, Closing
<1> QED BY <1>1, <1>2, <1>3 DEF Carries

\* The four sets.
LEMMA TrackedSets ==
  /\ ToFinish \subseteq Tracked /\ Ending \subseteq Tracked /\ {"emitFinish"} \subseteq Tracked
  /\ Closing \subseteq Tracked
  /\ Closers \subseteq Closing
  /\ Tracked \subseteq Marked /\ Immediate \subseteq Marked /\ NotClosed \subseteq Marked
  /\ Late \subseteq Marked /\ NoTicks \subseteq Marked /\ Closers \subseteq Marked
  /\ "finishMaybeCheck" \in Marked
BY DEF ToFinish, Tracked, Ending, Closing, Closers, Marked, Immediate, NotClosed, Late, NoTicks

\* What a step does to the four tallies.
LEMMA FourTallies ==
  ASSUME CoreTypes, NEW fs, NEW tk, Runs(fs, tk), NEW f, Carries(fs, f), NEW g, Carries(tk, g)
  PROVE  /\ Held(Of(ToFinish))' = Held(Of(ToFinish)) + Bit(f \in ToFinish) + Bit(g \in ToFinish)
                                    - Bit(OnTop \in ToFinish)
         /\ Held(Of(Ending))' = Held(Of(Ending)) + Bit(f \in Ending) + Bit(g \in Ending)
                                    - Bit(OnTop \in Ending)
         /\ Held(Of({"emitFinish"}))' = Held(Of({"emitFinish"})) + Bit(f = "emitFinish") + Bit(g = "emitFinish")
                                    - Bit(OnTop = "emitFinish")
         /\ Held(Of(Closing))' = Held(Of(Closing)) + Bit(f \in Closing) + Bit(g \in Closing)
                                    - Bit(OnTop \in Closing)
         /\ Held(Of(ToFinish)) \in Nat /\ Held(Of(ToFinish))' \in Nat
         /\ Held(Of(Ending)) \in Nat /\ Held(Of(Ending))' \in Nat
         /\ Held(Of({"emitFinish"})) \in Nat /\ Held(Of({"emitFinish"}))' \in Nat
         /\ Held(Of(Closing)) \in Nat /\ Held(Of(Closing))' \in Nat
<1>1. /\ Held(Of(ToFinish))' = Held(Of(ToFinish)) + Bit(f \in ToFinish) + Bit(g \in ToFinish)
                                    - Bit(OnTop \in ToFinish)
      /\ Held(Of(ToFinish)) \in Nat /\ Held(Of(ToFinish))' \in Nat
  BY TallyStep, TrackedSets
<1>2. /\ Held(Of(Ending))' = Held(Of(Ending)) + Bit(f \in Ending) + Bit(g \in Ending)
                                    - Bit(OnTop \in Ending)
      /\ Held(Of(Ending)) \in Nat /\ Held(Of(Ending))' \in Nat
  BY TallyStep, TrackedSets
<1>3. /\ Held(Of({"emitFinish"}))' = Held(Of({"emitFinish"})) + Bit(f \in {"emitFinish"}) + Bit(g \in {"emitFinish"})
                                    - Bit(OnTop \in {"emitFinish"})
      /\ Held(Of({"emitFinish"})) \in Nat /\ Held(Of({"emitFinish"}))' \in Nat
  BY TallyStep, TrackedSets
<1>4. /\ Held(Of(Closing))' = Held(Of(Closing)) + Bit(f \in Closing) + Bit(g \in Closing)
                                    - Bit(OnTop \in Closing)
      /\ Held(Of(Closing)) \in Nat /\ Held(Of(Closing))' \in Nat
  BY TallyStep, TrackedSets
<1>5. \A x : (x \in {"emitFinish"}) = (x = "emitFinish")
  OBVIOUS
<1> QED BY <1>1, <1>2, <1>3, <1>4, <1>5 DEF Bit

\* A step that neither ends nor closes the stream.
LEMMA QuietEvents ==
  ASSUME CoreTypes, EventFlags, EventInv, Quiet PROVE EventInv'
<1>1. PICK fs, tk : Runs(fs, tk) /\ fs \in Seq(QuietFrames) /\ tk \in Seq(QuietFrames)
  BY DEF Quiet
<1>2. /\ \A x \in Verdicts : st'[x] = st[x]
      /\ events' = events /\ \A x \in {"final", "destroy"} : x \in io' => x \in io
      /\ OnTop # "prefinish"
  BY DEF Quiet, SameVerdicts
<1>3. /\ st'.finalCalled = st.finalCalled /\ st'.finished = st.finished /\ st'.prefinished = st.prefinished
      /\ st'.destroyed = st.destroyed /\ st'.constructed = st.constructed
      /\ st'.closeEmitted = st.closeEmitted /\ st'.errorEmitted = st.errorEmitted
  BY <1>2 DEF Verdicts
<1>4. Records' /\ EventsOrdered' /\ \A e : Ev(e)' <=> Ev(e)
  <2>1. st.prefinished => st.finalCalled
    BY DEF EventInv, Records
  <2> QED BY <1>2, <1>3, <2>1, EventsSame DEF EventInv
<1>5. /\ Carries(fs, "none") /\ Carries(tk, "none")
      /\ \A i \in DOMAIN fs : fs[i].f \notin Marked
      /\ \A i \in DOMAIN tk : tk[i].f \notin Marked
  BY <1>1, QuietCarries
<1>6. Places'
  <2>1. /\ \A i \in DOMAIN fs : fs[i].f \notin Closers /\ fs[i].f \notin Immediate
                                /\ fs[i].f # "finishMaybeCheck" /\ fs[i].f \notin NotClosed
        /\ \A i \in DOMAIN tk : tk[i].f \notin Late /\ tk[i].f \notin NoTicks
    BY <1>5, TrackedSets
  <2>2. Places /\ ClosedOnce
    BY DEF EventInv, Tallies
  <2>3. Leave(fs, tk)
    BY <1>2, <1>3, <2>1 DEF Leave
  <2> QED BY <1>1, <2>2, <2>3, PlacesKept
<1>7. Tallies'
  <2>1. \A b : Bit(b) \in Nat
    BY DEF Bit
  <2>2. "none" \notin ToFinish /\ "none" \notin Ending /\ "none" \notin Closing
    BY DEF ToFinish, Ending, Closing
  <2>3. Bit(FALSE) = 0
    BY DEF Bit
  <2>4. /\ Held(Of(ToFinish))' <= Held(Of(ToFinish)) /\ Held(Of(Ending))' <= Held(Of(Ending))
        /\ Held(Of({"emitFinish"}))' <= Held(Of({"emitFinish"})) /\ Held(Of(Closing))' <= Held(Of(Closing))
        /\ Held(Of(ToFinish)) \in Nat /\ Held(Of(ToFinish))' \in Nat
        /\ Held(Of(Ending)) \in Nat /\ Held(Of(Ending))' \in Nat
        /\ Held(Of({"emitFinish"})) \in Nat /\ Held(Of({"emitFinish"}))' \in Nat
        /\ Held(Of(Closing)) \in Nat /\ Held(Of(Closing))' \in Nat
    <3>1. \A x, h \in Nat, y \in Int : y = x + 0 + 0 - h => y <= x
      OBVIOUS
    <3>2. /\ Bit("none" \in ToFinish) = 0 /\ Bit("none" \in Ending) = 0 /\ Bit("none" \in Closing) = 0
          /\ Bit("none" = "emitFinish") = 0
      BY <2>2 DEF Bit
    <3>3. /\ Held(Of(ToFinish))' = Held(Of(ToFinish)) + 0 + 0 - Bit(OnTop \in ToFinish)
          /\ Held(Of(Ending))' = Held(Of(Ending)) + 0 + 0 - Bit(OnTop \in Ending)
          /\ Held(Of({"emitFinish"}))' = Held(Of({"emitFinish"})) + 0 + 0 - Bit(OnTop = "emitFinish")
          /\ Held(Of(Closing))' = Held(Of(Closing)) + 0 + 0 - Bit(OnTop \in Closing)
      BY <1>1, <1>5, <3>2, FourTallies
    <3>4. /\ Held(Of(ToFinish)) \in Nat /\ Held(Of(ToFinish))' \in Nat
          /\ Held(Of(Ending)) \in Nat /\ Held(Of(Ending))' \in Nat
          /\ Held(Of({"emitFinish"})) \in Nat /\ Held(Of({"emitFinish"}))' \in Nat
          /\ Held(Of(Closing)) \in Nat /\ Held(Of(Closing))' \in Nat
      BY <1>1, <1>5, FourTallies
    <3> QED BY <2>1, <3>1, <3>3, <3>4
  <2>5. Bit("final" \in io') <= Bit("final" \in io) /\ Bit("destroy" \in io') <= Bit("destroy" \in io)
        /\ Bit(Ev("finish")') = Bit(Ev("finish"))
    BY <1>2, <1>4 DEF Bit
  <2> DEFINE a == Bit("final" \in io)
             b == Bit("final" \in io')
             c == Bit("destroy" \in io)
             d == Bit("destroy" \in io')
  <2>6. a \in Nat /\ b \in Nat /\ c \in Nat /\ d \in Nat /\ b <= a /\ d <= c
    BY <2>1, <2>5
  <2> HIDE DEF a, b, c, d
  <2>7. /\ Held(Of(ToFinish)) + a <= Bit(st.finalCalled)
        /\ Held(Of(Ending)) + a + Bit(st.finished) <= Bit(st.finalCalled)
        /\ Held(Of({"emitFinish"})) + Bit(Ev("finish")) <= Bit(st.finished)
        /\ Held(Of(Closing)) + c + Bit(st.destroyed /\ ~st.constructed) + Bit(st.closeEmitted)
             <= Bit(st.destroyed)
    BY DEF a, c, EventInv, Tallies, Finishing, FinishedOnce, FinishEmitted, ClosedOnce
  <2>8. /\ Held(Of(ToFinish))' + b <= Bit(st.finalCalled)
        /\ Held(Of(Ending))' + b + Bit(st.finished) <= Bit(st.finalCalled)
        /\ Held(Of({"emitFinish"}))' + Bit(Ev("finish")) <= Bit(st.finished)
        /\ Held(Of(Closing))' + d + Bit(st.destroyed /\ ~st.constructed) + Bit(st.closeEmitted)
             <= Bit(st.destroyed)
    BY <2>1, <2>4, <2>6, <2>7
  <2> QED BY <1>3, <2>5, <2>8 DEF b, d, Tallies, Finishing, FinishedOnce, FinishEmitted, ClosedOnce
<1> QED BY <1>4, <1>6, <1>7 DEF EventInv

\* The functions that neither end nor close the stream.
QuietNames == Functions \ Marked

\* The frames of these functions.
LEMMA QuietMade ==
  /\ \A f \in QuietNames : F(f) \in QuietFrames
  /\ \A f \in QuietNames, er \in BOOLEAN : Fe(f, er) \in QuietFrames
  /\ \A f \in QuietNames, n \in Int : Fn(f, n) \in QuietFrames
  /\ \A f \in QuietNames, n \in Int, cb \in Seq(Kinds \cup {"end"}) : Fnc(f, n, cb) \in QuietFrames
  /\ \A cb \in Seq(Kinds \cup {"end"}), er \in BOOLEAN : Fc(cb, er) \in QuietFrames
<1>1. "callbacks" \in QuietNames /\ \A f \in QuietNames : f \in Functions /\ f \notin Marked
  BY DEF QuietNames, Functions, Marked, Ending, Closing
<1>2. 0 \in Int /\ <<>> \in Seq(Kinds \cup {"end"}) /\ TRUE \in BOOLEAN
  OBVIOUS
<1>3. ASSUME NEW f \in QuietNames, NEW n \in Int, NEW cb \in Seq(Kinds \cup {"end"}), NEW er \in BOOLEAN
      PROVE  /\ F(f) \in QuietFrames /\ Fe(f, er) \in QuietFrames /\ Fn(f, n) \in QuietFrames
             /\ Fnc(f, n, cb) \in QuietFrames /\ Fc(cb, er) \in QuietFrames
  <2>1. f \in Functions /\ f \notin Marked /\ "callbacks" \notin Marked
    BY <1>1 DEF QuietNames
  <2>2. /\ F(f) \in Frames /\ Fe(f, er) \in Frames /\ Fn(f, n) \in Frames
        /\ Fnc(f, n, cb) \in Frames /\ Fc(cb, er) \in Frames
    BY <2>1, FrameTypes
  <2>3. /\ F(f).f = f /\ Fe(f, er).f = f /\ Fn(f, n).f = f /\ Fnc(f, n, cb).f = f
        /\ Fc(cb, er).f = "callbacks"
    BY FrameNames
  <2> QED BY <2>1, <2>2, <2>3 DEF QuietFrames
<1>4. ASSUME NEW f \in QuietNames PROVE F(f) \in QuietFrames
  BY <1>2, <1>3
<1>5. ASSUME NEW f \in QuietNames, NEW er \in BOOLEAN PROVE Fe(f, er) \in QuietFrames
  BY <1>2, <1>3
<1>6. ASSUME NEW f \in QuietNames, NEW n \in Int PROVE Fn(f, n) \in QuietFrames
  BY <1>2, <1>3
<1>7. ASSUME NEW f \in QuietNames, NEW n \in Int, NEW cb \in Seq(Kinds \cup {"end"})
      PROVE  Fnc(f, n, cb) \in QuietFrames
  BY <1>2, <1>3
<1>8. ASSUME NEW cb \in Seq(Kinds \cup {"end"}), NEW er \in BOOLEAN PROVE Fc(cb, er) \in QuietFrames
  BY <1>1, <1>2, <1>3
<1> QED BY <1>4, <1>5, <1>6, <1>7, <1>8

\* Lists of them.
LEMMA QuietLists ==
  /\ <<>> \in Seq(QuietFrames)
  /\ \A x \in QuietFrames : <<x>> \in Seq(QuietFrames)
  /\ \A x, y \in QuietFrames : <<x, y>> \in Seq(QuietFrames)
  /\ \A x, y, z \in QuietFrames : <<x, y, z>> \in Seq(QuietFrames)
  /\ \A s, t \in Seq(QuietFrames) : s \o t \in Seq(QuietFrames)
OBVIOUS

\* User code is quiet.
LEMMA QuietUser == \A site : User(site) \in Seq(QuietFrames)
<1>1. F("user") \in QuietFrames
  BY QuietMade DEF QuietNames, Functions, Marked, Ending, Closing
<1> QED BY <1>1, QuietLists DEF User

\* A function that runs and leaves such frames.
QuietLeaves == \E fs \in Seq(QuietFrames) : Call(fs)
QuietQueues == \E tk \in Seq(QuietFrames) : ticks' = ticks \o tk
\* A function that leaves quiet frames and ticks is quiet.
LEMMA QuietCall ==
  ASSUME CoreTypes, NEW f, Top(f), f # "prefinish", SameVerdicts, QuietLeaves, QuietQueues
  PROVE  Quiet
<1>1. PICK fs \in Seq(QuietFrames) : Call(fs)
  BY DEF QuietLeaves
<1>2. PICK tk \in Seq(QuietFrames) : ticks' = ticks \o tk
  BY DEF QuietQueues
<1>3. fs \in Seq(Frames) /\ tk \in Seq(Frames)
  BY MereSeq
<1>4. Shifted(fs) /\ OnTop = f
  BY <1>1, <1>3, CallRuns
<1> QED BY <1>2, <1>3, <1>4 DEF Quiet, Runs

\* How the actions make them.
LEMMA QuietWays ==
  ASSUME CoreTypes
  PROVE  /\ Call(<<>>) => QuietLeaves
         /\ \A x \in QuietFrames : Call(<<x>>) => QuietLeaves
         /\ \A x, y \in QuietFrames : Call(<<x, y>>) => QuietLeaves
         /\ \A x, y, z \in QuietFrames : Call(<<x, y, z>>) => QuietLeaves
         /\ \A site : Call(User(site)) => QuietLeaves
         /\ \A site, x : x \in QuietFrames /\ Call(User(site) \o <<x>>) => QuietLeaves
         /\ ticks' = ticks => QuietQueues
         /\ \A x \in QuietFrames : Tick(x) => QuietQueues
<1>1. QuietFrames \subseteq Frames
  BY DEF QuietFrames
<1>2. ASSUME NEW site, NEW x \in QuietFrames PROVE User(site) \o <<x>> \in Seq(QuietFrames)
  <2>1. User(site) \in Seq(QuietFrames) /\ <<x>> \in Seq(QuietFrames)
    BY QuietUser, QuietLists
  <2> QED BY <2>1
<1>3. /\ ticks' = ticks => QuietQueues
      /\ \A x \in QuietFrames : Tick(x) => QuietQueues
  BY <1>1, TicksRun, QuietLists DEF QuietQueues
<1>4. ASSUME NEW x \in QuietFrames, NEW y \in QuietFrames, NEW z \in QuietFrames, Call(<<x, y, z>>)
      PROVE  QuietLeaves
  BY <1>4, QuietLists DEF QuietLeaves
<1>5. ASSUME NEW x \in QuietFrames, NEW y \in QuietFrames, Call(<<x, y>>) PROVE QuietLeaves
  BY <1>5, QuietLists DEF QuietLeaves
<1>6. ASSUME NEW x \in QuietFrames, Call(<<x>>) PROVE QuietLeaves
  BY <1>6, QuietLists DEF QuietLeaves
<1>7. Call(<<>>) => QuietLeaves
  BY QuietLists DEF QuietLeaves
<1>8. ASSUME NEW site, Call(User(site)) PROVE QuietLeaves
  BY <1>8, QuietUser DEF QuietLeaves
<1>9. ASSUME NEW site, NEW x \in QuietFrames, Call(User(site) \o <<x>>) PROVE QuietLeaves
  BY <1>2, <1>9 DEF QuietLeaves
<1> QED BY <1>3, <1>4, <1>5, <1>6, <1>7, <1>8, <1>9

\* The names of the quiet frames that follow.
LEMMA QuietNamed ==
  {"clearBuffer", "onwriteSync", "afterWrite", "onwriteError", "errorOrDestroy", "finishMaybe", "afterWriteTick",
   "afterWriteLoop", "errorBuffer", "_write", "unsync", "clearBufferEnd", "clearBufferLoop", "writeReturn",
   "destroy", "user", "callFinishedCallbacks", "onFinishError"}
    \subseteq QuietNames
BY DEF QuietNames, Functions, Marked, Ending, Closing

\* The callback of a write, and what follows it.
LEMMA QuietOnwrite ==
  ASSUME CoreTypes, Onwrite \/ OnwriteError \/ AfterWriteTick \/ AfterWrite PROVE Quiet
<1>0. /\ DOMAIN st = Fields /\ st.writecb \in Seq(Kinds \cup {"end"}) /\ 0 \in Int /\ 1 \in Int
      /\ Verdicts \subseteq Fields
  <2>1. DOMAIN st = Fields /\ st.writecb \in Seq(Kinds)
    BY DEF CoreTypes
  <2> QED BY <2>1 DEF Verdicts, Fields
<1>1. stack # <<>> => /\ Head(stack).n \in Int /\ Head(stack).cb \in Seq(Kinds \cup {"end"})
                      /\ Head(stack).er \in BOOLEAN
  BY TopFrame
<1>2. CASE Onwrite
  <2>1. Top("onwrite")
    BY <1>2 DEF Onwrite
  <2>2. SameVerdicts
    BY <1>0, <1>2 DEF Onwrite, history, SameVerdicts, Verdicts
  <2> DEFINE cb == st.writecb
             a == Fn("errorOrDestroy", 0)
             b == Fnc("onwriteError", 0, cb)
             c == F("clearBuffer")
             d == Fnc("onwriteSync", 0, cb)
             e == Fnc("afterWrite", 1, cb)
             g == IF st.sync THEN d ELSE e
  <2>3. \/ Call(<<a>>) /\ ticks' = ticks
        \/ Tick(b) /\ Call(<<>>)
        \/ Call(<<b>>) /\ ticks' = ticks
        \/ Call(<<c, g>>) /\ ticks' = ticks
    BY <1>2, Zenon DEF Onwrite
  <2>4. a \in QuietFrames /\ b \in QuietFrames /\ c \in QuietFrames /\ d \in QuietFrames /\ e \in QuietFrames
    BY <1>0, QuietMade, QuietNamed
  <2> HIDE DEF a, b, c, d, e
  <2>5. g \in QuietFrames
    BY <2>4
  <2> HIDE DEF g
  <2>6. QuietLeaves /\ QuietQueues
    BY <2>3, <2>4, <2>5, QuietWays
  <2> QED BY <2>1, <2>2, <2>6, QuietCall
<1>3. CASE OnwriteError
  <2>1. Top("onwriteError")
    BY <1>3 DEF OnwriteError
  <2>2. SameVerdicts
    BY <1>0, <1>3 DEF OnwriteError, history, SameVerdicts, Verdicts
  <2> DEFINE a == Fc(Head(stack).cb, TRUE)
             b == F("errorBuffer")
             c == Fn("errorOrDestroy", 0)
  <2>3. Call(<<a, b, c>>) /\ ticks' = ticks
    BY <1>3 DEF OnwriteError
  <2>4. a \in QuietFrames /\ b \in QuietFrames /\ c \in QuietFrames
    <3>1. Head(stack).cb \in Seq(Kinds \cup {"end"}) /\ TRUE \in BOOLEAN
      BY <1>1, <2>1 DEF Top
    <3> QED BY <1>0, <3>1, QuietMade, QuietNamed
  <2> HIDE DEF a, b, c
  <2>6. QuietLeaves /\ QuietQueues
    BY <2>3, <2>4, QuietWays
  <2> QED BY <2>1, <2>2, <2>6, QuietCall
<1>4. CASE AfterWriteTick
  <2>1. Top("afterWriteTick")
    BY <1>4 DEF AfterWriteTick
  <2>2. SameVerdicts
    BY <1>0, <1>4 DEF AfterWriteTick, history, SameVerdicts, Verdicts
  <2> DEFINE a == Fnc("afterWrite", Head(stack).n, Head(stack).cb)
  <2>3. Call(<<a>>) /\ ticks' = ticks
    BY <1>4 DEF AfterWriteTick
  <2>4. a \in QuietFrames
    <3>1. Head(stack).cb \in Seq(Kinds \cup {"end"}) /\ Head(stack).n \in Int
      BY <1>1, <2>1 DEF Top
    <3> QED BY <3>1, QuietMade, QuietNamed
  <2> HIDE DEF a
  <2>6. QuietLeaves /\ QuietQueues
    BY <2>3, <2>4, QuietWays
  <2> QED BY <2>1, <2>2, <2>6, QuietCall
<1>5. CASE AfterWrite
  <2>1. Top("afterWrite")
    BY <1>5 DEF AfterWrite
  <2>2. SameVerdicts
    BY <1>0, <1>5 DEF AfterWrite, history, SameVerdicts, Verdicts
  <2> DEFINE a == Fnc("afterWriteLoop", Head(stack).n, Head(stack).cb)
  <2>3. (Call(User("drain") \o <<a>>) \/ Call(<<>> \o <<a>>)) /\ ticks' = ticks
    BY <1>5, Zenon DEF AfterWrite
  <2>4. a \in QuietFrames
    <3>1. Head(stack).cb \in Seq(Kinds \cup {"end"}) /\ Head(stack).n \in Int
      BY <1>1, <2>1 DEF Top
    <3> QED BY <3>1, QuietMade, QuietNamed
  <2> HIDE DEF a
  <2>5. <<>> \o <<a>> = <<a>>
    BY <2>4
  <2>6. QuietLeaves /\ QuietQueues
    BY <2>3, <2>4, <2>5, QuietWays
  <2> QED BY <2>1, <2>2, <2>6, QuietCall
<1> QED BY <1>2, <1>3, <1>4, <1>5

\* A step of onwrite() that only counts one write more in a tick.
LEMMA RetickEvents ==
  ASSUME CoreTypes, EventFlags, EventInv, Top("onwriteSync"), Call(<<>>), SameVerdicts,
         ticks' \in Seq(Frames), Len(ticks') = Len(ticks), \A i \in DOMAIN ticks : ticks'[i].f = ticks[i].f
  PROVE  EventInv'
<1>1. /\ st'.finalCalled = st.finalCalled /\ st'.finished = st.finished /\ st'.prefinished = st.prefinished
      /\ st'.destroyed = st.destroyed /\ st'.constructed = st.constructed
      /\ st'.closeEmitted = st.closeEmitted /\ st'.errorEmitted = st.errorEmitted
      /\ events' = events /\ \A x \in {"final", "destroy"} : x \in io' => x \in io
  BY DEF SameVerdicts, Verdicts
<1>2. Records' /\ EventsOrdered' /\ \A e : Ev(e)' <=> Ev(e)
  <2>1. st.prefinished => st.finalCalled
    BY DEF EventInv, Records
  <2> QED BY <1>1, <2>1, EventsSame DEF EventInv
<1>3. /\ stack \in Seq(Frames) /\ ticks \in Seq(Frames) /\ stack # <<>> /\ stack' = Tail(stack)
      /\ Head(stack) \in Frames /\ Head(stack).f = "onwriteSync" /\ OnTop = "onwriteSync"
  <2>1. <<>> \in Seq(Frames) /\ stack # <<>> /\ Tail(stack) = <<>> \o Tail(stack)
    <3>1. stack \in Seq(Frames) /\ stack # <<>>
      BY DEF CoreTypes, Top
    <3> QED BY <3>1
  <2> QED BY <2>1, CallRuns DEF CoreTypes, Call
<1>4. /\ stack' \in Seq(Frames) /\ Len(stack') = Len(stack) - 1
      /\ \A i \in 1 .. Len(stack') : stack'[i] = stack[i + 1] /\ i + 1 \in DOMAIN stack
      /\ DOMAIN stack' = 1 .. Len(stack') /\ Len(stack) \in Nat
      /\ DOMAIN ticks' = DOMAIN ticks
  BY <1>3
<1>5. Places'
  <2>0. Places
    BY DEF EventInv
  <2>1. CloseLast'
    <3> SUFFICES ASSUME NEW i \in DOMAIN stack', stack'[i].f \in Closers
                 PROVE  i = Len(stack') /\ \A j \in DOMAIN ticks' : ticks'[j].f \notin Late
      BY DEF CloseLast
    <3>1. i + 1 \in DOMAIN stack /\ stack[i + 1].f \in Closers /\ i \in Nat
      BY <1>4
    <3>2. i + 1 = Len(stack) /\ \A j \in DOMAIN ticks : ticks[j].f \notin Late
      BY <2>0, <3>1 DEF Places, CloseLast
    <3>3. i = Len(stack')
      BY <1>4, <3>1, <3>2
    <3>4. \A j \in DOMAIN ticks' : ticks'[j].f \notin Late
      BY <1>4, <3>2
    <3> QED BY <3>3, <3>4
  <2>2. CloseTicksLast'
    BY <1>4, <2>0 DEF Places, CloseTicksLast
  <2>3. AtOnceOnly'
    <3> SUFFICES ASSUME NEW i \in DOMAIN stack', stack'[i].f \in Immediate PROVE FALSE
      BY DEF AtOnceOnly
    <3>1. i + 1 \in DOMAIN stack /\ stack[i + 1].f \in Immediate /\ i \in Nat /\ i >= 1
      BY <1>4
    <3> QED BY <2>0, <3>1 DEF Places, AtOnceOnly
  <2>4. CheckLater'
    <3> SUFFICES ASSUME NEW i \in DOMAIN stack', stack'[i].f = "finishMaybeCheck" PROVE st'.finalCalled
      BY DEF CheckLater
    <3>1. i + 1 \in DOMAIN stack /\ stack[i + 1].f = "finishMaybeCheck"
      BY <1>4
    <3> QED BY <1>1, <1>3, <2>0, <3>1 DEF Places, CheckLater
  <2>5. AfterClose'
    BY <1>1, <1>4, <2>0 DEF Places, AfterClose
  <2>6. TickKinds'
    BY <1>4, <2>0 DEF Places, TickKinds
  <2> QED BY <2>1, <2>2, <2>3, <2>4, <2>5, <2>6 DEF Places
<1>6. ASSUME NEW S, S \subseteq Tracked
      PROVE  Held(Of(S))' = Held(Of(S)) /\ Held(Of(S)) \in Nat
  <2>1. Of(S) \in Weights /\ "onwriteSync" \notin S
    BY <1>6, WeightTypes DEF Tracked, Ending, Closing
  <2>2. Total(Of(S), ticks') = Total(Of(S), ticks)
    <3>1. \A i \in 1 .. Len(ticks) : Of(S)[ticks[i]] = Of(S)[ticks'[i]]
      <4> SUFFICES ASSUME NEW i \in 1 .. Len(ticks) PROVE Of(S)[ticks[i]] = Of(S)[ticks'[i]]
        OBVIOUS
      <4>1. ticks[i] \in Frames /\ ticks'[i] \in Frames /\ ticks'[i].f = ticks[i].f
        BY <1>3
      <4> QED BY <4>1 DEF Of
    <3> QED BY <1>3, <2>1, <3>1, TotalAlike
  <2>3. Total(Of(S), stack) = Of(S)[Head(stack)] + Total(Of(S), stack')
    BY <1>3, <2>1, TotalTail
  <2>4. Of(S)[Head(stack)] = 0
    BY <1>3, <2>1 DEF Of
  <2>5. Total(Of(S), stack) \in Nat /\ Total(Of(S), stack') \in Nat /\ Total(Of(S), ticks) \in Nat
    BY <1>3, <1>4, <2>1, TotalNat
  <2> QED BY <2>2, <2>3, <2>4, <2>5 DEF Held
<1>7. Tallies'
  <2>1. \A b : Bit(b) \in Nat
    BY DEF Bit
  <2>2. Bit("final" \in io') <= Bit("final" \in io) /\ Bit("destroy" \in io') <= Bit("destroy" \in io)
        /\ Bit(Ev("finish")') = Bit(Ev("finish"))
    BY <1>1, <1>2 DEF Bit
  <2>3. /\ Held(Of(ToFinish))' = Held(Of(ToFinish)) /\ Held(Of(Ending))' = Held(Of(Ending))
        /\ Held(Of({"emitFinish"}))' = Held(Of({"emitFinish"})) /\ Held(Of(Closing))' = Held(Of(Closing))
        /\ Held(Of(ToFinish)) \in Nat /\ Held(Of(Ending)) \in Nat /\ Held(Of({"emitFinish"})) \in Nat
        /\ Held(Of(Closing)) \in Nat
    BY <1>6, TrackedSets
  <2> DEFINE a == Bit("final" \in io)
             b == Bit("final" \in io')
             c == Bit("destroy" \in io)
             d == Bit("destroy" \in io')
  <2>6. a \in Nat /\ b \in Nat /\ c \in Nat /\ d \in Nat /\ b <= a /\ d <= c
    BY <2>1, <2>2
  <2> HIDE DEF a, b, c, d
  <2>7. /\ Held(Of(ToFinish)) + a <= Bit(st.finalCalled)
        /\ Held(Of(Ending)) + a + Bit(st.finished) <= Bit(st.finalCalled)
        /\ Held(Of({"emitFinish"})) + Bit(Ev("finish")) <= Bit(st.finished)
        /\ Held(Of(Closing)) + c + Bit(st.destroyed /\ ~st.constructed) + Bit(st.closeEmitted)
             <= Bit(st.destroyed)
    BY DEF a, c, EventInv, Tallies, Finishing, FinishedOnce, FinishEmitted, ClosedOnce
  <2> DEFINE h1 == Held(Of(ToFinish))
             h2 == Held(Of(Ending))
             h3 == Held(Of({"emitFinish"}))
             h4 == Held(Of(Closing))
             u == Bit(st.finalCalled)
             v == Bit(st.finished)
             w == Bit(st.destroyed /\ ~st.constructed)
             x == Bit(st.closeEmitted)
             y == Bit(st.destroyed)
  <2>9. /\ h1 + a <= u /\ h2 + a + v <= u /\ h4 + c + w + x <= y
        /\ h1 \in Nat /\ h2 \in Nat /\ h3 \in Nat /\ h4 \in Nat
        /\ u \in Nat /\ v \in Nat /\ w \in Nat /\ x \in Nat /\ y \in Nat
    BY <2>1, <2>3, <2>7
  <2> HIDE DEF h1, h2, h3, h4, u, v, w, x, y
  <2>10. h1 + b <= u /\ h2 + b + v <= u /\ h4 + d + w + x <= y
    BY ONLY <2>6, <2>9
  <2>8. /\ Held(Of(ToFinish))' + b <= Bit(st.finalCalled)
        /\ Held(Of(Ending))' + b + Bit(st.finished) <= Bit(st.finalCalled)
        /\ Held(Of({"emitFinish"}))' + Bit(Ev("finish")) <= Bit(st.finished)
        /\ Held(Of(Closing))' + d + Bit(st.destroyed /\ ~st.constructed) + Bit(st.closeEmitted)
             <= Bit(st.destroyed)
    BY <2>3, <2>7, <2>10 DEF h1, h2, h4, u, v, w, x, y
  <2> QED BY <1>1, <2>2, <2>8 DEF b, d, Tallies, Finishing, FinishedOnce, FinishEmitted, ClosedOnce
<1> QED BY <1>2, <1>5, <1>7 DEF EventInv

\* What follows a _write that called back at once.
LEMMA OnwriteSyncEvents ==
  ASSUME CoreTypes, EventFlags, EventInv, OnwriteSync PROVE EventInv'
<1>0. DOMAIN st = Fields /\ Verdicts \subseteq Fields /\ 1 \in Int
  BY DEF CoreTypes, Verdicts, Fields
<1>1. Top("onwriteSync")
  BY DEF OnwriteSync
<1>2. SameVerdicts
  BY <1>0 DEF OnwriteSync, history, SameVerdicts, Verdicts
<1>3. Head(stack).cb \in Seq(Kinds \cup {"end"})
  BY <1>1, TopFrame DEF Top
<1> DEFINE cb == Head(stack).cb
           a == Fnc("afterWrite", 1, cb)
           b == Fn("finishMaybe", 1)
           c == Fnc("afterWriteTick", 1, cb)
<1>4. \/ Tick(a) /\ Call(<<>>)
      \/ Call(<<b>>) /\ ticks' = ticks
      \/ Tick(c) /\ Call(<<>>)
      \/ ticks' = [ticks EXCEPT ![InfoTick].n = @ + 1] /\ Call(<<>>)
  BY Zenon DEF OnwriteSync
<1>5. a \in QuietFrames /\ b \in QuietFrames /\ c \in QuietFrames
  BY <1>0, <1>3, QuietMade, QuietNamed
<1> HIDE DEF a, b, c
<1>6. CASE ~(ticks' = [ticks EXCEPT ![InfoTick].n = @ + 1] /\ Call(<<>>))
  <2>1. QuietLeaves /\ QuietQueues
    BY <1>4, <1>5, <1>6, QuietWays
  <2>2. Quiet
    BY <1>1, <1>2, <2>1, QuietCall
  <2> QED BY <2>2, QuietEvents
<1>7. CASE ticks' = [ticks EXCEPT ![InfoTick].n = @ + 1] /\ Call(<<>>)
  <2>1. ticks' \in Seq(Frames) /\ Len(ticks') = Len(ticks) /\ \A i \in DOMAIN ticks : ticks'[i].f = ticks[i].f
    BY <1>7, InfoCounts
  <2> QED BY <1>1, <1>2, <1>7, <2>1, RetickEvents
<1> QED BY <1>6, <1>7

\* The loop of afterWrite().
LEMMA QuietAfterWriteLoop ==
  ASSUME CoreTypes, AfterWriteLoop PROVE Quiet
<1>0. DOMAIN st = Fields /\ Verdicts \subseteq Fields /\ 1 \in Int
  BY DEF CoreTypes, Verdicts, Fields
<1>1. Top("afterWriteLoop")
  BY DEF AfterWriteLoop
<1>2. SameVerdicts
  BY <1>0 DEF AfterWriteLoop, history, SameVerdicts, Verdicts
<1>3. /\ Head(stack).cb \in Seq(Kinds \cup {"end"}) /\ Head(stack).n \in Int
      /\ Head(stack) \in Frames /\ Head(stack).f = "afterWriteLoop"
  BY <1>1, TopFrame DEF Top
<1> DEFINE fr == Head(stack)
           a == Fc(fr.cb, FALSE)
           b == [fr EXCEPT !.n = @ - 1]
           c == F("errorBuffer")
           d == Fn("finishMaybe", 1)
<1>4. b \in QuietFrames
  <2>1. b \in Frames /\ b.f = "afterWriteLoop"
    BY <1>3 DEF Frames
  <2> QED BY <2>1, QuietNamed DEF QuietFrames, QuietNames
<1>5. a \in QuietFrames /\ c \in QuietFrames /\ d \in QuietFrames
  BY <1>0, <1>3, QuietMade, QuietNamed
<1>6. \/ Call(<<a, b>>)
      \/ Call(<<c>> \o <<d>>)
      \/ Call(<<>> \o <<d>>)
  BY Zenon DEF AfterWriteLoop
<1>7. ticks' = ticks
  BY DEF AfterWriteLoop
<1> HIDE DEF a, b, c, d
<1>8. <<c>> \o <<d>> = <<c, d>> /\ <<>> \o <<d>> = <<d>>
  <2>1. <<d>> \in Seq(QuietFrames)
    BY <1>5
  <2> QED BY <1>5, <2>1, ConcatTwo
<1> HIDE DEF fr
<1>9. QuietLeaves /\ QuietQueues
  <2>1. Call(<<a, b>>) \/ Call(<<c, d>>) \/ Call(<<d>>)
    BY <1>6, <1>8
  <2>2. QuietLeaves
    BY <1>4, <1>5, <2>1, QuietWays
  <2> QED BY <1>7, <2>2, QuietWays
<1> QED BY <1>1, <1>2, <1>9, QuietCall

\* clearBuffer() and its loop.
LEMMA QuietClear ==
  ASSUME CoreTypes, ClearBuffer \/ ClearBufferLoop PROVE Quiet
<1>0. DOMAIN st = Fields /\ Verdicts \subseteq Fields
  BY DEF CoreTypes, Verdicts, Fields
<1> DEFINE a == F("_write")
           b == F("unsync")
           c == F("clearBufferEnd")
           d == F("clearBufferLoop")
<1>1. a \in QuietFrames /\ b \in QuietFrames /\ c \in QuietFrames /\ d \in QuietFrames
  BY QuietMade, QuietNamed
<1>2. CASE ClearBuffer
  <2>1. Top("clearBuffer") /\ ticks' = ticks /\ io' = io /\ events' = events
    BY <1>2 DEF ClearBuffer
  <2>2. SameVerdicts
    <3>1. \A x \in Verdicts : st'[x] = st[x]
      <4>1. CASE st' = st
        BY <4>1
      <4>2. CASE st' = [st EXCEPT !.bufferProcessing = TRUE, !.failed = <<>>]
        BY <1>0, <4>2 DEF Verdicts
      <4>3. CASE \E l, m, cb : st' = StartWrite([[st EXCEPT !.bufferProcessing = TRUE, !.failed = <<>>]
                                                    EXCEPT !.pendingcb = @ - m], l, cb)
        BY <1>0, <4>3 DEF Verdicts, StartWrite
      <4>4. CASE ~st.destroyed /\ Len(Array) > 1 /\ opt.writev /\ st' # st
        <5> DEFINE s == [st EXCEPT !.bufferProcessing = TRUE, !.failed = <<>>]
                   ks == [i \in DOMAIN Array |-> given[Array[i]]]
                   v == IF \A i \in DOMAIN ks : ks[i] = "nop" THEN <<>> ELSE ks
        <5>1. st' = StartWrite([s EXCEPT !.pendingcb = @ - (Len(Array) - 1)], st.length, v)
          BY <1>2, <4>4, Zenon DEF ClearBuffer
        <5> HIDE DEF v
        <5> QED BY <4>3, <5>1
      <4>5. CASE ~(Len(Array) > 1 /\ opt.writev) /\ st' # st
        <5>1. st' = [st EXCEPT !.bufferProcessing = TRUE, !.failed = <<>>]
          BY <1>2, <4>5, Zenon DEF ClearBuffer
        <5> QED BY <4>2, <5>1
      <4>6. ~st.destroyed \/ st' = st
        BY <1>2, Zenon DEF ClearBuffer
      <4> QED BY <4>1, <4>4, <4>5, <4>6
    <3> QED BY <2>1, <3>1 DEF SameVerdicts
  <2>3. Call(<<>>) \/ Call(<<a, b, c>>) \/ Call(<<d>>)
    BY <1>2, Zenon DEF ClearBuffer
  <2> HIDE DEF a, b, c, d
  <2>4. QuietLeaves /\ QuietQueues
    BY <1>1, <2>1, <2>3, QuietWays
  <2> QED BY <2>1, <2>2, <2>4, QuietCall
<1>3. CASE ClearBufferLoop
  <2>1. Top("clearBufferLoop") /\ ticks' = ticks /\ io' = io /\ events' = events
    BY <1>3 DEF ClearBufferLoop
  <2>2. SameVerdicts
    <3>1. \A x \in Verdicts : st'[x] = st[x]
      BY <1>0, <1>3 DEF ClearBufferLoop, StartWrite, Verdicts
    <3> QED BY <2>1, <3>1 DEF SameVerdicts
  <2>3. Call(<<a, b, d>>) \/ Call(<<c>>)
    BY <1>3, Zenon DEF ClearBufferLoop
  <2> HIDE DEF a, b, c, d
  <2>4. QuietLeaves /\ QuietQueues
    BY <1>1, <2>1, <2>3, QuietWays
  <2> QED BY <2>1, <2>2, <2>4, QuietCall
<1> QED BY <1>2, <1>3

\* write() that is accepted.
LEMMA QuietWrite ==
  ASSUME CoreTypes, NEW k \in Kinds, Write(k), writeOrBuffer(k) PROVE Quiet
<1>0. DOMAIN st = Fields /\ Verdicts \subseteq Fields /\ InUser
  BY DEF CoreTypes, Verdicts, Fields, Write, UserCalls
<1> DEFINE a == F("_write")
           b == F("unsync")
           c == F("writeReturn")
<1>1. a \in QuietFrames /\ b \in QuietFrames /\ c \in QuietFrames
  BY QuietMade, QuietNamed
<1>2. Push(<<c>>) \/ Push(<<a, b, c>>)
  BY Zenon DEF writeOrBuffer
<1>3. SameVerdicts
  <2>1. \A x \in Verdicts : st'[x] = st[x]
    <3>1. CASE MustBuffer
      BY <1>0, <3>1 DEF writeOrBuffer, Verdicts
    <3>2. CASE ~MustBuffer
      BY <1>0, <3>2 DEF writeOrBuffer, StartWrite, Verdicts
    <3> QED BY <3>1, <3>2
  <2>2. io' = io /\ events' = events
    BY DEF Write
  <2> QED BY <2>1, <2>2 DEF SameVerdicts
<1>4. ticks' = ticks
  BY DEF writeOrBuffer
<1> HIDE DEF a, b, c
<1>5. PICK gs \in Seq(QuietFrames) : Push(gs)
  BY <1>1, <1>2, QuietLists
<1>6. gs \in Seq(Frames) /\ <<>> \in Seq(Frames) /\ ticks' = ticks \o <<>> /\ <<>> \in Seq(QuietFrames)
  BY <1>4, MereSeq, TicksRun, QuietLists
<1>7. PICK u \in PlainFrames : u.f = "user" /\ u \in Frames /\ Runs(gs \o <<u>>, <<>>) /\ OnTop \in {"none", "user"}
  BY <1>0, <1>5, <1>6, PushRuns
<1>8. u \in QuietFrames
  BY <1>7, QuietNamed DEF QuietFrames, QuietNames
<1>9. gs \o <<u>> \in Seq(QuietFrames)
  BY <1>8, QuietLists
<1> QED BY <1>3, <1>6, <1>7, <1>9 DEF Quiet

\* The steps that neither end nor close the stream keep the order of the events.
LEMMA OrdinaryEvents ==
  ASSUME SinkInv, EventFlags, EventInv, NEW k \in Kinds, NEW n \in 0 .. 1, NEW er \in BOOLEAN,
         \/ UserReturn \/ WriteReturn \/ EndSetEnding \/ EndCallback \/ ImplWrite \/ Unsync
         \/ RunCallbacks \/ ErrorBuffer \/ ErrorLoop \/ ResetBuffer \/ ClearBufferEnd
         \/ OnFinishError \/ CallFinishedCallbacks \/ ConstructNT
         \/ Onwrite \/ OnwriteSync \/ AfterWriteTick \/ AfterWrite \/ AfterWriteLoop \/ OnwriteError
         \/ ClearBuffer \/ ClearBufferLoop
         \/ Write(k) \/ Cork \/ Uncork \/ End(n) \/ UserDestroy(er) \/ ImplWriteLater(er) \/ ImplConstruct(er)
  PROVE  EventInv'
<1>0. CoreTypes /\ n \in Int
  BY DEF SinkInv
<1>1. CASE \/ UserReturn \/ WriteReturn \/ EndSetEnding \/ EndCallback \/ ImplWrite \/ Unsync
           \/ RunCallbacks \/ ErrorBuffer \/ ResetBuffer \/ ClearBufferEnd
           \/ OnFinishError \/ CallFinishedCallbacks \/ ConstructNT
  BY <1>0, <1>1, MereActions, MereQuiet, QuietEvents
<1>2. CASE Cork \/ Uncork \/ End(n) \/ UserDestroy(er) \/ (Write(k) /\ writeRefused(k))
  BY <1>0, <1>2, MereCalls, MereQuiet, QuietEvents
<1>3. CASE ImplWriteLater(er) \/ ImplConstruct(er) \/ ErrorLoop
  BY <1>0, <1>3, MereCalls, MereQuiet, QuietEvents
<1>4. CASE Onwrite \/ OnwriteError \/ AfterWriteTick \/ AfterWrite
  BY <1>0, <1>4, QuietOnwrite, QuietEvents
<1>5. CASE AfterWriteLoop
  BY <1>0, <1>5, QuietAfterWriteLoop, QuietEvents
<1>6. CASE OnwriteSync
  BY <1>0, <1>6, OnwriteSyncEvents
<1>7. CASE ClearBuffer \/ ClearBufferLoop
  BY <1>0, <1>7, QuietClear, QuietEvents
<1>8. CASE Write(k) /\ writeOrBuffer(k)
  BY <1>0, <1>8, QuietWrite, QuietEvents
<1>9. Write(k) => (Write(k) /\ writeRefused(k)) \/ (Write(k) /\ writeOrBuffer(k))
  BY DEF Write
<1> QED BY <1>1, <1>2, <1>3, <1>4, <1>5, <1>6, <1>7, <1>8, <1>9

(***************************************************************************)
(* The steps that end or close the stream                                  *)
(***************************************************************************)

\* What a step that leaves tracked frames of f and of g adds to a set.
Gain(S, f, g) == Bit(f \in S) + Bit(g \in S) - Bit(OnTop \in S)

\* The tallies after such a step.
LEMMA TalliesKept ==
  ASSUME CoreTypes, Tallies, NEW fs, NEW tk, Runs(fs, tk), NEW f, Carries(fs, f), NEW g, Carries(tk, g)
  PROVE  /\ Gain(ToFinish, f, g) + Bit("final" \in io') + Bit(st.finalCalled)
              <= Bit("final" \in io) + Bit(st'.finalCalled) => Finishing'
         /\ Gain(Ending, f, g) + Bit("final" \in io') + Bit(st'.finished) + Bit(st.finalCalled)
              <= Bit("final" \in io) + Bit(st.finished) + Bit(st'.finalCalled) => FinishedOnce'
         /\ Gain({"emitFinish"}, f, g) + Bit(Ev("finish"))' + Bit(st.finished)
              <= Bit(Ev("finish")) + Bit(st'.finished) => FinishEmitted'
         /\ Gain(Closing, f, g) + Bit("destroy" \in io') + Bit(st'.destroyed /\ ~st'.constructed)
                + Bit(st'.closeEmitted) + Bit(st.destroyed)
              <= Bit("destroy" \in io) + Bit(st.destroyed /\ ~st.constructed)
                + Bit(st.closeEmitted) + Bit(st'.destroyed) => ClosedOnce'
<1>1. \A b : Bit(b) \in Nat
  BY DEF Bit
<1>2. ASSUME NEW S, S \subseteq Tracked
      PROVE  Held(Of(S))' = Held(Of(S)) + Gain(S, f, g) /\ Held(Of(S)) \in Nat /\ Gain(S, f, g) \in Int
  <2>1. /\ Held(Of(S))' = Held(Of(S)) + Bit(f \in S) + Bit(g \in S) - Bit(OnTop \in S)
        /\ Held(Of(S)) \in Nat
    BY <1>2, TallyStep
  <2>2. Bit(f \in S) \in Nat /\ Bit(g \in S) \in Nat /\ Bit(OnTop \in S) \in Nat
    BY <1>1
  <2> QED BY <2>1, <2>2 DEF Gain
<1>3. /\ Bit("final" \in io) \in Nat /\ Bit("final" \in io') \in Nat
      /\ Bit("destroy" \in io) \in Nat /\ Bit("destroy" \in io') \in Nat
      /\ Bit(st.finalCalled) \in Nat /\ Bit(st'.finalCalled) \in Nat
      /\ Bit(st.finished) \in Nat /\ Bit(st'.finished) \in Nat
      /\ Bit(st.destroyed) \in Nat /\ Bit(st'.destroyed) \in Nat
      /\ Bit(st.closeEmitted) \in Nat /\ Bit(st'.closeEmitted) \in Nat
      /\ Bit(Ev("finish")) \in Nat /\ Bit(Ev("finish"))' \in Nat
      /\ Bit(st.destroyed /\ ~st.constructed) \in Nat /\ Bit(st'.destroyed /\ ~st'.constructed) \in Nat
  BY <1>1 DEF Bit
<1>5. ASSUME NEW h \in Nat, NEW h1, NEW d \in Int, h1 = h + d, NEW a \in Nat, NEW b \in Nat,
             NEW c \in Nat, NEW e \in Nat, h + a <= c, d + b + c <= a + e
      PROVE  h1 + b <= e
  BY ONLY <1>5
<1>6. ASSUME Gain(ToFinish, f, g) + Bit("final" \in io') + Bit(st.finalCalled)
               <= Bit("final" \in io) + Bit(st'.finalCalled)
      PROVE  Finishing'
  <2> DEFINE h == Held(Of(ToFinish))
             h1 == Held(Of(ToFinish))'
             d == Gain(ToFinish, f, g)
             a == Bit("final" \in io)
             b == Bit("final" \in io')
             c == Bit(st.finalCalled)
             e == Bit(st'.finalCalled)
  <2>1. h \in Nat /\ d \in Int /\ h1 = h + d
    BY <1>2, TrackedSets
  <2>2. a \in Nat /\ b \in Nat /\ c \in Nat /\ e \in Nat
    BY <1>3
  <2>3. h + a <= c
    BY DEF Tallies, Finishing
  <2>4. d + b + c <= a + e
    BY <1>6
  <2> HIDE DEF h, h1, d, a, b, c, e
  <2>5. h1 + b <= e
    BY ONLY <2>1, <2>2, <2>3, <2>4
  <2> QED BY <2>5 DEF Finishing, h1, b, e
<1>7. ASSUME Gain(Ending, f, g) + Bit("final" \in io') + Bit(st'.finished) + Bit(st.finalCalled)
               <= Bit("final" \in io) + Bit(st.finished) + Bit(st'.finalCalled)
      PROVE  FinishedOnce'
  <2> DEFINE h == Held(Of(Ending))
             h1 == Held(Of(Ending))'
             d == Gain(Ending, f, g)
             a == Bit("final" \in io)
             b == Bit("final" \in io')
             c == Bit(st.finalCalled)
             e == Bit(st'.finalCalled)
             u == Bit(st.finished)
             v == Bit(st'.finished)
  <2>1. h \in Nat /\ d \in Int /\ h1 = h + d
    BY <1>2, TrackedSets
  <2>2. a \in Nat /\ b \in Nat /\ c \in Nat /\ e \in Nat /\ u \in Nat /\ v \in Nat
    BY <1>3
  <2>3. h + a + u <= c
    BY DEF Tallies, FinishedOnce
  <2>4. d + b + v + c <= a + u + e
    BY <1>7
  <2> HIDE DEF h, h1, d, a, b, c, e, u, v
  <2>5. h1 + b + v <= e
    BY ONLY <2>1, <2>2, <2>3, <2>4
  <2> QED BY <2>5 DEF FinishedOnce, h1, b, e, v
<1>8. ASSUME Gain({"emitFinish"}, f, g) + Bit(Ev("finish"))' + Bit(st.finished)
               <= Bit(Ev("finish")) + Bit(st'.finished)
      PROVE  FinishEmitted'
  <2> DEFINE h == Held(Of({"emitFinish"}))
             h1 == Held(Of({"emitFinish"}))'
             d == Gain({"emitFinish"}, f, g)
             a == Bit(Ev("finish"))
             b == Bit(Ev("finish"))'
             c == Bit(st.finished)
             e == Bit(st'.finished)
  <2>1. h \in Nat /\ d \in Int /\ h1 = h + d
    BY <1>2, TrackedSets
  <2>2. a \in Nat /\ b \in Nat /\ c \in Nat /\ e \in Nat
    BY <1>3
  <2>3. h + a <= c
    BY DEF Tallies, FinishEmitted
  <2>4. d + b + c <= a + e
    BY <1>8
  <2> HIDE DEF h, h1, d, a, b, c, e
  <2>5. h1 + b <= e
    BY ONLY <2>1, <2>2, <2>3, <2>4
  <2> QED BY <2>5 DEF FinishEmitted, h1, b, e
<1>9. ASSUME Gain(Closing, f, g) + Bit("destroy" \in io') + Bit(st'.destroyed /\ ~st'.constructed)
                 + Bit(st'.closeEmitted) + Bit(st.destroyed)
               <= Bit("destroy" \in io) + Bit(st.destroyed /\ ~st.constructed)
                 + Bit(st.closeEmitted) + Bit(st'.destroyed)
      PROVE  ClosedOnce'
  <2> DEFINE h == Held(Of(Closing))
             h1 == Held(Of(Closing))'
             d == Gain(Closing, f, g)
             a == Bit("destroy" \in io)
             b == Bit("destroy" \in io')
             c == Bit(st.destroyed)
             e == Bit(st'.destroyed)
             u == Bit(st.destroyed /\ ~st.constructed)
             v == Bit(st'.destroyed /\ ~st'.constructed)
             x == Bit(st.closeEmitted)
             y == Bit(st'.closeEmitted)
  <2>1. h \in Nat /\ d \in Int /\ h1 = h + d
    BY <1>2, TrackedSets
  <2>2. /\ a \in Nat /\ b \in Nat /\ c \in Nat /\ e \in Nat /\ u \in Nat /\ v \in Nat
        /\ x \in Nat /\ y \in Nat
    BY <1>3
  <2>3. h + a + u + x <= c
    BY DEF Tallies, ClosedOnce
  <2>4. d + b + v + y + c <= a + u + x + e
    BY <1>9
  <2> HIDE DEF h, h1, d, a, b, c, e, u, v, x, y
  <2>5. h1 + b + v + y <= e
    BY ONLY <2>1, <2>2, <2>3, <2>4
  <2> QED BY <2>5 DEF ClosedOnce, h1, b, e, v, y
<1> QED BY <1>6, <1>7, <1>8, <1>9

\* Frames that are not marked are none of those with a place of their own.
LEMMA QuietClearOf ==
  ASSUME NEW s \in Seq(QuietFrames)
  PROVE  /\ Carries(s, "none") /\ s \in Seq(Frames)
         /\ \A i \in DOMAIN s : /\ s[i].f \notin Closers /\ s[i].f \notin Immediate
                                /\ s[i].f # "finishMaybeCheck" /\ s[i].f \notin NotClosed
                                /\ s[i].f \notin Late /\ s[i].f \notin NoTicks
<1>1. Carries(s, "none") /\ s \in Seq(Frames) /\ \A i \in DOMAIN s : s[i].f \notin Marked
  BY QuietCarries
<1> QED BY <1>1, TrackedSets

\* Lists of one and of two frames.
LEMMA ShortParts ==
  /\ \A x : DOMAIN <<x>> = {1} /\ <<x>>[1] = x /\ Len(<<x>>) = 1
  /\ \A x, y : DOMAIN <<x, y>> = {1, 2} /\ <<x, y>>[1] = x /\ <<x, y>>[2] = y /\ Len(<<x, y>>) = 2
  /\ DOMAIN <<>> = {}
OBVIOUS

\* What short lists carry.
LEMMA ShortCarries ==
  /\ Carries(<<>>, "none")
  /\ \A x \in Frames : Carries(<<x>>, x.f)
  /\ \A x, y \in Frames : x.f \notin Tracked => Carries(<<x, y>>, y.f)
  /\ \A x, y \in Frames : y.f \notin Tracked => Carries(<<x, y>>, x.f)
<1>1. "none" \notin Tracked
  BY DEF Tracked, Ending, Closing
<1>2. Carries(<<>>, "none")
  BY <1>1, FrameLists, ShortParts DEF Carries
<1>3. ASSUME NEW x \in Frames PROVE Carries(<<x>>, x.f)
  BY FrameLists, ShortParts DEF Carries
<1>4. ASSUME NEW x \in Frames, NEW y \in Frames, x.f \notin Tracked PROVE Carries(<<x, y>>, y.f)
  <2> DEFINE s == <<x, y>>
  <2>1. s \in Seq(Frames) /\ DOMAIN s = {1, 2} /\ s[1] = x /\ s[2] = y
    BY FrameLists, ShortParts
  <2> HIDE DEF s
  <2>2. Carries(s, y.f)
    BY <1>4, <2>1 DEF Carries
  <2> QED BY <2>2 DEF s
<1>5. ASSUME NEW x \in Frames, NEW y \in Frames, y.f \notin Tracked PROVE Carries(<<x, y>>, x.f)
  <2> DEFINE s == <<x, y>>
  <2>1. s \in Seq(Frames) /\ DOMAIN s = {1, 2} /\ s[1] = x /\ s[2] = y
    BY FrameLists, ShortParts
  <2> HIDE DEF s
  <2>2. Carries(s, x.f)
    BY <1>5, <2>1 DEF Carries
  <2> QED BY <2>2 DEF s
<1> QED BY <1>2, <1>3, <1>4, <1>5

\* The function on top is counted.
LEMMA HolderOne ==
  ASSUME CoreTypes, NEW S, stack # <<>>, OnTop \in S
  PROVE  Held(Of(S)) \in Nat /\ Held(Of(S)) >= 1
<1>1. /\ stack \in Seq(Frames) /\ ticks \in Seq(Frames) /\ Of(S) \in Weights
      /\ 1 \in 1 .. Len(stack) /\ stack[1] = Head(stack) /\ stack[1] \in Frames /\ Head(stack).f \in S
  BY WeightTypes DEF CoreTypes, OnTop
<1>2. Of(S)[stack[1]] = 1
  BY <1>1 DEF Of
<1>3. Total(Of(S), stack) >= 1
  <2>1. Of(S)[stack[1]] <= Total(Of(S), stack) /\ Total(Of(S), stack) \in Nat
    BY <1>1, TotalPart, TotalNat
  <2> QED BY <1>2, <2>1
<1>4. Total(Of(S), stack) \in Nat /\ Total(Of(S), ticks) \in Nat
  BY <1>1, TotalNat
<1> QED BY <1>3, <1>4 DEF Held

\* A step that changes none of what the events depend on.
Steady == (\A x \in Verdicts : st'[x] = st[x]) /\ events' = events /\ OnTop # "prefinish"

\* It leaves the flags.
LEMMA SteadyFlags ==
  ASSUME Steady
  PROVE  /\ st'.finalCalled = st.finalCalled /\ st'.finished = st.finished /\ st'.prefinished = st.prefinished
         /\ st'.destroyed = st.destroyed /\ st'.constructed = st.constructed
         /\ st'.closeEmitted = st.closeEmitted /\ st'.errorEmitted = st.errorEmitted
         /\ events' = events /\ OnTop # "prefinish"
BY DEF Steady, Verdicts

\* The tallies after a step that leaves the flags.
LEMMA SteadyTallies ==
  ASSUME CoreTypes, Tallies, Steady, NEW fs, NEW tk, Runs(fs, tk), NEW f, Carries(fs, f), NEW g, Carries(tk, g)
  PROVE  /\ Gain(ToFinish, f, g) + Bit("final" \in io') <= Bit("final" \in io) => Finishing'
         /\ Gain(Ending, f, g) + Bit("final" \in io') <= Bit("final" \in io) => FinishedOnce'
         /\ Gain({"emitFinish"}, f, g) <= 0 => FinishEmitted'
         /\ Gain(Closing, f, g) + Bit("destroy" \in io') <= Bit("destroy" \in io) => ClosedOnce'
<1>1. /\ st'.finalCalled = st.finalCalled /\ st'.finished = st.finished
      /\ st'.destroyed = st.destroyed /\ st'.constructed = st.constructed
      /\ st'.closeEmitted = st.closeEmitted
  BY SteadyFlags
<1>2. Bit(Ev("finish"))' = Bit(Ev("finish"))
  BY DEF Steady, Ev, Bit
<1>3. \A b : Bit(b) \in Nat
  BY DEF Bit
<1>4. ASSUME NEW S PROVE Gain(S, f, g) \in Int
  <2>1. Bit(f \in S) \in Nat /\ Bit(g \in S) \in Nat /\ Bit(OnTop \in S) \in Nat
    BY <1>3
  <2> QED BY <2>1 DEF Gain
<1>5. /\ Bit("final" \in io) \in Nat /\ Bit("final" \in io') \in Nat
      /\ Bit("destroy" \in io) \in Nat /\ Bit("destroy" \in io') \in Nat
      /\ Bit(st.finalCalled) \in Nat /\ Bit(st.finished) \in Nat /\ Bit(st.destroyed) \in Nat
      /\ Bit(st.closeEmitted) \in Nat /\ Bit(Ev("finish")) \in Nat
      /\ Bit(st.destroyed /\ ~st.constructed) \in Nat
  BY <1>3
<1>6. \A d \in Int, a, b, c \in Nat : d + b <= a => d + b + c <= a + c
  OBVIOUS
<1>7. \A d \in Int, a, b, c, e \in Nat : d + b <= a => d + b + c + e <= a + c + e
  OBVIOUS
<1>8. \A d \in Int, a, b, c, e, u \in Nat : d + b <= a => d + b + c + e + u <= a + c + e + u
  OBVIOUS
<1>9. \A d \in Int, a, b \in Nat : d <= 0 => d + a + b <= a + b
  OBVIOUS
<1>10. ASSUME Gain(ToFinish, f, g) + Bit("final" \in io') <= Bit("final" \in io) PROVE Finishing'
  <2>1. Gain(ToFinish, f, g) + Bit("final" \in io') + Bit(st.finalCalled)
          <= Bit("final" \in io) + Bit(st.finalCalled)
    BY <1>4, <1>5, <1>6, <1>10
  <2> QED BY <1>1, <2>1, TalliesKept
<1>11. ASSUME Gain(Ending, f, g) + Bit("final" \in io') <= Bit("final" \in io) PROVE FinishedOnce'
  <2>1. Gain(Ending, f, g) + Bit("final" \in io') + Bit(st.finished) + Bit(st.finalCalled)
          <= Bit("final" \in io) + Bit(st.finished) + Bit(st.finalCalled)
    BY <1>4, <1>5, <1>7, <1>11
  <2> QED BY <1>1, <2>1, TalliesKept
<1>12. ASSUME Gain({"emitFinish"}, f, g) <= 0 PROVE FinishEmitted'
  <2>1. Gain({"emitFinish"}, f, g) + Bit(Ev("finish")) + Bit(st.finished) <= Bit(Ev("finish")) + Bit(st.finished)
    BY <1>4, <1>5, <1>9, <1>12
  <2> QED BY <1>1, <1>2, <2>1, TalliesKept
<1>13. ASSUME Gain(Closing, f, g) + Bit("destroy" \in io') <= Bit("destroy" \in io) PROVE ClosedOnce'
  <2>1. Gain(Closing, f, g) + Bit("destroy" \in io') + Bit(st.destroyed /\ ~st.constructed)
              + Bit(st.closeEmitted) + Bit(st.destroyed)
          <= Bit("destroy" \in io) + Bit(st.destroyed /\ ~st.constructed) + Bit(st.closeEmitted) + Bit(st.destroyed)
    BY <1>4, <1>5, <1>8, <1>13
  <2> QED BY <1>1, <2>1, TalliesKept
<1> QED BY <1>10, <1>11, <1>12, <1>13

\* Such a step keeps the invariant when the tallies and the places are right.
LEMMA SteadyEvents ==
  ASSUME CoreTypes, EventFlags, EventInv, Steady, NEW fs, NEW tk, Runs(fs, tk), Leave(fs, tk), Tallies'
  PROVE  EventInv'
<1>1. Records' /\ EventsOrdered'
  <2>1. st.prefinished => st.finalCalled
    BY DEF EventInv, Records
  <2> QED BY <2>1, SteadyFlags, EventsSame DEF EventInv
<1>2. Places'
  BY PlacesKept DEF EventInv, Tallies
<1> QED BY <1>1, <1>2 DEF EventInv

\* What is left for Leave to say of such a step, and of quiet frames and ticks.
LEMMA SteadyLeave ==
  ASSUME Steady
  PROVE  /\ st.finalCalled \/ OnTop = "prefinish" => st'.finalCalled
         /\ st'.closeEmitted => st.closeEmitted \/ (Len(stack) <= 1 /\ \A j \in DOMAIN ticks : ticks[j].f \notin Late)
BY SteadyFlags

\* Frames that run for themselves.
LEMMA PlainLeave ==
  ASSUME st.finalCalled \/ OnTop = "prefinish" => st'.finalCalled,
         st'.closeEmitted => st.closeEmitted \/ (Len(stack) <= 1 /\ \A j \in DOMAIN ticks : ticks[j].f \notin Late),
         NEW fs, \A i \in DOMAIN fs : /\ fs[i].f \notin Closers /\ fs[i].f \notin Immediate
                                      /\ fs[i].f # "finishMaybeCheck" /\ fs[i].f \notin NotClosed,
         NEW tk, \A i \in DOMAIN tk : tk[i].f \notin NoTicks /\ tk[i].f \notin Late
  PROVE  Leave(fs, tk)
BY DEF Leave

\* _final() and _destroy() call back, or keep the callback.
LEMMA ImplEvents ==
  ASSUME CoreTypes, EventFlags, EventInv, NEW er \in BOOLEAN,
         ImplFinal \/ ImplDestroy \/ ImplFinalLater(er) \/ ImplDestroyLater(er)
  PROVE  EventInv'
<1>1. /\ "onFinish" \in Functions /\ "onDestroy" \in Functions
      /\ "onFinish" \notin Closers \cup Immediate \cup NotClosed
      /\ "onDestroy" \notin Closers \cup Immediate \cup NotClosed
  BY DEF Functions, Closers, Immediate, NotClosed
<1>2. ASSUME NEW f \in {"onFinish", "onDestroy"}, NEW e \in BOOLEAN
      PROVE  /\ Fe(f, e) \in Frames /\ Fe(f, e).f = f /\ <<Fe(f, e)>> \in Seq(Frames) /\ Carries(<<Fe(f, e)>>, f)
             /\ \A i \in DOMAIN <<Fe(f, e)>> :
                  /\ <<Fe(f, e)>>[i].f \notin Closers /\ <<Fe(f, e)>>[i].f \notin Immediate
                  /\ <<Fe(f, e)>>[i].f # "finishMaybeCheck" /\ <<Fe(f, e)>>[i].f \notin NotClosed
  <2> DEFINE x == Fe(f, e)
  <2>1. x \in Frames /\ x.f = f
    <3>1. f \in Functions /\ 0 \in Int /\ <<>> \in Seq(Kinds \cup {"end"})
      BY <1>1
    <3> QED BY <3>1, FrameTypes, FrameNames
  <2> HIDE DEF x
  <2>2. <<x>> \in Seq(Frames) /\ Carries(<<x>>, f) /\ DOMAIN <<x>> = {1} /\ <<x>>[1] = x
    BY <2>1, FrameLists, ShortCarries, ShortParts
  <2>3. \A i \in DOMAIN <<x>> : /\ <<x>>[i].f \notin Closers /\ <<x>>[i].f \notin Immediate
                                /\ <<x>>[i].f # "finishMaybeCheck" /\ <<x>>[i].f \notin NotClosed
    BY <1>1, <2>1, <2>2
  <2> QED BY <2>1, <2>2, <2>3 DEF x
<1>3. ticks' = ticks /\ st' = st /\ events' = events
  BY DEF ImplFinal, ImplDestroy, ImplFinalLater, ImplDestroyLater, history
<1>4. Steady
  <2>1. OnTop # "prefinish"
    BY DEF ImplFinal, ImplDestroy, ImplFinalLater, ImplDestroyLater, Top, OnTop
  <2> QED BY <1>3, <2>1 DEF Steady
<1>5. /\ <<>> \in Seq(Frames) /\ ticks' = ticks \o <<>> /\ Carries(<<>>, "none") /\ DOMAIN <<>> = {}
  BY <1>3, TicksRun, ShortCarries, ShortParts
<1>6. \A b : Bit(b) \in Nat
  BY DEF Bit
<1>7. CASE ImplFinal \/ ImplFinalLater(er)
  <2>1. PICK fs, f : /\ Runs(fs, <<>>) /\ Carries(fs, f) /\ Leave(fs, <<>>)
                     /\ f \in {"onFinish", "none"}
                     /\ \/ f = "onFinish" /\ OnTop = "_final" /\ io' = io
                        \/ f = "none" /\ OnTop = "_final"
                        \/ f = "onFinish" /\ OnTop = "none" /\ "final" \in io /\ io' = io \ {"final"}
    <3>1. ASSUME NEW e \in BOOLEAN, Top("_final"), Call(<<Fe("onFinish", e)>>)
          PROVE  Runs(<<Fe("onFinish", e)>>, <<>>) /\ Leave(<<Fe("onFinish", e)>>, <<>>) /\ OnTop = "_final"
      <4>1. Runs(<<Fe("onFinish", e)>>, <<>>) /\ OnTop = "_final"
        BY <1>2, <1>5, <3>1, CallRuns DEF Runs
      <4>2. Leave(<<Fe("onFinish", e)>>, <<>>)
        BY <1>2, <1>4, <1>5, SteadyLeave, PlainLeave
      <4> QED BY <4>1, <4>2
    <3>2. ASSUME Top("_final"), Call(<<>>)
          PROVE  Runs(<<>>, <<>>) /\ Leave(<<>>, <<>>) /\ OnTop = "_final"
      <4>1. Runs(<<>>, <<>>) /\ OnTop = "_final"
        BY <1>5, <3>2, CallRuns DEF Runs
      <4>2. Leave(<<>>, <<>>)
        BY <1>4, <1>5, SteadyLeave, PlainLeave
      <4> QED BY <4>1, <4>2
    <3>3. CASE ImplFinal
      <4>1. Top("_final") /\ \/ \E e \in BOOLEAN : Call(<<Fe("onFinish", e)>>) /\ io' = io
                             \/ Call(<<>>)
        BY <3>3 DEF ImplFinal
      <4>2. CASE \E e \in BOOLEAN : Call(<<Fe("onFinish", e)>>) /\ io' = io
        <5>1. PICK e \in BOOLEAN : Call(<<Fe("onFinish", e)>>) /\ io' = io
          BY <4>2
        <5> QED BY <1>2, <3>1, <4>1, <5>1
      <4>3. CASE Call(<<>>)
        BY <1>5, <3>2, <4>1, <4>3
      <4> QED BY <4>1, <4>2, <4>3
    <3>4. CASE ImplFinalLater(er)
      <4>1. stack = <<>> /\ stack' = <<Fe("onFinish", er)>> /\ "final" \in io /\ io' = io \ {"final"}
        BY <3>4 DEF ImplFinalLater
      <4>2. Runs(<<Fe("onFinish", er)>>, <<>>) /\ OnTop = "none"
        BY <1>2, <1>5, <4>1, TaskRuns
      <4>3. Leave(<<Fe("onFinish", er)>>, <<>>)
        BY <1>2, <1>4, <1>5, SteadyLeave, PlainLeave
      <4> QED BY <1>2, <4>1, <4>2, <4>3
    <3> QED BY <1>7, <3>3, <3>4
  <2>2. Tallies'
    <3>0. io' = io \/ io' = io \cup {"final"} \/ io' = io \ {"final"}
      BY <1>7, Zenon DEF ImplFinal, ImplFinalLater
    <3>1. "destroy" \in io' => "destroy" \in io
      BY <3>0
    <3>2. Bit("destroy" \in io') <= Bit("destroy" \in io)
      BY <3>1 DEF Bit
    <3>3. /\ Gain(ToFinish, f, "none") + Bit("final" \in io') <= Bit("final" \in io)
          /\ Gain(Ending, f, "none") + Bit("final" \in io') <= Bit("final" \in io)
      BY <2>1 DEF Gain, Bit, ToFinish, Ending
    <3>4. Gain({"emitFinish"}, f, "none") = 0 /\ Gain(Closing, f, "none") = 0
      BY <2>1 DEF Gain, Bit, Closing
    <3>5. Bit("destroy" \in io') \in Nat /\ Bit("destroy" \in io) \in Nat
      BY <1>6
    <3>6. Gain(Closing, f, "none") + Bit("destroy" \in io') <= Bit("destroy" \in io)
      BY <3>2, <3>4, <3>5
    <3> QED BY <1>4, <1>5, <2>1, <3>3, <3>4, <3>6, SteadyTallies DEF EventInv, Tallies
  <2> QED BY <1>4, <2>1, <2>2, SteadyEvents
<1>8. CASE ImplDestroy \/ ImplDestroyLater(er)
  <2>1. PICK fs, f : /\ Runs(fs, <<>>) /\ Carries(fs, f) /\ Leave(fs, <<>>)
                     /\ f \in {"onDestroy", "none"}
                     /\ \/ f = "onDestroy" /\ OnTop = "_destroy" /\ io' = io
                        \/ f = "none" /\ OnTop = "_destroy"
                        \/ f = "onDestroy" /\ OnTop = "none" /\ "destroy" \in io /\ io' = io \ {"destroy"}
    <3>1. ASSUME NEW e \in BOOLEAN, Top("_destroy"), Call(<<Fe("onDestroy", e)>>)
          PROVE  Runs(<<Fe("onDestroy", e)>>, <<>>) /\ Leave(<<Fe("onDestroy", e)>>, <<>>) /\ OnTop = "_destroy"
      <4>1. Runs(<<Fe("onDestroy", e)>>, <<>>) /\ OnTop = "_destroy"
        BY <1>2, <1>5, <3>1, CallRuns DEF Runs
      <4>2. Leave(<<Fe("onDestroy", e)>>, <<>>)
        BY <1>2, <1>4, <1>5, SteadyLeave, PlainLeave
      <4> QED BY <4>1, <4>2
    <3>2. ASSUME Top("_destroy"), Call(<<>>)
          PROVE  Runs(<<>>, <<>>) /\ Leave(<<>>, <<>>) /\ OnTop = "_destroy"
      <4>1. Runs(<<>>, <<>>) /\ OnTop = "_destroy"
        BY <1>5, <3>2, CallRuns DEF Runs
      <4>2. Leave(<<>>, <<>>)
        BY <1>4, <1>5, SteadyLeave, PlainLeave
      <4> QED BY <4>1, <4>2
    <3>3. CASE ImplDestroy
      <4>1. Top("_destroy") /\ \/ \E e \in {Head(stack).er, TRUE} : Call(<<Fe("onDestroy", e)>>) /\ io' = io
                               \/ Call(<<>>)
        BY <3>3 DEF ImplDestroy
      <4>2. CASE \E e \in {Head(stack).er, TRUE} : Call(<<Fe("onDestroy", e)>>) /\ io' = io
        <5>1. Head(stack).er \in BOOLEAN
          BY <4>1, TopFrame DEF Top
        <5>2. PICK e \in BOOLEAN : Call(<<Fe("onDestroy", e)>>) /\ io' = io
          BY <4>2, <5>1
        <5> QED BY <1>2, <3>1, <4>1, <5>2
      <4>3. CASE Call(<<>>)
        BY <1>5, <3>2, <4>1, <4>3
      <4> QED BY <4>1, <4>2, <4>3
    <3>4. CASE ImplDestroyLater(er)
      <4>1. stack = <<>> /\ stack' = <<Fe("onDestroy", er)>> /\ "destroy" \in io /\ io' = io \ {"destroy"}
        BY <3>4 DEF ImplDestroyLater
      <4>2. Runs(<<Fe("onDestroy", er)>>, <<>>) /\ OnTop = "none"
        BY <1>2, <1>5, <4>1, TaskRuns
      <4>3. Leave(<<Fe("onDestroy", er)>>, <<>>)
        BY <1>2, <1>4, <1>5, SteadyLeave, PlainLeave
      <4> QED BY <1>2, <4>1, <4>2, <4>3
    <3> QED BY <1>8, <3>3, <3>4
  <2>2. Tallies'
    <3>0. io' = io \/ io' = io \cup {"destroy"} \/ io' = io \ {"destroy"}
      BY <1>8, Zenon DEF ImplDestroy, ImplDestroyLater
    <3>1. "final" \in io' => "final" \in io
      BY <3>0
    <3>2. Bit("final" \in io') <= Bit("final" \in io)
      BY <3>1 DEF Bit
    <3>3. Gain(Closing, f, "none") + Bit("destroy" \in io') <= Bit("destroy" \in io)
      BY <2>1 DEF Gain, Bit, Closing
    <3>4. /\ Gain({"emitFinish"}, f, "none") = 0 /\ Gain(ToFinish, f, "none") = 0
          /\ Gain(Ending, f, "none") = 0
      BY <2>1 DEF Gain, Bit, ToFinish, Ending
    <3>5. Bit("final" \in io') \in Nat /\ Bit("final" \in io) \in Nat
      BY <1>6
    <3>6. /\ Gain(ToFinish, f, "none") + Bit("final" \in io') <= Bit("final" \in io)
          /\ Gain(Ending, f, "none") + Bit("final" \in io') <= Bit("final" \in io)
      BY <3>2, <3>4, <3>5
    <3> QED BY <1>4, <1>5, <2>1, <3>3, <3>4, <3>6, SteadyTallies DEF EventInv, Tallies
  <2> QED BY <1>4, <2>1, <2>2, SteadyEvents
<1> QED BY <1>7, <1>8

\* Sets of which no frame is left hold nothing.
LEMMA HeldZero ==
  ASSUME CoreTypes, NEW S, \A i \in DOMAIN stack : stack[i].f \notin S, \A i \in DOMAIN ticks : ticks[i].f \notin S
  PROVE  Held(Of(S)) = 0
<1>1. stack \in Seq(Frames) /\ ticks \in Seq(Frames) /\ Of(S) \in Weights
  BY WeightTypes DEF CoreTypes
<1>2. ASSUME NEW s \in Seq(Frames), \A i \in DOMAIN s : s[i].f \notin S PROVE Total(Of(S), s) = 0
  <2>1. \A i \in 1 .. Len(s) : Of(S)[s[i]] = 0
    <3> SUFFICES ASSUME NEW i \in 1 .. Len(s) PROVE Of(S)[s[i]] = 0
      OBVIOUS
    <3>1. s[i] \in Frames /\ s[i].f \notin S
      BY <1>2
    <3> QED BY <3>1 DEF Of
  <2> QED BY <1>1, <2>1, TotalZero
<1>3. Total(Of(S), stack) = 0 /\ Total(Of(S), ticks) = 0
  BY <1>1, <1>2
<1> QED BY <1>3 DEF Held

\* When nothing is pending, no function is left that goes on to 'finish', and
\* neither is _final().
LEMMA NothingOwed ==
  ASSUME CoreTypes, PendingCounted, Places, stack # <<>>, OnTop = "finishMaybeCheck", st.pendingcb = 0
  PROVE  /\ Held(Of(ToFinish)) = 0 /\ Held(Of(Ending)) = 0
         /\ "final" \notin io /\ st.finalCalled
<1>1. stack \in Seq(Frames) /\ ticks \in Seq(Frames) /\ Pays \in Weights /\ buffer \in Seq(Nat)
  BY WeightTypes DEF CoreTypes
<1>2. Total(Pays, stack) \in Nat /\ Total(Pays, ticks) \in Nat /\ Len(buffer) \in Nat
  BY <1>1, TotalNat
<1>3. Bit(st.expectWriteCb) \in Nat /\ Bit("final" \in io) \in Nat
  BY DEF Bit
<1>4. Len(buffer) + Bit(st.expectWriteCb) + (Total(Pays, stack) + Total(Pays, ticks)) + Bit("final" \in io) <= 0
  BY DEF PendingCounted, Owes, Held
<1>5. Total(Pays, stack) = 0 /\ Total(Pays, ticks) = 0 /\ Bit("final" \in io) = 0
  BY <1>2, <1>3, <1>4
<1>6. ASSUME NEW s \in Seq(Frames), Total(Pays, s) = 0, NEW i \in DOMAIN s PROVE s[i].f \notin Ones
  <2>1. i \in 1 .. Len(s) /\ s[i] \in Frames
    BY <1>6
  <2>2. Pays[s[i]] <= 0
    BY <1>1, <1>6, <2>1, TotalPart
  <2> QED BY <2>1, <2>2 DEF Pays
<1>7. stack[1].f = "finishMaybeCheck" /\ 1 \in DOMAIN stack
  BY <1>1 DEF OnTop
<1>8. \A i \in DOMAIN stack : stack[i].f # "onFinishTick"
  BY <1>7 DEF Places, AtOnceOnly, Immediate
<1>9. \A i \in DOMAIN ticks : ticks[i].f # "onFinishTick"
  BY DEF Places, TickKinds, NoTicks
<1>10. /\ \A i \in DOMAIN stack : stack[i].f \notin ToFinish
       /\ \A i \in DOMAIN ticks : ticks[i].f \notin ToFinish
  BY <1>1, <1>5, <1>6, <1>8, <1>9 DEF ToFinish, Ending, Ones
<1>11. /\ \A i \in DOMAIN stack : stack[i].f \notin Ending
       /\ \A i \in DOMAIN ticks : ticks[i].f \notin Ending
  BY <1>10 DEF ToFinish
<1>12. Held(Of(ToFinish)) = 0 /\ Held(Of(Ending)) = 0
  BY <1>10, <1>11, HeldZero
<1>13. "final" \notin io
  BY <1>5 DEF Bit
<1>14. st.finalCalled
  BY <1>7 DEF Places, CheckLater
<1> QED BY <1>12, <1>13, <1>14

\* A function that leaves nothing that ends or closes the stream.
LEMMA QuietLeaving ==
  ASSUME CoreTypes, EventFlags, EventInv, NEW f, Top(f), f # "prefinish", SameVerdicts, QuietLeaves, QuietQueues
  PROVE  EventInv'
BY QuietCall, QuietEvents

\* A function that changes none of what the events depend on.
LEMMA SteadyCall ==
  ASSUME CoreTypes, NEW t, Top(t), t # "prefinish", \A x \in Verdicts : st'[x] = st[x], events' = events,
         NEW fs \in Seq(Frames), Call(fs), NEW tk \in Seq(Frames), ticks' = ticks \o tk
  PROVE  Steady /\ Runs(fs, tk) /\ OnTop = t /\ stack # <<>>
<1>1. Shifted(fs) /\ OnTop = t /\ stack # <<>>
  BY CallRuns
<1> QED BY <1>1 DEF Steady, Runs

\* finishMaybe() prefinishes before it looks at pendingcb.
LEMMA FinishMaybeEvents ==
  ASSUME CoreTypes, EventFlags, EventInv, FinishMaybe PROVE EventInv'
<1>1. Top("finishMaybe") /\ st' = st /\ ticks' = ticks /\ io' = io /\ events' = events
  BY DEF FinishMaybe, history
<1>2. SameVerdicts
  BY <1>1 DEF SameVerdicts
<1>3. CASE ~needFinish(st)
  <2>1. Call(<<>>)
    BY <1>3 DEF FinishMaybe
  <2>2. QuietLeaves /\ QuietQueues
    BY <1>1, <2>1, QuietWays
  <2> QED BY <1>1, <1>2, <2>2, QuietLeaving
<1>4. CASE needFinish(st)
  <2> DEFINE x == F("prefinish")
             y == Fn("finishMaybeCheck", Head(stack).n)
             fs == <<x, y>>
  <2>1. Call(fs)
    BY <1>4 DEF FinishMaybe
  <2>2. x \in Frames /\ x.f = "prefinish" /\ y \in Frames /\ y.f = "finishMaybeCheck"
    <3>1. Head(stack).n \in Int
      BY <1>1, TopFrame DEF Top
    <3>2. "prefinish" \in Functions /\ "finishMaybeCheck" \in Functions /\ TRUE \in BOOLEAN
          /\ <<>> \in Seq(Kinds \cup {"end"})
      BY DEF Functions
    <3> QED BY <3>1, <3>2, FrameTypes, FrameNames
  <2> HIDE DEF x, y
  <2>3. fs \in Seq(Frames) /\ DOMAIN fs = {1, 2} /\ fs[1] = x /\ fs[2] = y
    BY <2>2, FrameLists, ShortParts
  <2>4. Carries(fs, "finishMaybeCheck") /\ Carries(<<>>, "none") /\ DOMAIN <<>> = {}
    BY <2>2, ShortCarries, ShortParts DEF Tracked, Ending, Closing
  <2>5. <<>> \in Seq(Frames) /\ ticks' = ticks \o <<>>
    BY <1>1, TicksRun
  <2> HIDE DEF fs
  <2>6. Steady /\ Runs(fs, <<>>) /\ OnTop = "finishMaybe"
    BY <1>1, <2>1, <2>3, <2>5, SteadyCall
  <2>7. Leave(fs, <<>>)
    <3>1. ~st.destroyed /\ ~st.closeEmitted /\ st'.destroyed = st.destroyed /\ st'.closeEmitted = st.closeEmitted
      BY <1>1, <1>4 DEF needFinish
    <3>2. fs[1].f = "prefinish" /\ fs[2].f = "finishMaybeCheck"
      BY <2>2, <2>3
    <3>3. fs[1].f \notin Closers /\ fs[2].f \notin Closers /\ fs[2].f \notin Immediate
      BY <3>2 DEF Closers, Immediate
    <3> QED BY <2>3, <2>4, <2>6, <3>1, <3>2, <3>3, SteadyLeave DEF Leave
  <2>8. Tallies'
    <3>1. /\ Gain(ToFinish, "finishMaybeCheck", "none") = 0 /\ Gain(Ending, "finishMaybeCheck", "none") = 0
          /\ Gain({"emitFinish"}, "finishMaybeCheck", "none") = 0
          /\ Gain(Closing, "finishMaybeCheck", "none") = 0
      BY <2>6 DEF Gain, Bit, ToFinish, Ending, Closing
    <3>2. Bit("final" \in io) \in Nat /\ Bit("destroy" \in io) \in Nat
      BY DEF Bit
    <3>3. /\ Gain(ToFinish, "finishMaybeCheck", "none") + Bit("final" \in io) <= Bit("final" \in io)
          /\ Gain(Ending, "finishMaybeCheck", "none") + Bit("final" \in io) <= Bit("final" \in io)
          /\ Gain({"emitFinish"}, "finishMaybeCheck", "none") <= 0
          /\ Gain(Closing, "finishMaybeCheck", "none") + Bit("destroy" \in io) <= Bit("destroy" \in io)
      BY <3>1, <3>2
    <3> QED BY <1>1, <2>4, <2>6, <3>3, SteadyTallies DEF EventInv, Tallies
  <2> QED BY <2>6, <2>7, <2>8, SteadyEvents
<1> QED BY <1>3, <1>4

\* finishNT is alone on the way to 'finish'.
LEMMA FinishAlone ==
  ASSUME CoreTypes, EventFlags, Finishing, stack # <<>>, OnTop = "finishNT"
  PROVE  Held(Of(Ending)) = 0 /\ "final" \notin io /\ st.finalCalled
<1>1. /\ stack \in Seq(Frames) /\ ticks \in Seq(Frames) /\ Of(ToFinish) \in Weights
      /\ Head(stack) \in Frames /\ Tail(stack) \in Seq(Frames) /\ Head(stack).f = "finishNT"
  BY WeightTypes DEF CoreTypes, OnTop
<1>2. Total(Of(ToFinish), stack) = 1 + Total(Of(ToFinish), Tail(stack))
  <2>1. Of(ToFinish)[Head(stack)] = 1
    BY <1>1 DEF Of, ToFinish
  <2> QED BY <1>1, <2>1, TotalTail
<1>3. Total(Of(ToFinish), Tail(stack)) \in Nat /\ Total(Of(ToFinish), ticks) \in Nat
  BY <1>1, TotalNat
<1>4. Bit("final" \in io) \in Nat /\ Bit(st.finalCalled) \in 0 .. 1
  BY DEF Bit
<1>5. 1 + Total(Of(ToFinish), Tail(stack)) + Total(Of(ToFinish), ticks) + Bit("final" \in io) <= Bit(st.finalCalled)
  BY <1>2 DEF Finishing, Held
<1>6. /\ Total(Of(ToFinish), Tail(stack)) = 0 /\ Total(Of(ToFinish), ticks) = 0
      /\ Bit("final" \in io) = 0 /\ Bit(st.finalCalled) = 1
  BY <1>3, <1>4, <1>5
<1>7. ASSUME NEW s \in Seq(Frames), Total(Of(ToFinish), s) = 0, NEW i \in DOMAIN s PROVE s[i].f \notin Ending
  <2>1. i \in 1 .. Len(s) /\ s[i] \in Frames
    BY <1>7
  <2>2. Of(ToFinish)[s[i]] <= 0
    BY <1>1, <1>7, <2>1, TotalPart
  <2> QED BY <2>1, <2>2 DEF Of, ToFinish
<1>8. \A i \in DOMAIN stack : stack[i].f \notin Ending
  <2> SUFFICES ASSUME NEW i \in DOMAIN stack PROVE stack[i].f \notin Ending
    OBVIOUS
  <2>1. CASE i = 1
    BY <1>1, <2>1 DEF Ending
  <2>2. CASE i # 1
    <3>1. i - 1 \in DOMAIN Tail(stack) /\ stack[i] = Tail(stack)[i - 1]
      BY <1>1, <2>2
    <3> QED BY <1>1, <1>6, <1>7, <3>1
  <2> QED BY <2>1, <2>2
<1>9. \A i \in DOMAIN ticks : ticks[i].f \notin Ending
  BY <1>1, <1>6, <1>7
<1>10. Held(Of(Ending)) = 0
  BY <1>8, <1>9, HeldZero
<1> QED BY <1>6, <1>10 DEF Bit

\* A function with one frame or tick of a name.
LEMMA OneFrame ==
  ASSUME NEW f \in Functions
  PROVE  /\ F(f) \in Frames /\ F(f).f = f /\ <<F(f)>> \in Seq(Frames) /\ Carries(<<F(f)>>, f)
         /\ DOMAIN <<F(f)>> = {1} /\ <<F(f)>>[1].f = f /\ Len(<<F(f)>>) = 1
<1> DEFINE x == F(f)
<1>1. x \in Frames /\ x.f = f
  <2>1. 0 \in Int /\ TRUE \in BOOLEAN /\ <<>> \in Seq(Kinds \cup {"end"})
    OBVIOUS
  <2> QED BY <2>1, FrameTypes, FrameNames
<1> HIDE DEF x
<1>2. <<x>> \in Seq(Frames) /\ Carries(<<x>>, f) /\ DOMAIN <<x>> = {1} /\ <<x>>[1] = x /\ Len(<<x>>) = 1
  BY <1>1, FrameLists, ShortCarries, ShortParts
<1> QED BY <1>1, <1>2 DEF x

\* A step that goes on to 'finish' when nothing else is on the way.
LEMMA FinishingSteady ==
  ASSUME CoreTypes, EventFlags, EventInv, Steady, NEW fs, NEW tk, Runs(fs, tk),
         NEW f, Carries(fs, f), NEW g, Carries(tk, g),
         f \in {"finish", "none"}, g \in {"finishNT", "none"}, f = "finish" => g = "none" /\ ~st.finished,
         OnTop \in {"finishMaybeCheck", "finishNT"}, io' = io,
         "final" \notin io, st.finalCalled, Held(Of(Ending)) = 0,
         Held(Of(ToFinish)) = Bit(OnTop = "finishNT")
  PROVE  Tallies'
<1>1. Gain({"emitFinish"}, f, g) = 0 /\ Gain(Closing, f, g) = 0
  BY DEF Gain, Bit, Closing
<1>2. Bit("destroy" \in io) \in Nat
  BY DEF Bit
<1>3. FinishEmitted' /\ ClosedOnce'
  <2>1. Gain(Closing, f, g) + Bit("destroy" \in io) <= Bit("destroy" \in io) /\ Gain({"emitFinish"}, f, g) <= 0
    BY <1>1, <1>2
  <2> QED BY <2>1, SteadyTallies DEF EventInv
<1>4. /\ Held(Of(ToFinish))' = Held(Of(ToFinish)) + Bit(f \in ToFinish) + Bit(g \in ToFinish)
                                 - Bit(OnTop \in ToFinish)
      /\ Held(Of(Ending))' = Held(Of(Ending)) + Bit(f \in Ending) + Bit(g \in Ending) - Bit(OnTop \in Ending)
  BY FourTallies
<1>5. /\ Bit(OnTop \in ToFinish) = Bit(OnTop = "finishNT") /\ Bit(OnTop \in Ending) = 0
      /\ Bit(f \in ToFinish) + Bit(g \in ToFinish) <= 1
      /\ Bit(f \in ToFinish) \in Nat /\ Bit(g \in ToFinish) \in Nat
      /\ Bit(g \in Ending) = 0 /\ Bit(f \in Ending) = Bit(f = "finish")
  <2>1. /\ OnTop \in ToFinish <=> OnTop = "finishNT"
        /\ OnTop \notin Ending /\ g \notin Ending
        /\ f \in Ending <=> f = "finish"
        /\ ~(f \in ToFinish /\ g \in ToFinish)
    <3>1. f = "none" => f \notin ToFinish
      BY DEF ToFinish, Ending
    <3>2. g = "none" => g \notin ToFinish
      BY DEF ToFinish, Ending
    <3>3. f = "finish" => g = "none"
      OBVIOUS
    <3>4. ~(f \in ToFinish /\ g \in ToFinish)
      BY <3>1, <3>2, <3>3
    <3>5. /\ OnTop \in ToFinish <=> OnTop = "finishNT"
          /\ OnTop \notin Ending
      BY DEF ToFinish, Ending
    <3>6. g \notin Ending /\ (f \in Ending <=> f = "finish")
      BY DEF Ending
    <3> QED BY <3>4, <3>5, <3>6
  <2>2. Bit(OnTop \in ToFinish) = Bit(OnTop = "finishNT")
    BY <2>1 DEF Bit
  <2>3. Bit(OnTop \in Ending) = 0 /\ Bit(g \in Ending) = 0
    BY <2>1 DEF Bit
  <2>4. Bit(f \in Ending) = Bit(f = "finish")
    BY <2>1 DEF Bit
  <2>5. /\ Bit(f \in ToFinish) + Bit(g \in ToFinish) <= 1
        /\ Bit(f \in ToFinish) \in Nat /\ Bit(g \in ToFinish) \in Nat
    BY <2>1 DEF Bit
  <2> QED BY <2>2, <2>3, <2>4, <2>5
<1>6. /\ st'.finalCalled = st.finalCalled /\ st'.finished = st.finished
      /\ Bit("final" \in io) = 0 /\ Bit(st.finalCalled) = 1
      /\ Bit(f = "finish") + Bit(st.finished) <= 1 /\ Bit(f = "finish") \in Nat /\ Bit(st.finished) \in Nat
      /\ Bit(OnTop = "finishNT") \in Nat
  <2>1. st'.finalCalled = st.finalCalled /\ st'.finished = st.finished
    BY SteadyFlags
  <2>2. Bit("final" \in io) = 0 /\ Bit(st.finalCalled) = 1
    BY DEF Bit
  <2>3. \A b : Bit(b) \in Nat /\ Bit(b) <= 1
    BY DEF Bit
  <2>4. Bit(f = "finish") = 0 \/ Bit(st.finished) = 0
    BY DEF Bit
  <2>5. /\ Bit(f = "finish") \in Nat /\ Bit(f = "finish") <= 1
        /\ Bit(st.finished) \in Nat /\ Bit(st.finished) <= 1 /\ Bit(OnTop = "finishNT") \in Nat
    BY <2>3
  <2> DEFINE u == Bit(f = "finish")
             v == Bit(st.finished)
  <2>6. u + v <= 1
    <3> HIDE DEF u, v
    <3>1. (u = 0 \/ v = 0) /\ u \in Nat /\ v \in Nat /\ u <= 1 /\ v <= 1
      BY <2>4, <2>5 DEF u, v
    <3> QED BY ONLY <3>1
  <2> HIDE DEF u, v
  <2>7. Bit(f = "finish") + Bit(st.finished) <= 1
    BY <2>6 DEF u, v
  <2> QED BY <2>1, <2>2, <2>5, <2>7
<1>7. Held(Of(ToFinish))' <= 1
  <2> DEFINE h == Held(Of(ToFinish))'
             a == Bit(OnTop = "finishNT")
             b == Bit(f \in ToFinish)
             c == Bit(g \in ToFinish)
  <2>1. h = a + b + c - a /\ b + c <= 1 /\ a \in Nat /\ b \in Nat /\ c \in Nat
    BY <1>4, <1>5, <1>6
  <2> HIDE DEF h, a, b, c
  <2>2. h <= 1
    BY <2>1
  <2> QED BY <2>2 DEF h
<1>8. Held(Of(Ending))' = Bit(f = "finish")
  BY <1>4, <1>5, <1>6
<1>9. Held(Of(ToFinish))' \in Nat
  BY FourTallies
<1>12. Bit("final" \in io') = 0 /\ Bit(st'.finalCalled) = 1 /\ Bit(st'.finished) = Bit(st.finished)
  BY <1>6 DEF Bit
<1>10. Finishing'
  <2>1. Held(Of(ToFinish))' + Bit("final" \in io') <= Bit(st'.finalCalled)
    BY <1>7, <1>9, <1>12
  <2> QED BY <2>1 DEF Finishing
<1>11. FinishedOnce'
  <2>1. Held(Of(Ending))' + Bit("final" \in io') + Bit(st'.finished) <= Bit(st'.finalCalled)
    BY ONLY <1>6, <1>8, <1>12
  <2> QED BY <2>1 DEF FinishedOnce
<1> QED BY <1>3, <1>10, <1>11 DEF Tallies

\* The rest of finishMaybe() goes on when nothing is pending.
LEMMA FinishMaybeCheckEvents ==
  ASSUME CoreTypes, PendingCounted, EventFlags, EventInv, FinishMaybeCheck PROVE EventInv'
<1>0. DOMAIN st = Fields /\ Verdicts \subseteq Fields
  BY DEF CoreTypes, Verdicts, Fields
<1>1. Top("finishMaybeCheck") /\ io' = io /\ events' = events
  BY DEF FinishMaybeCheck, history
<1>2. \A x \in Verdicts : st'[x] = st[x]
  BY <1>0 DEF FinishMaybeCheck, Verdicts
<1>3. stack # <<>> /\ OnTop = "finishMaybeCheck"
  BY <1>1 DEF Top, OnTop
<1>4. \/ st.pendingcb = 0 /\ Tick(F("finishNT")) /\ Call(<<>>)
      \/ st.pendingcb = 0 /\ needFinish(st) /\ Call(<<F("finish")>>) /\ ticks' = ticks
      \/ Call(<<>>) /\ ticks' = ticks
  BY Zenon DEF FinishMaybeCheck
<1>5. /\ <<>> \in Seq(Frames) /\ Carries(<<>>, "none") /\ DOMAIN <<>> = {}
      /\ ticks' = ticks => ticks' = ticks \o <<>>
      /\ "finish" \in Functions /\ "finishNT" \in Functions
  BY TicksRun, ShortCarries, ShortParts DEF Functions
<1>6. st.pendingcb = 0 => /\ Held(Of(ToFinish)) = 0 /\ Held(Of(Ending)) = 0
                          /\ "final" \notin io /\ st.finalCalled
  BY <1>3, NothingOwed DEF EventInv
<1>7. Bit(OnTop = "finishNT") = 0
  BY <1>3 DEF Bit
<1>8. CASE st.pendingcb = 0 /\ Tick(F("finishNT")) /\ Call(<<>>)
  <2> DEFINE tk == <<F("finishNT")>>
  <2>1. /\ tk \in Seq(Frames) /\ Carries(tk, "finishNT") /\ DOMAIN tk = {1} /\ tk[1].f = "finishNT"
        /\ ticks' = ticks \o tk
    BY <1>5, <1>8, OneFrame, TicksRun
  <2> HIDE DEF tk
  <2>2. Steady /\ Runs(<<>>, tk)
    BY <1>1, <1>2, <1>5, <1>8, <2>1, SteadyCall
  <2>3. Tallies'
    BY <1>1, <1>3, <1>5, <1>6, <1>7, <1>8, <2>1, <2>2, FinishingSteady
  <2>4. Leave(<<>>, tk)
    <3>1. \A i \in DOMAIN tk : tk[i].f \notin NoTicks /\ tk[i].f \notin Late
      BY <2>1 DEF NoTicks, Late
    <3> QED BY <1>5, <2>2, <3>1, SteadyLeave, PlainLeave
  <2> QED BY <2>2, <2>3, <2>4, SteadyEvents
<1>9. CASE st.pendingcb = 0 /\ needFinish(st) /\ Call(<<F("finish")>>) /\ ticks' = ticks
  <2> DEFINE fs == <<F("finish")>>
  <2>1. fs \in Seq(Frames) /\ Carries(fs, "finish") /\ DOMAIN fs = {1} /\ fs[1].f = "finish"
    BY <1>5, OneFrame
  <2>2. Call(fs)
    BY <1>9
  <2> HIDE DEF fs
  <2>3. Steady /\ Runs(fs, <<>>)
    BY <1>1, <1>2, <1>5, <1>9, <2>1, <2>2, SteadyCall
  <2>4. ~st.finished /\ ~st.closeEmitted
    BY <1>9 DEF needFinish
  <2>5. Tallies'
    BY <1>1, <1>3, <1>5, <1>6, <1>7, <1>9, <2>1, <2>3, <2>4, FinishingSteady
  <2>6. Leave(fs, <<>>)
    <3>1. ~st'.closeEmitted
      BY <2>3, <2>4, SteadyFlags
    <3>2. fs[1].f \notin Closers /\ fs[1].f \notin Immediate
      BY <2>1 DEF Closers, Immediate
    <3> QED BY <1>5, <2>1, <2>3, <3>1, <3>2, SteadyLeave DEF Leave
  <2> QED BY <2>3, <2>5, <2>6, SteadyEvents
<1>10. CASE Call(<<>>) /\ ticks' = ticks
  <2>1. SameVerdicts
    BY <1>1, <1>2 DEF SameVerdicts
  <2>2. QuietLeaves /\ QuietQueues
    BY <1>10, QuietWays
  <2> QED BY <1>1, <2>1, <2>2, QuietLeaving
<1> QED BY <1>4, <1>8, <1>9, <1>10

\* finishNT looks at the stream again.
LEMMA FinishNTEvents ==
  ASSUME CoreTypes, EventFlags, EventInv, FinishNT PROVE EventInv'
<1>0. DOMAIN st = Fields /\ Verdicts \subseteq Fields
  BY DEF CoreTypes, Verdicts, Fields
<1>1. Top("finishNT") /\ io' = io /\ events' = events /\ ticks' = ticks
  BY DEF FinishNT, history
<1>2. \A x \in Verdicts : st'[x] = st[x]
  BY <1>0 DEF FinishNT, Verdicts
<1>3. stack # <<>> /\ OnTop = "finishNT"
  BY <1>1 DEF Top, OnTop
<1>5. /\ <<>> \in Seq(Frames) /\ Carries(<<>>, "none") /\ DOMAIN <<>> = {}
      /\ ticks' = ticks \o <<>> /\ "finish" \in Functions
  BY <1>1, TicksRun, ShortCarries, ShortParts DEF Functions
<1>6. CASE needFinish(st)
  <2> DEFINE fs == <<F("finish")>>
  <2>1. fs \in Seq(Frames) /\ Carries(fs, "finish") /\ DOMAIN fs = {1} /\ fs[1].f = "finish"
    BY <1>5, OneFrame
  <2>2. Call(fs)
    BY <1>6 DEF FinishNT
  <2> HIDE DEF fs
  <2>3. Steady /\ Runs(fs, <<>>)
    BY <1>1, <1>2, <1>5, <2>1, <2>2, SteadyCall
  <2>4. ~st.finished /\ ~st.closeEmitted
    BY <1>6 DEF needFinish
  <2>5. Held(Of(Ending)) = 0 /\ "final" \notin io /\ st.finalCalled
    BY <1>3, FinishAlone DEF EventInv, Tallies
  <2>6. Held(Of(ToFinish)) = Bit(OnTop = "finishNT")
    <3>1. Held(Of(ToFinish)) \in Nat /\ Held(Of(ToFinish)) >= 1
      BY <1>3, HolderOne DEF ToFinish
    <3>2. Bit("final" \in io) \in Nat /\ Bit(st.finalCalled) = 1 /\ Bit(OnTop = "finishNT") = 1
      BY <1>3, <2>5 DEF Bit
    <3>3. Held(Of(ToFinish)) + Bit("final" \in io) <= Bit(st.finalCalled)
      BY DEF EventInv, Tallies, Finishing
    <3> QED BY <3>1, <3>2, <3>3
  <2>7. Tallies'
    BY <1>1, <1>3, <1>5, <2>1, <2>3, <2>4, <2>5, <2>6, FinishingSteady
  <2>8. Leave(fs, <<>>)
    <3>1. ~st'.closeEmitted
      BY <2>3, <2>4, SteadyFlags
    <3>2. fs[1].f \notin Closers /\ fs[1].f \notin Immediate /\ fs[1].f # "finishMaybeCheck"
      BY <2>1 DEF Closers, Immediate
    <3> QED BY <1>5, <2>1, <2>3, <3>1, <3>2, SteadyLeave DEF Leave
  <2> QED BY <2>3, <2>7, <2>8, SteadyEvents
<1>7. CASE ~needFinish(st)
  <2>1. SameVerdicts
    BY <1>1, <1>2 DEF SameVerdicts
  <2>2. Call(<<>>)
    BY <1>7 DEF FinishNT
  <2>3. QuietLeaves /\ QuietQueues
    BY <1>1, <2>2, QuietWays
  <2> QED BY <1>1, <2>1, <2>3, QuietLeaving
<1> QED BY <1>6, <1>7

\* The tallies stay when a tracked function hands over to another.
LEMMA SteadyGains ==
  ASSUME CoreTypes, Tallies, Steady, NEW fs, NEW tk, Runs(fs, tk), NEW f, Carries(fs, f), NEW g, Carries(tk, g),
         io' = io, Gain(ToFinish, f, g) = 0, Gain(Ending, f, g) = 0, Gain({"emitFinish"}, f, g) = 0,
         Gain(Closing, f, g) = 0
  PROVE  Tallies'
<1>1. Bit("final" \in io) \in Nat /\ Bit("destroy" \in io) \in Nat
  BY DEF Bit
<1>2. /\ Gain(ToFinish, f, g) + Bit("final" \in io) <= Bit("final" \in io)
      /\ Gain(Ending, f, g) + Bit("final" \in io) <= Bit("final" \in io)
      /\ Gain({"emitFinish"}, f, g) <= 0
      /\ Gain(Closing, f, g) + Bit("destroy" \in io) <= Bit("destroy" \in io)
  BY <1>1
<1> QED BY <1>2, SteadyTallies DEF Tallies

\* A failure destroys the stream, or is emitted now or in a tick.
LEMMA ErrorOrDestroyEvents ==
  ASSUME CoreTypes, EventFlags, EventInv, ErrorOrDestroy PROVE EventInv'
<1>0. DOMAIN st = Fields /\ Verdicts \subseteq Fields
  BY DEF CoreTypes, Verdicts, Fields
<1>1. Top("errorOrDestroy") /\ io' = io /\ events' = events
  BY DEF ErrorOrDestroy, history
<1>2. \A x \in Verdicts : st'[x] = st[x]
  BY <1>0 DEF ErrorOrDestroy, Verdicts
<1>3. /\ <<>> \in Seq(Frames) /\ Carries(<<>>, "none") /\ DOMAIN <<>> = {}
      /\ ticks' = ticks => ticks' = ticks \o <<>>
      /\ "emitErrorNT" \in Functions
  BY TicksRun, ShortCarries, ShortParts DEF Functions
<1>4. \/ Call(<<>>) /\ ticks' = ticks
      \/ Call(<<Fe("destroy", TRUE)>>) /\ ticks' = ticks
      \/ ~st.destroyed /\ Tick(F("emitErrorNT")) /\ Call(<<>>)
      \/ ~st.destroyed /\ Call(<<F("emitErrorNT")>>) /\ ticks' = ticks
  BY Zenon DEF ErrorOrDestroy
<1>5. CASE (Call(<<>>) /\ ticks' = ticks) \/ (Call(<<Fe("destroy", TRUE)>>) /\ ticks' = ticks)
  <2>1. Fe("destroy", TRUE) \in QuietFrames
    <3>1. TRUE \in BOOLEAN /\ "destroy" \in QuietNames
      BY QuietNamed
    <3> QED BY <3>1, QuietMade
  <2>2. SameVerdicts
    BY <1>1, <1>2 DEF SameVerdicts
  <2>3. QuietLeaves /\ QuietQueues
    BY <1>5, <2>1, QuietWays
  <2> QED BY <1>1, <2>2, <2>3, QuietLeaving
<1>6. ASSUME NEW fs, NEW tk, NEW f, NEW g, Steady, Runs(fs, tk), Carries(fs, f), Carries(tk, g),
             f \in {"emitErrorNT", "none"}, g \in {"emitErrorNT", "none"}, OnTop = "errorOrDestroy"
      PROVE  Tallies'
  <2>1. /\ Gain(ToFinish, f, g) = 0 /\ Gain(Ending, f, g) = 0 /\ Gain({"emitFinish"}, f, g) = 0
        /\ Gain(Closing, f, g) = 0
    BY <1>6 DEF Gain, Bit, ToFinish, Ending, Closing
  <2> QED BY <1>1, <1>6, <2>1, SteadyGains DEF EventInv
<1>7. ~st.destroyed => ~st.closeEmitted
  BY NotClosing DEF EventInv, Tallies
<1> DEFINE s == <<F("emitErrorNT")>>
<1>8. /\ s \in Seq(Frames) /\ Carries(s, "emitErrorNT") /\ DOMAIN s = {1} /\ s[1].f = "emitErrorNT"
      /\ Tick(F("emitErrorNT")) => ticks' = ticks \o s
  BY <1>3, OneFrame, TicksRun
<1>9. CASE ~st.destroyed /\ Tick(F("emitErrorNT")) /\ Call(<<>>)
  <2> HIDE DEF s
  <2>1. Steady /\ Runs(<<>>, s) /\ OnTop = "errorOrDestroy"
    BY <1>1, <1>2, <1>3, <1>8, <1>9, SteadyCall
  <2>2. Tallies'
    BY <1>3, <1>6, <1>8, <2>1
  <2>3. Leave(<<>>, s)
    <3>1. ~st'.closeEmitted
      BY <1>7, <1>9, <2>1, SteadyFlags
    <3>2. s[1].f \notin NoTicks /\ s[1].f \notin Closers
      BY <1>8 DEF NoTicks, Closers
    <3> QED BY <1>3, <1>8, <1>9, <2>1, <3>1, <3>2, SteadyLeave DEF Leave
  <2> QED BY <2>1, <2>2, <2>3, SteadyEvents
<1>10. CASE ~st.destroyed /\ Call(<<F("emitErrorNT")>>) /\ ticks' = ticks
  <2>0. Call(s)
    BY <1>10
  <2> HIDE DEF s
  <2>1. Steady /\ Runs(s, <<>>) /\ OnTop = "errorOrDestroy"
    BY <1>1, <1>2, <1>3, <1>8, <1>10, <2>0, SteadyCall
  <2>2. Tallies'
    BY <1>3, <1>6, <1>8, <2>1
  <2>3. Leave(s, <<>>)
    <3>1. ~st'.closeEmitted
      BY <1>7, <1>10, <2>1, SteadyFlags
    <3>2. s[1].f \notin Immediate /\ s[1].f \notin Closers /\ s[1].f # "finishMaybeCheck"
      BY <1>8 DEF Immediate, Closers
    <3> QED BY <1>3, <1>8, <2>1, <3>1, <3>2, SteadyLeave DEF Leave
  <2> QED BY <2>1, <2>2, <2>3, SteadyEvents
<1> QED BY <1>4, <1>5, <1>9, <1>10

\* The callback of _destroy() puts the end off to a tick.
LEMMA OnDestroyEvents ==
  ASSUME CoreTypes, EventFlags, EventInv, OnDestroy PROVE EventInv'
<1>0. DOMAIN st = Fields /\ Verdicts \subseteq Fields
  BY DEF CoreTypes, Verdicts, Fields
<1>1. Top("onDestroy") /\ io' = io /\ events' = events /\ Call(<<>>)
  BY DEF OnDestroy, history
<1>2. \A x \in Verdicts : st'[x] = st[x]
  BY <1>0 DEF OnDestroy, Verdicts
<1>3. PICK g \in {"emitErrorCloseNT", "emitCloseNT"} : Tick(F(g))
  BY Zenon DEF OnDestroy
<1> DEFINE s == <<F(g)>>
<1>4. /\ s \in Seq(Frames) /\ Carries(s, g) /\ DOMAIN s = {1} /\ s[1].f = g /\ ticks' = ticks \o s
      /\ <<>> \in Seq(Frames) /\ Carries(<<>>, "none") /\ DOMAIN <<>> = {}
  <2>1. g \in Functions
    BY DEF Functions
  <2> QED BY <1>3, <2>1, OneFrame, TicksRun, ShortCarries, ShortParts
<1> HIDE DEF s
<1>5. Steady /\ Runs(<<>>, s) /\ OnTop = "onDestroy"
  BY <1>1, <1>2, <1>4, SteadyCall
<1>6. Tallies'
  <2>1. /\ Gain(ToFinish, "none", g) = 0 /\ Gain(Ending, "none", g) = 0
        /\ Gain({"emitFinish"}, "none", g) = 0 /\ Gain(Closing, "none", g) = 0
    BY <1>5 DEF Gain, Bit, ToFinish, Ending, Closing
  <2> QED BY <1>1, <1>4, <1>5, <2>1, SteadyGains DEF EventInv
<1>7. Leave(<<>>, s)
  <2>1. s[1].f \notin NoTicks /\ s[1].f \notin Late
    BY <1>4 DEF NoTicks, Late
  <2> QED BY <1>4, <1>5, <2>1, SteadyLeave, PlainLeave
<1> QED BY <1>5, <1>6, <1>7, SteadyEvents

\* What follows 'prefinish' of _final() puts 'finish' off to a tick.
LEMMA OnFinishTickEvents ==
  ASSUME CoreTypes, EventFlags, EventInv, OnFinishTick PROVE EventInv'
<1>0. DOMAIN st = Fields /\ Verdicts \subseteq Fields
  BY DEF CoreTypes, Verdicts, Fields
<1>1. Top("onFinishTick") /\ io' = io /\ events' = events /\ Call(<<>>) /\ Tick(F("finish"))
  BY DEF OnFinishTick, history
<1>2. \A x \in Verdicts : st'[x] = st[x]
  BY <1>0 DEF OnFinishTick, Verdicts
<1> DEFINE s == <<F("finish")>>
<1>3. /\ s \in Seq(Frames) /\ Carries(s, "finish") /\ DOMAIN s = {1} /\ s[1].f = "finish" /\ ticks' = ticks \o s
      /\ <<>> \in Seq(Frames) /\ Carries(<<>>, "none") /\ DOMAIN <<>> = {}
  <2>1. "finish" \in Functions
    BY DEF Functions
  <2> QED BY <1>1, <2>1, OneFrame, TicksRun, ShortCarries, ShortParts
<1> HIDE DEF s
<1>4. Steady /\ Runs(<<>>, s) /\ OnTop = "onFinishTick" /\ stack # <<>>
  BY <1>1, <1>2, <1>3, SteadyCall
<1>5. Tallies'
  <2>1. /\ Gain(ToFinish, "none", "finish") = 0 /\ Gain(Ending, "none", "finish") = 0
        /\ Gain({"emitFinish"}, "none", "finish") = 0 /\ Gain(Closing, "none", "finish") = 0
    BY <1>4 DEF Gain, Bit, ToFinish, Ending, Closing
  <2> QED BY <1>1, <1>3, <1>4, <2>1, SteadyGains DEF EventInv
<1>6. ~st.destroyed
  <2>1. 1 \in DOMAIN stack /\ stack[1].f = "onFinishTick"
    <3>1. stack \in Seq(Frames)
      BY DEF CoreTypes
    <3> QED BY <1>4, <3>1 DEF OnTop
  <2> QED BY <2>1 DEF EventInv, Places, AtOnceOnly, Immediate
<1>7. ~st.closeEmitted
  BY <1>6, NotClosing DEF EventInv, Tallies
<1>8. Leave(<<>>, s)
  <2>1. s[1].f \notin NoTicks /\ s[1].f \notin Closers
    BY <1>3 DEF NoTicks, Closers
  <2>2. ~st'.closeEmitted
    BY <1>4, <1>7, SteadyFlags
  <2> QED BY <1>3, <1>4, <1>6, <2>1, <2>2, SteadyLeave DEF Leave
<1> QED BY <1>4, <1>5, <1>8, SteadyEvents

\* emitErrorCloseNT emits both.
LEMMA EmitErrorCloseEvents ==
  ASSUME CoreTypes, EventFlags, EventInv, EmitErrorCloseNT PROVE EventInv'
<1>1. /\ Top("emitErrorCloseNT") /\ st' = st /\ io' = io /\ events' = events /\ ticks' = ticks
      /\ Call(<<F("emitErrorNT"), F("emitCloseNT")>>)
  BY DEF EmitErrorCloseNT, history
<1> DEFINE x == F("emitErrorNT")
           y == F("emitCloseNT")
           s == <<x, y>>
<1>2. x \in Frames /\ y \in Frames /\ x.f = "emitErrorNT" /\ y.f = "emitCloseNT"
  <2>1. "emitErrorNT" \in Functions /\ "emitCloseNT" \in Functions
    BY DEF Functions
  <2> QED BY <2>1, OneFrame
<1>3. Call(s)
  BY <1>1
<1> HIDE DEF x, y
<1>4. /\ s \in Seq(Frames) /\ Carries(s, "emitCloseNT") /\ DOMAIN s = {1, 2} /\ s[1] = x /\ s[2] = y /\ Len(s) = 2
      /\ <<>> \in Seq(Frames) /\ Carries(<<>>, "none") /\ DOMAIN <<>> = {} /\ ticks' = ticks \o <<>>
  <2>1. x.f \notin Tracked
    BY <1>2 DEF Tracked, Ending, Closing
  <2> QED BY <1>1, <1>2, <2>1, FrameLists, TicksRun, ShortCarries, ShortParts
<1> HIDE DEF s
<1>5. Steady /\ Runs(s, <<>>) /\ OnTop = "emitErrorCloseNT" /\ stack # <<>>
  BY <1>1, <1>3, <1>4, SteadyCall
<1>6. Tallies'
  <2>1. /\ Gain(ToFinish, "emitCloseNT", "none") = 0 /\ Gain(Ending, "emitCloseNT", "none") = 0
        /\ Gain({"emitFinish"}, "emitCloseNT", "none") = 0 /\ Gain(Closing, "emitCloseNT", "none") = 0
    BY <1>5 DEF Gain, Bit, ToFinish, Ending, Closing
  <2> QED BY <1>1, <1>4, <1>5, <2>1, SteadyGains DEF EventInv
<1>7. Len(stack) = 1 /\ \A j \in DOMAIN ticks : ticks[j].f \notin Late
  <2>1. 1 \in DOMAIN stack /\ stack[1].f = "emitErrorCloseNT"
    <3>1. stack \in Seq(Frames)
      BY DEF CoreTypes
    <3> QED BY <1>5, <3>1 DEF OnTop
  <2> QED BY <2>1 DEF EventInv, Places, CloseLast, Closers
<1>8. ~st.closeEmitted
  <2>1. Held(Of(Closing)) \in Nat /\ Held(Of(Closing)) >= 1
    BY <1>5, HolderOne DEF Closing
  <2>2. Held(Of(Closing)) + Bit("destroy" \in io) + Bit(st.destroyed /\ ~st.constructed) + Bit(st.closeEmitted)
          <= Bit(st.destroyed)
    BY DEF EventInv, Tallies, ClosedOnce
  <2>3. /\ Bit("destroy" \in io) \in Nat /\ Bit(st.destroyed /\ ~st.constructed) \in Nat
        /\ Bit(st.closeEmitted) \in Nat /\ Bit(st.destroyed) <= 1 /\ Bit(st.destroyed) \in Nat
    BY DEF Bit
  <2>4. Bit(st.closeEmitted) = 0
    BY <2>1, <2>2, <2>3
  <2> QED BY <2>4 DEF Bit
<1>9. Leave(s, <<>>)
  <2>1. s[1].f \notin Closers /\ s[1].f \notin Immediate /\ s[2].f \notin Immediate
        /\ s[1].f # "finishMaybeCheck" /\ s[2].f # "finishMaybeCheck"
    BY <1>2, <1>4 DEF Closers, Immediate
  <2>2. ~st'.closeEmitted
    BY <1>5, <1>8, SteadyFlags
  <2> QED BY <1>4, <1>5, <1>7, <2>1, <2>2, SteadyLeave DEF Leave
<1> QED BY <1>5, <1>6, <1>9, SteadyEvents

\* The tallies that a step does not touch.
LEMMA TalliesSame ==
  ASSUME CoreTypes, Tallies, NEW fs, NEW tk, Runs(fs, tk), NEW f, Carries(fs, f), NEW g, Carries(tk, g), io' = io
  PROVE  /\ Gain(ToFinish, f, g) = 0 /\ st'.finalCalled = st.finalCalled => Finishing'
         /\ Gain(Ending, f, g) = 0 /\ st'.finalCalled = st.finalCalled /\ st'.finished = st.finished => FinishedOnce'
         /\ Gain({"emitFinish"}, f, g) = 0 /\ st'.finished = st.finished /\ (Ev("finish")' <=> Ev("finish"))
              => FinishEmitted'
         /\ Gain(Closing, f, g) = 0 /\ st'.destroyed = st.destroyed /\ st'.constructed = st.constructed
              /\ st'.closeEmitted = st.closeEmitted => ClosedOnce'
<1>1. \A b : Bit(b) \in Nat
  BY DEF Bit
<1>2. \A a, b \in Nat : 0 + a + b <= a + b
  OBVIOUS
<1>3. \A a, b, c \in Nat : 0 + a + b + c <= a + b + c
  OBVIOUS
<1>4. \A a, b, c, d \in Nat : 0 + a + b + c + d <= a + b + c + d
  OBVIOUS
<1>5. ASSUME Gain(ToFinish, f, g) = 0, st'.finalCalled = st.finalCalled PROVE Finishing'
  <2>1. Gain(ToFinish, f, g) + Bit("final" \in io) + Bit(st.finalCalled) <= Bit("final" \in io) + Bit(st.finalCalled)
    BY <1>1, <1>2, <1>5
  <2> QED BY <1>5, <2>1, TalliesKept
<1>6. ASSUME Gain(Ending, f, g) = 0, st'.finalCalled = st.finalCalled, st'.finished = st.finished PROVE FinishedOnce'
  <2>1. Gain(Ending, f, g) + Bit("final" \in io) + Bit(st.finished) + Bit(st.finalCalled)
          <= Bit("final" \in io) + Bit(st.finished) + Bit(st.finalCalled)
    BY <1>1, <1>3, <1>6
  <2> QED BY <1>6, <2>1, TalliesKept
<1>7. ASSUME Gain({"emitFinish"}, f, g) = 0, st'.finished = st.finished, Ev("finish")' <=> Ev("finish")
      PROVE  FinishEmitted'
  <2>1. Gain({"emitFinish"}, f, g) + Bit(Ev("finish")) + Bit(st.finished) <= Bit(Ev("finish")) + Bit(st.finished)
    BY <1>1, <1>2, <1>7
  <2>2. Bit(Ev("finish"))' = Bit(Ev("finish"))
    BY <1>7 DEF Bit
  <2> QED BY <1>7, <2>1, <2>2, TalliesKept
<1>8. ASSUME Gain(Closing, f, g) = 0, st'.destroyed = st.destroyed, st'.constructed = st.constructed,
             st'.closeEmitted = st.closeEmitted
      PROVE  ClosedOnce'
  <2>1. Gain(Closing, f, g) + Bit("destroy" \in io) + Bit(st.destroyed /\ ~st.constructed) + Bit(st.closeEmitted)
              + Bit(st.destroyed)
          <= Bit("destroy" \in io) + Bit(st.destroyed /\ ~st.constructed) + Bit(st.closeEmitted) + Bit(st.destroyed)
    BY <1>1, <1>4, <1>8
  <2> QED BY <1>8, <2>1, TalliesKept
<1> QED BY <1>5, <1>6, <1>7, <1>8

\* What a step needs for the invariant.
LEMMA ChangedEvents ==
  ASSUME CoreTypes, EventFlags, EventInv, NEW fs, NEW tk, Runs(fs, tk), Leave(fs, tk),
         Tallies', Records', EventsOrdered'
  PROVE  EventInv'
BY PlacesKept DEF EventInv, Tallies

\* destroy() calls _destroy(), or waits for _construct().
LEMMA DestroyEvents ==
  ASSUME CoreTypes, EventFlags, EventInv, Destroy PROVE EventInv'
<1>0. DOMAIN st = Fields /\ Verdicts \subseteq Fields
  BY DEF CoreTypes, Verdicts, Fields
<1>1. Top("destroy") /\ io' = io /\ events' = events
  BY DEF Destroy, history
<1>2. <<>> \in Seq(Frames) /\ Carries(<<>>, "none") /\ DOMAIN <<>> = {} /\ <<>> \in Seq(QuietFrames)
  BY TicksRun, ShortCarries, ShortParts, QuietLists
<1>3. CASE st.destroyed
  <2>1. Call(<<>>) /\ ticks' = ticks /\ st' = st
    BY <1>3 DEF Destroy
  <2>2. SameVerdicts
    BY <1>1, <2>1 DEF SameVerdicts
  <2>3. QuietLeaves /\ QuietQueues
    BY <2>1, QuietWays
  <2> QED BY <1>1, <2>2, <2>3, QuietLeaving
<1>4. CASE ~st.destroyed
  <2>1. /\ st'.destroyed = TRUE /\ st'.finalCalled = st.finalCalled /\ st'.finished = st.finished
        /\ st'.prefinished = st.prefinished /\ st'.constructed = st.constructed
        /\ st'.closeEmitted = st.closeEmitted /\ st'.errorEmitted = st.errorEmitted
    BY <1>0, <1>4 DEF Destroy, Verdicts
  <2>2. QuietQueues
    <3>1. Tick(F("errorBuffer")) \/ ticks' = ticks
      BY <1>4 DEF Destroy, Tick
    <3>2. F("errorBuffer") \in QuietFrames
      BY QuietMade, QuietNamed
    <3> QED BY <3>1, <3>2, QuietWays
  <2>3. PICK tk \in Seq(QuietFrames) : ticks' = ticks \o tk
    BY <2>2 DEF QuietQueues
  <2>4. /\ tk \in Seq(Frames) /\ Carries(tk, "none")
        /\ \A i \in DOMAIN tk : tk[i].f \notin NoTicks /\ tk[i].f \notin Late
    BY QuietClearOf
  <2>5. PICK fs, f : /\ fs \in Seq(Frames) /\ Call(fs) /\ Carries(fs, f)
                     /\ f = IF st.constructed THEN "_destroy" ELSE "none"
                     /\ \A i \in DOMAIN fs : /\ fs[i].f \notin Closers /\ fs[i].f \notin Immediate
                                             /\ fs[i].f # "finishMaybeCheck" /\ fs[i].f \notin NotClosed
    <3>1. CASE st.constructed
      <4> DEFINE x == Fe("_destroy", Head(stack).er)
      <4>1. Call(<<x>>)
        BY <1>4, <3>1 DEF Destroy
      <4>2. x \in Frames /\ x.f = "_destroy"
        <5>1. "_destroy" \in Functions /\ Head(stack).er \in BOOLEAN /\ 0 \in Int /\ <<>> \in Seq(Kinds \cup {"end"})
          BY <1>1, TopFrame DEF Functions, Top
        <5> QED BY <5>1, FrameTypes, FrameNames
      <4> HIDE DEF x
      <4>3. <<x>> \in Seq(Frames) /\ Carries(<<x>>, "_destroy") /\ DOMAIN <<x>> = {1} /\ <<x>>[1] = x
        BY <4>2, FrameLists, ShortCarries, ShortParts
      <4>4. x.f \notin Closers /\ x.f \notin Immediate /\ x.f # "finishMaybeCheck" /\ x.f \notin NotClosed
        BY <4>2 DEF Closers, Immediate, NotClosed
      <4> QED BY <3>1, <4>1, <4>3, <4>4
    <3>2. CASE ~st.constructed
      <4>1. Call(<<>>)
        BY <1>4, <3>2 DEF Destroy
      <4> QED BY <1>2, <3>2, <4>1
    <3> QED BY <3>1, <3>2
  <2>6. Runs(fs, tk) /\ OnTop = "destroy"
    <3>1. Shifted(fs) /\ OnTop = "destroy"
      BY <1>1, <2>5, CallRuns
    <3> QED BY <2>3, <2>4, <2>5, <3>1 DEF Runs
  <2>7. Leave(fs, tk)
    BY <2>1, <2>4, <2>5, <2>6, PlainLeave
  <2>8. Records' /\ EventsOrdered' /\ \A e : Ev(e)' <=> Ev(e)
    <3>1. st.prefinished => st.finalCalled
      BY DEF EventInv, Records
    <3> QED BY <1>1, <2>1, <3>1, EventsSame DEF EventInv
  <2>9. Tallies'
    <3>1. Gain(ToFinish, f, "none") = 0 /\ Gain(Ending, f, "none") = 0 /\ Gain({"emitFinish"}, f, "none") = 0
      BY <2>5, <2>6 DEF Gain, Bit, ToFinish, Ending
    <3>2. Finishing' /\ FinishedOnce' /\ FinishEmitted'
      BY <1>1, <2>1, <2>4, <2>5, <2>6, <2>8, <3>1, TalliesSame DEF EventInv
    <3>3. /\ Gain(Closing, f, "none") = Bit(st.constructed)
          /\ Bit(st'.destroyed /\ ~st'.constructed) = 1 - Bit(st.constructed) /\ Bit(st.constructed) \in Nat
      BY <2>1, <2>5, <2>6 DEF EventFlags, Gain, Bit, Closing
    <3>4. /\ Bit(st.destroyed) = 0 /\ Bit(st'.destroyed) = 1 /\ Bit(st.destroyed /\ ~st.constructed) = 0
          /\ Bit(st'.closeEmitted) = Bit(st.closeEmitted) /\ Bit(st.closeEmitted) \in Nat
          /\ Bit("destroy" \in io') = Bit("destroy" \in io) /\ Bit("destroy" \in io) \in Nat
      BY <1>1, <1>4, <2>1 DEF Bit
    <3>5. Gain(Closing, f, "none") + Bit("destroy" \in io') + Bit(st'.destroyed /\ ~st'.constructed)
                + Bit(st'.closeEmitted) + Bit(st.destroyed)
              <= Bit("destroy" \in io) + Bit(st.destroyed /\ ~st.constructed)
                + Bit(st.closeEmitted) + Bit(st'.destroyed)
      <4>1. \A a, b, c \in Nat : a + b + (1 - a) + c + 0 <= b + 0 + c + 1
        OBVIOUS
      <4> QED BY <3>3, <3>4, <4>1
    <3>6. ClosedOnce'
      BY <2>4, <2>5, <2>6, <3>5, TalliesKept DEF EventInv
    <3> QED BY <3>2, <3>6 DEF Tallies
  <2> QED BY <2>6, <2>7, <2>8, <2>9, ChangedEvents
<1> QED BY <1>3, <1>4

\* The function on top is first on the stack.
LEMMA OnTopFirst ==
  ASSUME CoreTypes, stack # <<>> PROVE 1 \in DOMAIN stack /\ stack[1].f = OnTop
<1>1. stack \in Seq(Frames)
  BY DEF CoreTypes
<1> QED BY <1>1 DEF OnTop

\* What is at work when the function on top is one of those that end or close the stream.
LEMMA WhileOnTop ==
  ASSUME CoreTypes, EventFlags, EventInv, stack # <<>>
  PROVE  /\ OnTop \in NotClosed => ~st.closeEmitted /\ ~Ev("close")
         /\ OnTop \in Ending => ~st.finished /\ st.finalCalled /\ "final" \notin io
         /\ OnTop = "emitFinish" => ~Ev("finish") /\ st.finished
         /\ OnTop \in Closing => st.destroyed /\ ~st.closeEmitted /\ ~Ev("close") /\ "destroy" \notin io
<1>1. 1 \in DOMAIN stack /\ stack[1].f = OnTop
  BY OnTopFirst
<1>2. \A b : Bit(b) \in Nat /\ Bit(b) <= 1 /\ (Bit(b) = 0 => ~b) /\ (Bit(b) = 1 => b)
  BY DEF Bit
<1>3. Ev("close") => st.closeEmitted
  BY DEF EventInv, Records
<1>4. OnTop \in NotClosed => ~st.closeEmitted
  BY <1>1 DEF EventInv, Places, AfterClose
<1>5. ASSUME OnTop \in Ending PROVE ~st.finished /\ st.finalCalled /\ "final" \notin io
  <2> DEFINE h == Held(Of(Ending))
             a == Bit("final" \in io)
             b == Bit(st.finished)
             c == Bit(st.finalCalled)
  <2>1. h \in Nat /\ h >= 1
    BY <1>5, HolderOne
  <2>2. h + a + b <= c
    BY DEF EventInv, Tallies, FinishedOnce
  <2>3. a \in Nat /\ b \in Nat /\ c \in Nat /\ c <= 1
    BY <1>2
  <2>4. a = 0 /\ b = 0 /\ c = 1
    <3> HIDE DEF h, a, b, c
    <3> QED BY ONLY <2>1, <2>2, <2>3
  <2> QED BY <1>2, <2>4
<1>6. ASSUME OnTop = "emitFinish" PROVE ~Ev("finish") /\ st.finished
  <2> DEFINE h == Held(Of({"emitFinish"}))
             a == Bit(Ev("finish"))
             c == Bit(st.finished)
  <2>1. h \in Nat /\ h >= 1
    BY <1>6, HolderOne
  <2>2. h + a <= c
    BY DEF EventInv, Tallies, FinishEmitted
  <2>3. a \in Nat /\ c \in Nat /\ c <= 1
    BY <1>2
  <2>4. a = 0 /\ c = 1
    <3> HIDE DEF h, a, c
    <3> QED BY ONLY <2>1, <2>2, <2>3
  <2> QED BY <1>2, <2>4
<1>7. ASSUME OnTop \in Closing PROVE st.destroyed /\ ~st.closeEmitted /\ "destroy" \notin io
  <2> DEFINE h == Held(Of(Closing))
             a == Bit("destroy" \in io)
             b == Bit(st.destroyed /\ ~st.constructed)
             d == Bit(st.closeEmitted)
             c == Bit(st.destroyed)
  <2>1. h \in Nat /\ h >= 1
    BY <1>7, HolderOne
  <2>2. h + a + b + d <= c
    BY DEF EventInv, Tallies, ClosedOnce
  <2>3. a \in Nat /\ b \in Nat /\ c \in Nat /\ d \in Nat /\ c <= 1
    BY <1>2
  <2>4. a = 0 /\ d = 0 /\ c = 1
    <3> HIDE DEF h, a, b, c, d
    <3> QED BY ONLY <2>1, <2>2, <2>3
  <2> QED BY <1>2, <2>4
<1> QED BY <1>3, <1>4, <1>5, <1>6, <1>7

\* The stream is constructed; a destroy() that came before goes on.
LEMMA OnConstructEvents ==
  ASSUME CoreTypes, FramesOK, EventFlags, EventInv, OnConstruct PROVE EventInv'
<1>0. DOMAIN st = Fields /\ Verdicts \subseteq Fields
  BY DEF CoreTypes, Verdicts, Fields
<1>1. Top("onConstruct") /\ io' = io /\ events' = events /\ ticks' = ticks /\ Call(AfterConstruct(Head(stack).er))
  BY DEF OnConstruct, history
<1>2. /\ st'.constructed = TRUE /\ st'.finalCalled = st.finalCalled /\ st'.finished = st.finished
      /\ st'.prefinished = st.prefinished /\ st'.destroyed = st.destroyed
      /\ st'.closeEmitted = st.closeEmitted /\ st'.errorEmitted = st.errorEmitted
  BY <1>0 DEF OnConstruct, Verdicts
<1>3. stack # <<>> /\ OnTop = "onConstruct"
  BY <1>1 DEF Top, OnTop
<1>4. ~st.constructed
  BY <1>3, OnTopFirst DEF FramesOK, FrameOK
<1>5. /\ <<>> \in Seq(Frames) /\ Carries(<<>>, "none") /\ DOMAIN <<>> = {} /\ ticks' = ticks \o <<>>
      /\ 0 \in Int /\ 1 \in Int /\ <<>> \in Seq(Kinds \cup {"end"})
  BY <1>1, TicksRun, ShortCarries, ShortParts
<1>6. PICK fs, f : /\ fs \in Seq(Frames) /\ Call(fs) /\ Carries(fs, f)
                   /\ f = IF st.destroyed THEN "_destroy" ELSE "none"
                   /\ \A i \in DOMAIN fs : /\ fs[i].f \notin Closers /\ fs[i].f \notin Immediate
                                           /\ fs[i].f # "finishMaybeCheck" /\ fs[i].f \notin NotClosed
  <2>1. CASE st.destroyed
    <3> DEFINE b == Head(stack).er \/ st.destroyErr
               x == Fe("_destroy", b)
    <3>1. Call(<<x>>)
      BY <1>1, <2>1 DEF AfterConstruct
    <3>2. x \in Frames /\ x.f = "_destroy"
      <4>1. "_destroy" \in Functions /\ b \in BOOLEAN
        BY DEF Functions
      <4> HIDE DEF b
      <4> QED BY <1>5, <4>1, FrameTypes, FrameNames
    <3> HIDE DEF x
    <3>3. <<x>> \in Seq(Frames) /\ Carries(<<x>>, "_destroy") /\ DOMAIN <<x>> = {1} /\ <<x>>[1] = x
      BY <3>2, FrameLists, ShortCarries, ShortParts
    <3>4. x.f \notin Closers /\ x.f \notin Immediate /\ x.f # "finishMaybeCheck" /\ x.f \notin NotClosed
      BY <3>2 DEF Closers, Immediate, NotClosed
    <3> QED BY <2>1, <3>1, <3>3, <3>4
  <2>2. CASE ~st.destroyed
    <3> DEFINE x == Fn("errorOrDestroy", 1)
               y == F("clearBuffer")
               z == Fn("finishMaybe", 0)
    <3>1. Call(<<x>>) \/ Call(<<y, z>>)
      BY <1>1, <2>2 DEF AfterConstruct
    <3>2. x \in QuietFrames /\ y \in QuietFrames /\ z \in QuietFrames
      BY <1>5, QuietMade, QuietNamed
    <3> HIDE DEF x, y, z
    <3>3. PICK fs \in Seq(QuietFrames) : Call(fs)
      BY <3>1, <3>2, QuietLists
    <3>4. /\ Carries(fs, "none") /\ fs \in Seq(Frames)
          /\ \A i \in DOMAIN fs : /\ fs[i].f \notin Closers /\ fs[i].f \notin Immediate
                                  /\ fs[i].f # "finishMaybeCheck" /\ fs[i].f \notin NotClosed
      BY QuietClearOf
    <3> QED BY <2>2, <3>3, <3>4
  <2> QED BY <2>1, <2>2
<1>7. Runs(fs, <<>>)
  <2>1. Shifted(fs)
    BY <1>1, <1>6, CallRuns
  <2> QED BY <1>5, <1>6, <2>1 DEF Runs
<1>8. Leave(fs, <<>>)
  BY <1>2, <1>3, <1>5, <1>6, PlainLeave
<1>9. Records' /\ EventsOrdered' /\ \A e : Ev(e)' <=> Ev(e)
  <2>1. st.prefinished => st.finalCalled
    BY DEF EventInv, Records
  <2> QED BY <1>1, <1>2, <2>1, EventsSame DEF EventInv
<1>10. Tallies'
  <2>1. Gain(ToFinish, f, "none") = 0 /\ Gain(Ending, f, "none") = 0 /\ Gain({"emitFinish"}, f, "none") = 0
    BY <1>3, <1>6 DEF Gain, Bit, ToFinish, Ending
  <2>2. Finishing' /\ FinishedOnce' /\ FinishEmitted'
    BY <1>1, <1>2, <1>5, <1>6, <1>7, <1>9, <2>1, TalliesSame DEF EventInv
  <2>3. Gain(Closing, f, "none") = Bit(st.destroyed) /\ Bit(st.destroyed) \in Nat
    BY <1>3, <1>6 DEF EventFlags, Gain, Bit, Closing
  <2>4. /\ Bit(st.destroyed /\ ~st.constructed) = Bit(st.destroyed) /\ Bit(st'.destroyed /\ ~st'.constructed) = 0
        /\ Bit(st'.closeEmitted) = Bit(st.closeEmitted) /\ Bit(st.closeEmitted) \in Nat
        /\ Bit("destroy" \in io') = Bit("destroy" \in io) /\ Bit("destroy" \in io) \in Nat
        /\ Bit(st'.destroyed) = Bit(st.destroyed)
    BY <1>1, <1>2, <1>4 DEF Bit
  <2>5. Gain(Closing, f, "none") + Bit("destroy" \in io') + Bit(st'.destroyed /\ ~st'.constructed)
              + Bit(st'.closeEmitted) + Bit(st.destroyed)
            <= Bit("destroy" \in io) + Bit(st.destroyed /\ ~st.constructed)
              + Bit(st.closeEmitted) + Bit(st'.destroyed)
    <3>1. \A a, b, c \in Nat : a + b + 0 + c + a <= b + a + c + a
      OBVIOUS
    <3> QED BY <2>3, <2>4, <3>1
  <2>6. ClosedOnce'
    BY <1>5, <1>6, <1>7, <2>5, TalliesKept DEF EventInv
  <2> QED BY <2>2, <2>6 DEF Tallies
<1> QED BY <1>7, <1>8, <1>9, <1>10, ChangedEvents

\* finish() finishes the stream.
LEMMA FinishEvents ==
  ASSUME CoreTypes, EventFlags, EventInv, Finish PROVE EventInv'
<1>0. DOMAIN st = Fields /\ Verdicts \subseteq Fields
  BY DEF CoreTypes, Verdicts, Fields
<1>1. /\ Top("finish") /\ io' = io /\ events' = events /\ ticks' = ticks
      /\ Call(<<Fe("callFinishedCallbacks", FALSE), F("emitFinish")>>)
  BY DEF Finish, history
<1>2. /\ st'.finished = TRUE /\ st'.finalCalled = st.finalCalled /\ st'.constructed = st.constructed
      /\ st'.prefinished = st.prefinished /\ st'.destroyed = st.destroyed
      /\ st'.closeEmitted = st.closeEmitted /\ st'.errorEmitted = st.errorEmitted
  BY <1>0 DEF Finish, Verdicts
<1>3. stack # <<>> /\ OnTop = "finish"
  BY <1>1 DEF Top, OnTop
<1>4. ~st.closeEmitted /\ ~st.finished
  BY <1>3, WhileOnTop DEF Ending, NotClosed
<1> DEFINE x == Fe("callFinishedCallbacks", FALSE)
           y == F("emitFinish")
           fs == <<x, y>>
<1>5. x \in QuietFrames /\ x.f = "callFinishedCallbacks" /\ y \in Frames /\ y.f = "emitFinish"
  <2>1. x \in QuietFrames
    <3>1. FALSE \in BOOLEAN
      OBVIOUS
    <3> QED BY <3>1, QuietMade, QuietNamed
  <2>2. x.f = "callFinishedCallbacks"
    BY FrameNames
  <2>3. "emitFinish" \in Functions
    BY DEF Functions
  <2> QED BY <2>1, <2>2, <2>3, OneFrame
<1>6. Call(fs)
  BY <1>1
<1> HIDE DEF x, y
<1>7. /\ fs \in Seq(Frames) /\ Carries(fs, "emitFinish") /\ DOMAIN fs = {1, 2} /\ fs[1] = x /\ fs[2] = y
      /\ <<>> \in Seq(Frames) /\ Carries(<<>>, "none") /\ DOMAIN <<>> = {} /\ ticks' = ticks \o <<>>
  <2>1. x \in Frames /\ x.f \notin Tracked
    BY <1>5 DEF QuietFrames, Tracked, Ending, Closing
  <2> QED BY <1>1, <1>5, <2>1, FrameLists, TicksRun, ShortCarries, ShortParts
<1> HIDE DEF fs
<1>8. Runs(fs, <<>>)
  <2>1. Shifted(fs)
    BY <1>1, <1>6, <1>7, CallRuns
  <2> QED BY <1>7, <2>1 DEF Runs
<1>9. Leave(fs, <<>>)
  <2>1. /\ fs[1].f \notin Closers /\ fs[1].f \notin Immediate /\ fs[1].f # "finishMaybeCheck"
        /\ fs[2].f \notin Closers /\ fs[2].f \notin Immediate /\ fs[2].f # "finishMaybeCheck"
    BY <1>5, <1>7 DEF Closers, Immediate
  <2> QED BY <1>2, <1>3, <1>4, <1>7, <2>1 DEF Leave
<1>10. Records' /\ EventsOrdered' /\ \A e : Ev(e)' <=> Ev(e)
  <2>1. st.prefinished => st.finalCalled
    BY DEF EventInv, Records
  <2> QED BY <1>1, <1>2, <2>1, EventsSame DEF EventInv
<1>11. Tallies'
  <2>1. /\ Gain(ToFinish, "emitFinish", "none") = 0 - 1 /\ Gain(Ending, "emitFinish", "none") = 0 - 1
        /\ Gain({"emitFinish"}, "emitFinish", "none") = 1
        /\ Gain(Closing, "emitFinish", "none") = 0
    BY <1>3 DEF Gain, Bit, ToFinish, Ending, Closing
  <2>2. ClosedOnce'
    BY <1>1, <1>2, <1>7, <1>8, <2>1, TalliesSame DEF EventInv
  <2>3. /\ Bit("final" \in io') = Bit("final" \in io) /\ Bit(st'.finalCalled) = Bit(st.finalCalled)
        /\ Bit("final" \in io) \in Nat /\ Bit(st.finalCalled) \in Nat
        /\ Bit(st.finished) = 0 /\ Bit(st'.finished) = 1
    BY <1>1, <1>2, <1>4 DEF Bit
  <2>4. Bit(Ev("finish"))' = Bit(Ev("finish")) /\ Bit(Ev("finish")) \in Nat
    BY <1>10 DEF Bit
  <2>5. \A a, b \in Nat : (0 - 1) + a + b <= a + b /\ (0 - 1) + a + 1 + b <= a + 0 + b /\ 1 + a + 0 <= a + 1
    OBVIOUS
  <2>6. Gain(ToFinish, "emitFinish", "none") + Bit("final" \in io') + Bit(st.finalCalled)
          <= Bit("final" \in io) + Bit(st'.finalCalled)
    BY <2>1, <2>3, <2>5
  <2>7. Gain(Ending, "emitFinish", "none") + Bit("final" \in io') + Bit(st'.finished) + Bit(st.finalCalled)
          <= Bit("final" \in io) + Bit(st.finished) + Bit(st'.finalCalled)
    BY <2>1, <2>3, <2>5
  <2>8. Gain({"emitFinish"}, "emitFinish", "none") + Bit(Ev("finish"))' + Bit(st.finished)
          <= Bit(Ev("finish")) + Bit(st'.finished)
    BY <2>1, <2>3, <2>4, <2>5
  <2>9. Finishing' /\ FinishedOnce' /\ FinishEmitted'
    BY <1>7, <1>8, <2>6, <2>7, <2>8, TalliesKept DEF EventInv
  <2> QED BY <2>2, <2>9 DEF Tallies
<1> QED BY <1>8, <1>9, <1>10, <1>11, ChangedEvents

\* 'finish' is emitted.
LEMMA EmitFinishEvents ==
  ASSUME CoreTypes, EventFlags, EventInv, EmitFinish PROVE EventInv'
<1>1. /\ Top("emitFinish") /\ io' = io /\ st' = st /\ ticks' = ticks /\ events' = Append(events, "finish")
      /\ Call(User("finish") \o (IF opt.autoDestroy THEN <<F("destroy")>> ELSE <<>>))
  BY DEF EmitFinish
<1>2. stack # <<>> /\ OnTop = "emitFinish"
  BY <1>1 DEF Top, OnTop
<1>3. ~st.closeEmitted /\ ~Ev("close") /\ ~Ev("finish") /\ st.finished
  BY <1>2, WhileOnTop DEF NotClosed
<1> DEFINE fs == User("finish") \o (IF opt.autoDestroy THEN <<F("destroy")>> ELSE <<>>)
<1>4. Call(fs) /\ fs \in Seq(QuietFrames)
  <2>1. F("destroy") \in QuietFrames
    BY QuietMade, QuietNamed
  <2>2. User("finish") \in Seq(QuietFrames) /\ <<F("destroy")>> \in Seq(QuietFrames) /\ <<>> \in Seq(QuietFrames)
    BY <2>1, QuietLists, QuietUser
  <2>3. (IF opt.autoDestroy THEN <<F("destroy")>> ELSE <<>>) \in Seq(QuietFrames)
    BY <2>2
  <2> QED BY <1>1, <2>2, <2>3, QuietLists
<1> HIDE DEF fs
<1>5. /\ Carries(fs, "none") /\ fs \in Seq(Frames)
      /\ \A i \in DOMAIN fs : /\ fs[i].f \notin Closers /\ fs[i].f \notin Immediate
                              /\ fs[i].f # "finishMaybeCheck" /\ fs[i].f \notin NotClosed
      /\ <<>> \in Seq(Frames) /\ Carries(<<>>, "none") /\ DOMAIN <<>> = {} /\ ticks' = ticks \o <<>>
  BY <1>1, <1>4, QuietClearOf, TicksRun, ShortCarries, ShortParts
<1>6. Runs(fs, <<>>)
  <2>1. Shifted(fs)
    BY <1>1, <1>4, <1>5, CallRuns
  <2> QED BY <1>5, <2>1 DEF Runs
<1>7. Leave(fs, <<>>)
  BY <1>1, <1>2, <1>5, PlainLeave
<1>8. EventsOrdered' /\ events' \in Seq(EventNames) /\ \A x : Ev(x)' <=> Ev(x) \/ x = "finish"
  <2>1. "finish" \in EventNames /\ Records /\ EventsOrdered
    BY DEF EventInv, EventNames
  <2> QED BY <1>1, <1>3, <2>1, EventAdded
<1>9. Records'
  <2>1. Records
    BY DEF EventInv
  <2> QED BY <1>1, <1>8, <2>1 DEF Records
<1>10. Tallies'
  <2>1. /\ Gain(ToFinish, "none", "none") = 0 /\ Gain(Ending, "none", "none") = 0
        /\ Gain(Closing, "none", "none") = 0 /\ Gain({"emitFinish"}, "none", "none") = 0 - 1
    BY <1>2 DEF Gain, Bit, ToFinish, Ending, Closing
  <2>2. Tallies
    BY DEF EventInv
  <2>3. Finishing' /\ FinishedOnce' /\ ClosedOnce'
    BY <1>1, <1>5, <1>6, <2>1, <2>2, TalliesSame
  <2>4. Bit(Ev("finish")) = 0 /\ Bit(Ev("finish"))' = 1 /\ Bit(st.finished) = 1 /\ Bit(st'.finished) = 1
    BY <1>1, <1>3, <1>8 DEF Bit
  <2>5. Gain({"emitFinish"}, "none", "none") + Bit(Ev("finish"))' + Bit(st.finished)
          <= Bit(Ev("finish")) + Bit(st'.finished)
    BY <2>1, <2>4
  <2>6. FinishEmitted'
    BY <1>5, <1>6, <2>2, <2>5, TalliesKept
  <2> QED BY <2>3, <2>6 DEF Tallies
<1> QED BY <1>6, <1>7, <1>8, <1>9, <1>10, ChangedEvents

\* 'error' is emitted, unless it was.
LEMMA EmitErrorEvents ==
  ASSUME CoreTypes, EventFlags, EventInv, EmitErrorNT PROVE EventInv'
<1>0. DOMAIN st = Fields /\ Verdicts \subseteq Fields
  BY DEF CoreTypes, Verdicts, Fields
<1>1. /\ Top("emitErrorNT") /\ io' = io /\ ticks' = ticks
      /\ st' = [st EXCEPT !.errorEmitted = TRUE]
  BY DEF EmitErrorNT
<1>2. stack # <<>> /\ OnTop = "emitErrorNT"
  BY <1>1 DEF Top, OnTop
<1>3. CASE st.errorEmitted
  <2>1. Call(<<>>) /\ events' = events
    BY <1>3 DEF EmitErrorNT
  <2>2. \A x \in Verdicts : st'[x] = st[x]
    BY <1>0, <1>1, <1>3 DEF EventFlags, Verdicts
  <2>3. SameVerdicts
    BY <1>1, <2>1, <2>2 DEF SameVerdicts
  <2>4. QuietLeaves /\ QuietQueues
    BY <1>1, <2>1, QuietWays
  <2> QED BY <1>1, <2>3, <2>4, QuietLeaving
<1>4. CASE ~st.errorEmitted
  <2> DEFINE fs == User("error")
  <2>1. Call(fs) /\ events' = Append(events, "error") /\ fs \in Seq(QuietFrames)
    BY <1>4, QuietUser DEF EmitErrorNT
  <2> HIDE DEF fs
  <2>2. /\ st'.finalCalled = st.finalCalled /\ st'.finished = st.finished
        /\ st'.prefinished = st.prefinished /\ st'.destroyed = st.destroyed /\ st'.constructed = st.constructed
        /\ st'.closeEmitted = st.closeEmitted /\ st'.errorEmitted = TRUE
    BY <1>0, <1>1 DEF Verdicts
  <2>3. ~st.closeEmitted /\ ~Ev("close")
    BY <1>2, WhileOnTop DEF NotClosed
  <2>4. /\ Carries(fs, "none") /\ fs \in Seq(Frames)
        /\ \A i \in DOMAIN fs : /\ fs[i].f \notin Closers /\ fs[i].f \notin Immediate
                                /\ fs[i].f # "finishMaybeCheck" /\ fs[i].f \notin NotClosed
        /\ <<>> \in Seq(Frames) /\ Carries(<<>>, "none") /\ DOMAIN <<>> = {} /\ ticks' = ticks \o <<>>
    BY <1>1, <2>1, QuietClearOf, TicksRun, ShortCarries, ShortParts
  <2>5. Runs(fs, <<>>)
    <3>1. Shifted(fs)
      BY <1>1, <2>1, <2>4, CallRuns
    <3> QED BY <2>4, <3>1 DEF Runs
  <2>6. Leave(fs, <<>>)
    BY <1>2, <2>2, <2>4, PlainLeave
  <2>7. EventsOrdered' /\ events' \in Seq(EventNames) /\ \A x : Ev(x)' <=> Ev(x) \/ x = "error"
    <3>1. "error" \in EventNames /\ Records /\ EventsOrdered
      BY DEF EventInv, EventNames
    <3>2. ~Ev("error")
      BY <1>4, <3>1 DEF Records
    <3> QED BY <2>1, <2>3, <3>1, <3>2, EventAdded
  <2>8. Records'
    <3>1. Records
      BY DEF EventInv
    <3> QED BY <2>2, <2>7, <3>1 DEF Records
  <2>9. Tallies'
    <3>1. /\ Gain(ToFinish, "none", "none") = 0 /\ Gain(Ending, "none", "none") = 0
          /\ Gain(Closing, "none", "none") = 0 /\ Gain({"emitFinish"}, "none", "none") = 0
      BY <1>2 DEF Gain, Bit, ToFinish, Ending, Closing
    <3>2. Ev("finish")' <=> Ev("finish")
      BY <2>7
    <3>3. Tallies
      BY DEF EventInv
    <3> QED BY <1>1, <2>2, <2>4, <2>5, <3>1, <3>2, <3>3, TalliesSame DEF Tallies
  <2> QED BY <2>5, <2>6, <2>7, <2>8, <2>9, ChangedEvents
<1> QED BY <1>3, <1>4

\* 'close' is emitted: alone, and when nothing late is left.
LEMMA EmitCloseEvents ==
  ASSUME CoreTypes, EventFlags, EventInv, EmitCloseNT PROVE EventInv'
<1>0. DOMAIN st = Fields /\ Verdicts \subseteq Fields
  BY DEF CoreTypes, Verdicts, Fields
<1>1. /\ Top("emitCloseNT") /\ io' = io /\ ticks' = ticks
      /\ st' = [st EXCEPT !.closeEmitted = TRUE] /\ events' = Append(events, "close")
      /\ Call(User("close"))
  BY DEF EmitCloseNT
<1>2. stack # <<>> /\ OnTop = "emitCloseNT"
  BY <1>1 DEF Top, OnTop
<1> DEFINE fs == User("close")
<1>3. Call(fs) /\ fs \in Seq(QuietFrames)
  BY <1>1, QuietUser
<1> HIDE DEF fs
<1>4. /\ st'.finalCalled = st.finalCalled /\ st'.finished = st.finished
      /\ st'.prefinished = st.prefinished /\ st'.destroyed = st.destroyed /\ st'.constructed = st.constructed
      /\ st'.closeEmitted = TRUE /\ st'.errorEmitted = st.errorEmitted
  BY <1>0, <1>1 DEF Verdicts
<1>5. st.destroyed /\ ~st.closeEmitted /\ ~Ev("close") /\ "destroy" \notin io
  BY <1>2, WhileOnTop DEF Closing
<1>6. /\ Carries(fs, "none") /\ fs \in Seq(Frames)
      /\ \A i \in DOMAIN fs : /\ fs[i].f \notin Closers /\ fs[i].f \notin Immediate
                              /\ fs[i].f # "finishMaybeCheck" /\ fs[i].f \notin NotClosed
      /\ <<>> \in Seq(Frames) /\ Carries(<<>>, "none") /\ DOMAIN <<>> = {} /\ ticks' = ticks \o <<>>
  BY <1>1, <1>3, QuietClearOf, TicksRun, ShortCarries, ShortParts
<1>7. Runs(fs, <<>>)
  <2>1. Shifted(fs)
    BY <1>1, <1>3, <1>6, CallRuns
  <2> QED BY <1>6, <2>1 DEF Runs
<1>8. Leave(fs, <<>>)
  <2>1. Len(stack) = 1 /\ \A j \in DOMAIN ticks : ticks[j].f \notin Late
    BY <1>2, OnTopFirst DEF EventInv, Places, CloseLast, Closers
  <2> QED BY <1>2, <1>4, <1>6, <2>1, PlainLeave
<1>9. EventsOrdered' /\ events' \in Seq(EventNames) /\ \A x : Ev(x)' <=> Ev(x) \/ x = "close"
  <2>1. "close" \in EventNames /\ Records /\ EventsOrdered
    BY DEF EventInv, EventNames
  <2> QED BY <1>1, <1>5, <2>1, EventAdded
<1>10. Records'
  <2>1. Records
    BY DEF EventInv
  <2> QED BY <1>4, <1>9, <2>1 DEF Records
<1>11. Tallies'
  <2>1. /\ Gain(ToFinish, "none", "none") = 0 /\ Gain(Ending, "none", "none") = 0
        /\ Gain({"emitFinish"}, "none", "none") = 0 /\ Gain(Closing, "none", "none") = 0 - 1
    BY <1>2 DEF Gain, Bit, ToFinish, Ending, Closing
  <2>2. Tallies /\ (Ev("finish")' <=> Ev("finish"))
    BY <1>9 DEF EventInv
  <2>3. Finishing' /\ FinishedOnce' /\ FinishEmitted'
    BY <1>1, <1>4, <1>6, <1>7, <2>1, <2>2, TalliesSame
  <2>4. /\ Bit("destroy" \in io') = 0 /\ Bit("destroy" \in io) = 0
        /\ Bit(st'.destroyed /\ ~st'.constructed) = Bit(st.destroyed /\ ~st.constructed)
        /\ Bit(st.destroyed /\ ~st.constructed) \in Nat
        /\ Bit(st'.closeEmitted) = 1 /\ Bit(st.closeEmitted) = 0
        /\ Bit(st.destroyed) = 1 /\ Bit(st'.destroyed) = 1
    BY <1>1, <1>4, <1>5 DEF Bit
  <2>5. \A b \in Nat : (0 - 1) + 0 + b + 1 + 1 <= 0 + b + 0 + 1
    OBVIOUS
  <2>6. Gain(Closing, "none", "none") + Bit("destroy" \in io') + Bit(st'.destroyed /\ ~st'.constructed)
              + Bit(st'.closeEmitted) + Bit(st.destroyed)
            <= Bit("destroy" \in io) + Bit(st.destroyed /\ ~st.constructed)
              + Bit(st.closeEmitted) + Bit(st'.destroyed)
    BY <2>1, <2>4, <2>5
  <2>7. ClosedOnce'
    BY <1>6, <1>7, <2>2, <2>6, TalliesKept
  <2> QED BY <2>3, <2>7 DEF Tallies
<1> QED BY <1>7, <1>8, <1>9, <1>10, <1>11, ChangedEvents

\* prefinish() ends the stream: it calls _final(), or emits 'prefinish' at once.
LEMMA PrefinishEvents ==
  ASSUME "prefinish" \notin Reenter, CoreTypes, EventFlags, EventInv, Prefinish PROVE EventInv'
<1>0. DOMAIN st = Fields /\ Verdicts \subseteq Fields
  BY DEF CoreTypes, Verdicts, Fields
<1>1. Top("prefinish") /\ io' = io /\ ticks' = ticks
  BY DEF Prefinish
<1>2. stack # <<>> /\ OnTop = "prefinish"
  BY <1>1 DEF Top, OnTop
<1>3. Tallies /\ Records /\ EventsOrdered /\ (st.prefinished => st.finalCalled)
  BY DEF EventInv, Records
<1>4. ~st.destroyed /\ ~st.closeEmitted /\ ~Ev("close")
  <2>1. ~st.destroyed
    BY <1>2, OnTopFirst DEF EventInv, Places, AtOnceOnly, Immediate
  <2>2. ~st.closeEmitted
    BY <1>3, <2>1, NotClosing DEF Tallies
  <2> QED BY <1>3, <2>1, <2>2 DEF Records
<1>5. /\ <<>> \in Seq(Frames) /\ Carries(<<>>, "none") /\ DOMAIN <<>> = {} /\ ticks' = ticks \o <<>>
  BY <1>1, TicksRun, ShortCarries, ShortParts
<1>6. Call(<<>>) => Runs(<<>>, <<>>)
  <2>1. Call(<<>>) => Shifted(<<>>)
    BY <1>1, <1>5, CallRuns
  <2> QED BY <1>5, <2>1 DEF Runs
<1>7. /\ Gain(ToFinish, "none", "none") = 0 /\ Gain(Ending, "none", "none") = 0
      /\ Gain(Closing, "none", "none") = 0 /\ Gain({"emitFinish"}, "none", "none") = 0
      /\ Gain(ToFinish, "_final", "none") = 1 /\ Gain(Ending, "_final", "none") = 1
      /\ Gain(Closing, "_final", "none") = 0 /\ Gain({"emitFinish"}, "_final", "none") = 0
  BY <1>2 DEF Gain, Bit, ToFinish, Ending, Closing
<1>8. \A b : Bit(b) \in Nat
  BY DEF Bit
<1>9. CASE st.prefinished \/ st.finalCalled
  <2>1. Call(<<>>) /\ st' = st /\ events' = events
    BY <1>9 DEF Prefinish
  <2>2. Leave(<<>>, <<>>)
    BY <1>3, <1>5, <1>9, <2>1, PlainLeave
  <2>3. Records' /\ EventsOrdered' /\ \A e : Ev(e)' <=> Ev(e)
    BY <1>3, <2>1, EventsSame
  <2>4. Tallies'
    BY <1>1, <1>3, <1>5, <1>6, <1>7, <2>1, <2>3, TalliesSame DEF Tallies
  <2> QED BY <1>6, <2>1, <2>2, <2>3, <2>4, ChangedEvents
<1>10. CASE ~st.prefinished /\ ~st.finalCalled /\ opt.final
  <2>1. /\ Call(<<F("_final"), F("unsync")>>) /\ events' = events
        /\ st' = [st EXCEPT !.finalCalled = TRUE, !.sync = TRUE, !.pendingcb = @ + 1]
    BY <1>10 DEF Prefinish
  <2>2. /\ st'.finalCalled = TRUE /\ st'.finished = st.finished
        /\ st'.prefinished = st.prefinished /\ st'.destroyed = st.destroyed /\ st'.constructed = st.constructed
        /\ st'.closeEmitted = st.closeEmitted /\ st'.errorEmitted = st.errorEmitted
    BY <1>0, <2>1 DEF Verdicts
  <2> DEFINE x == F("_final")
             y == F("unsync")
             fs == <<x, y>>
  <2>3. x \in Frames /\ x.f = "_final" /\ y \in Frames /\ y.f = "unsync" /\ y.f \notin Tracked
    <3>1. "_final" \in Functions /\ "unsync" \in Functions /\ "unsync" \notin Tracked
      BY DEF Functions, Tracked, Ending, Closing
    <3> QED BY <3>1, OneFrame
  <2>4. Call(fs)
    BY <2>1
  <2> HIDE DEF x, y
  <2>5. fs \in Seq(Frames) /\ Carries(fs, "_final") /\ DOMAIN fs = {1, 2} /\ fs[1] = x /\ fs[2] = y
    BY <2>3, FrameLists, ShortCarries, ShortParts
  <2> HIDE DEF fs
  <2>6. Runs(fs, <<>>)
    <3>1. Shifted(fs)
      BY <1>1, <2>4, <2>5, CallRuns
    <3> QED BY <1>5, <2>5, <3>1 DEF Runs
  <2>7. Leave(fs, <<>>)
    <3>1. \A i \in DOMAIN fs : /\ fs[i].f \notin Closers /\ fs[i].f \notin Immediate
                               /\ fs[i].f # "finishMaybeCheck" /\ fs[i].f \notin NotClosed
      BY <2>3, <2>5 DEF Closers, Immediate, NotClosed
    <3> QED BY <1>5, <2>2, <3>1, PlainLeave
  <2>8. Records' /\ EventsOrdered' /\ \A e : Ev(e)' <=> Ev(e)
    BY <1>3, <2>1, <2>2, EventsSame
  <2>9. FinishEmitted' /\ ClosedOnce'
    BY <1>1, <1>3, <1>5, <1>7, <2>2, <2>5, <2>6, <2>8, TalliesSame
  <2>10. /\ Bit(st.finalCalled) = 0 /\ Bit(st'.finalCalled) = 1 /\ Bit(st'.finished) = Bit(st.finished)
         /\ Bit("final" \in io') = Bit("final" \in io)
    BY <1>1, <1>10, <2>2 DEF Bit
  <2>11. \A a, b \in Nat : 1 + a + 0 <= a + 1 /\ 1 + a + b + 0 <= a + b + 1
    OBVIOUS
  <2>12. /\ Gain(ToFinish, "_final", "none") + Bit("final" \in io') + Bit(st.finalCalled)
              <= Bit("final" \in io) + Bit(st'.finalCalled)
         /\ Gain(Ending, "_final", "none") + Bit("final" \in io') + Bit(st'.finished) + Bit(st.finalCalled)
              <= Bit("final" \in io) + Bit(st.finished) + Bit(st'.finalCalled)
    BY <1>7, <1>8, <2>10, <2>11
  <2>13. Finishing' /\ FinishedOnce'
    BY <1>3, <1>5, <2>5, <2>6, <2>12, TalliesKept
  <2>14. Tallies'
    BY <2>9, <2>13 DEF Tallies
  <2> QED BY <2>6, <2>7, <2>8, <2>14, ChangedEvents
<1>11. CASE ~st.prefinished /\ ~st.finalCalled /\ ~opt.final
  <2>1. /\ Call(<<>>) /\ events' = Append(events, "prefinish")
        /\ st' = [st EXCEPT !.finalCalled = TRUE, !.prefinished = TRUE]
    <3>1. User("prefinish") = <<>>
      BY DEF User
    <3> QED BY <1>11, <3>1 DEF Prefinish
  <2>2. /\ st'.finalCalled = TRUE /\ st'.finished = st.finished
        /\ st'.prefinished = TRUE /\ st'.destroyed = st.destroyed /\ st'.constructed = st.constructed
        /\ st'.closeEmitted = st.closeEmitted /\ st'.errorEmitted = st.errorEmitted
    BY <1>0, <2>1 DEF Verdicts
  <2>3. Leave(<<>>, <<>>)
    BY <1>5, <2>2, PlainLeave
  <2>4. EventsOrdered' /\ events' \in Seq(EventNames) /\ \A x : Ev(x)' <=> Ev(x) \/ x = "prefinish"
    <3>1. "prefinish" \in EventNames /\ ~Ev("prefinish")
      BY <1>3, <1>11 DEF EventNames, Records
    <3> QED BY <1>3, <1>4, <2>1, <3>1, EventAdded
  <2>5. Records'
    BY <1>3, <2>2, <2>4 DEF Records
  <2>6. FinishEmitted' /\ ClosedOnce'
    BY <1>1, <1>3, <1>5, <1>6, <1>7, <2>1, <2>2, <2>4, TalliesSame
  <2>7. /\ Bit(st.finalCalled) = 0 /\ Bit(st'.finalCalled) = 1 /\ Bit(st'.finished) = Bit(st.finished)
        /\ Bit("final" \in io') = Bit("final" \in io)
    BY <1>1, <1>11, <2>2 DEF Bit
  <2>8. \A a, b \in Nat : 0 + a + 0 <= a + 1 /\ 0 + a + b + 0 <= a + b + 1
    OBVIOUS
  <2>9. /\ Gain(ToFinish, "none", "none") + Bit("final" \in io') + Bit(st.finalCalled)
             <= Bit("final" \in io) + Bit(st'.finalCalled)
        /\ Gain(Ending, "none", "none") + Bit("final" \in io') + Bit(st'.finished) + Bit(st.finalCalled)
             <= Bit("final" \in io) + Bit(st.finished) + Bit(st'.finalCalled)
    BY <1>7, <1>8, <2>7, <2>8
  <2>10. Finishing' /\ FinishedOnce'
    BY <1>3, <1>5, <1>6, <2>1, <2>9, TalliesKept
  <2>11. Tallies'
    BY <2>6, <2>10 DEF Tallies
  <2> QED BY <1>6, <2>1, <2>3, <2>4, <2>5, <2>11, ChangedEvents
<1> QED BY <1>9, <1>10, <1>11

\* The callback of _final(): 'prefinish' is emitted, if the stream still is to finish.
LEMMA OnFinishEvents ==
  ASSUME "prefinish" \notin Reenter, CoreTypes, EventFlags, EventInv, OnFinish PROVE EventInv'
<1>0. DOMAIN st = Fields /\ Verdicts \subseteq Fields
  BY DEF CoreTypes, Verdicts, Fields
<1>1. Top("onFinish") /\ io' = io /\ ticks' = ticks
  BY DEF OnFinish
<1>2. stack # <<>> /\ OnTop = "onFinish"
  BY <1>1 DEF Top, OnTop
<1>3. Tallies /\ Records /\ EventsOrdered /\ (st.prefinished => st.finalCalled) /\ st.finalCalled
  BY <1>2, WhileOnTop DEF EventInv, Records, Ending
<1> DEFINE s == [st EXCEPT !.pendingcb = @ - 1]
           quiet == /\ \/ Call(<<Fn("errorOrDestroy", 0)>>) \/ Call(<<>>)
                       \/ Call(<<Fe("callFinishedCallbacks", TRUE), F("onFinishError")>>)
                    /\ events' = events /\ (st' = st \/ st' = s)
           ends == /\ ~st.prefinished /\ needFinish(s) /\ st' = [s EXCEPT !.prefinished = TRUE]
                   /\ events' = Append(events, "prefinish")
                   /\ Call(User("prefinish") \o <<F("onFinishTick")>>)
<1>4. quiet \/ ends
  BY Zenon DEF OnFinish
<1>5. CASE quiet
  <2>1. \A x \in Verdicts : st'[x] = st[x]
    BY <1>0, <1>5 DEF Verdicts
  <2>2. SameVerdicts
    BY <1>1, <1>5, <2>1 DEF SameVerdicts
  <2>3. /\ Fn("errorOrDestroy", 0) \in QuietFrames /\ Fe("callFinishedCallbacks", TRUE) \in QuietFrames
        /\ F("onFinishError") \in QuietFrames
    <3>1. 0 \in Int /\ TRUE \in BOOLEAN
      OBVIOUS
    <3> QED BY <3>1, QuietMade, QuietNamed
  <2>4. QuietLeaves /\ QuietQueues
    BY <1>1, <1>5, <2>3, QuietWays
  <2> QED BY <1>1, <2>2, <2>4, QuietLeaving
<1>6. CASE ends
  <2> DEFINE fs == <<F("onFinishTick")>>
  <2>1. "onFinishTick" \in Functions
    BY DEF Functions
  <2>2. fs \in Seq(Frames) /\ Carries(fs, "onFinishTick") /\ DOMAIN fs = {1} /\ fs[1].f = "onFinishTick"
    BY <2>1, OneFrame
  <2>3. Call(fs)
    <3>1. User("prefinish") = <<>>
      BY DEF User
    <3>2. <<>> \o fs = fs
      BY <2>2
    <3> QED BY <1>6, <3>1, <3>2
  <2> HIDE DEF fs
  <2>4. /\ st'.finalCalled = st.finalCalled /\ st'.finished = st.finished
        /\ st'.prefinished = TRUE /\ st'.destroyed = st.destroyed /\ st'.constructed = st.constructed
        /\ st'.closeEmitted = st.closeEmitted /\ st'.errorEmitted = st.errorEmitted
    BY <1>0, <1>6 DEF Verdicts
  <2>5. ~st.destroyed /\ ~st.closeEmitted /\ ~Ev("close")
    <3>1. s.destroyed = st.destroyed /\ s.closeEmitted = st.closeEmitted
      BY <1>0 DEF Verdicts
    <3> QED BY <1>3, <1>6, <3>1 DEF needFinish, Records
  <2>6. <<>> \in Seq(Frames) /\ Carries(<<>>, "none") /\ DOMAIN <<>> = {} /\ ticks' = ticks \o <<>>
    BY <1>1, TicksRun, ShortCarries, ShortParts
  <2>7. Runs(fs, <<>>)
    <3>1. Shifted(fs)
      BY <1>1, <2>2, <2>3, CallRuns
    <3> QED BY <2>2, <2>6, <3>1 DEF Runs
  <2>8. Leave(fs, <<>>)
    <3>1. fs[1].f \notin Closers /\ fs[1].f # "finishMaybeCheck"
      BY <2>2 DEF Closers
    <3> QED BY <1>3, <2>2, <2>4, <2>5, <2>6, <3>1 DEF Leave
  <2>9. EventsOrdered' /\ events' \in Seq(EventNames) /\ \A x : Ev(x)' <=> Ev(x) \/ x = "prefinish"
    <3>1. "prefinish" \in EventNames /\ ~Ev("prefinish") /\ events' = Append(events, "prefinish")
      BY <1>3, <1>6 DEF EventNames, Records
    <3> QED BY <1>3, <2>5, <3>1, EventAdded
  <2>10. Records'
    BY <1>3, <2>4, <2>9 DEF Records
  <2>11. Tallies'
    <3>1. /\ Gain(ToFinish, "onFinishTick", "none") = 0 /\ Gain(Ending, "onFinishTick", "none") = 0
          /\ Gain(Closing, "onFinishTick", "none") = 0 /\ Gain({"emitFinish"}, "onFinishTick", "none") = 0
      BY <1>2 DEF Gain, Bit, ToFinish, Ending, Closing
    <3>2. Ev("finish")' <=> Ev("finish")
      BY <2>9
    <3> QED BY <1>1, <1>3, <2>2, <2>4, <2>6, <2>7, <3>1, <3>2, TalliesSame DEF Tallies
  <2> QED BY <2>7, <2>8, <2>9, <2>10, <2>11, ChangedEvents
<1> QED BY <1>4, <1>5, <1>6

\* A tick that starts moves from the ticks to the stack: the tallies count both.
LEMMA HeldMoves ==
  ASSUME CoreTypes, RunTick, NEW w \in Weights
  PROVE  Held(w)' = Held(w)
<1>1. ticks \in Seq(Frames) /\ stack \in Seq(Frames) /\ Head(ticks) \in Frames /\ Tail(ticks) \in Seq(Frames)
  BY DEF CoreTypes, RunTick
<1>2. Total(w, stack) = 0 /\ Total(w, stack') = w[Head(ticks)]
  BY <1>1, TotalShort DEF RunTick
<1>3. Total(w, ticks) = w[Head(ticks)] + Total(w, ticks')
  BY <1>1, TotalTail DEF RunTick
<1>4. w[Head(ticks)] \in Nat /\ Total(w, ticks') \in Nat
  <2>1. ticks' \in Seq(Frames)
    BY <1>1 DEF RunTick
  <2> QED BY <1>1, <2>1, TotalNat DEF Weights
<1> QED BY <1>2, <1>3, <1>4 DEF Held

\* The oldest tick starts.
LEMMA RunTickEvents ==
  ASSUME CoreTypes, EventInv, RunTick PROVE EventInv'
<1>1. /\ st' = st /\ io' = io /\ events' = events
      /\ stack = <<>> /\ ticks # <<>> /\ stack' = <<Head(ticks)>> /\ ticks' = Tail(ticks)
  BY DEF RunTick, history
<1>2. Records' /\ EventsOrdered' /\ \A e : Ev(e)' <=> Ev(e)
  <2>1. st.prefinished => st.finalCalled
    BY DEF EventInv, Records
  <2> QED BY <1>1, <2>1, EventsSame DEF EventInv
<1>3. Tallies'
  <2>1. \A S : Held(Of(S))' = Held(Of(S))
    BY HeldMoves, WeightTypes
  <2>2. Bit(Ev("finish"))' = Bit(Ev("finish"))
    BY <1>2 DEF Bit
  <2> QED BY <1>1, <2>1, <2>2 DEF EventInv, Tallies, Finishing, FinishedOnce, FinishEmitted, ClosedOnce
<1>4. /\ DOMAIN stack' = {1} /\ stack'[1] = ticks[1] /\ Len(stack') = 1 /\ 1 \in DOMAIN ticks
      /\ \A i \in DOMAIN ticks' : i \in Nat /\ i + 1 \in DOMAIN ticks /\ ticks'[i] = ticks[i + 1]
  <2>1. ticks \in Seq(Frames)
    BY DEF CoreTypes
  <2>2. Len(ticks) \in Nat /\ Len(ticks) # 0 /\ DOMAIN ticks = 1 .. Len(ticks) /\ Head(ticks) = ticks[1]
    BY <1>1, <2>1
  <2>3. DOMAIN Tail(ticks) = 1 .. Len(ticks) - 1
    BY <1>1, <2>1
  <2>4. \A i \in 1 .. Len(ticks) - 1 : Tail(ticks)[i] = ticks[i + 1]
    BY <1>1, <2>1
  <2>5. \A i \in 1 .. Len(ticks) - 1 : i \in Nat /\ i + 1 \in 1 .. Len(ticks)
    BY <2>2
  <2>6. 1 \in DOMAIN ticks
    BY <2>2
  <2> QED BY <1>1, <2>2, <2>3, <2>4, <2>5, <2>6, ShortParts
<1>5. Places
  BY DEF EventInv
<1>6. CloseLast'
  <2> SUFFICES ASSUME NEW i \in DOMAIN stack', stack'[i].f \in Closers
               PROVE  i = Len(stack') /\ \A j \in DOMAIN ticks' : ticks'[j].f \notin Late
    BY DEF CloseLast
  <2>1. i = 1 /\ i = Len(stack') /\ ticks[1].f \in Closers
    BY <1>4
  <2>2. ASSUME NEW j \in DOMAIN ticks', ticks'[j].f \in Late PROVE FALSE
    <3>1. j \in Nat /\ j + 1 \in DOMAIN ticks /\ ticks[j + 1].f \in Late
      BY <1>4, <2>2
    <3>2. j + 1 < 1
      BY <1>4, <1>5, <2>1, <3>1 DEF Places, CloseTicksLast
    <3> QED BY <3>1, <3>2
  <2> QED BY <2>1, <2>2
<1>7. CloseTicksLast'
  <2> SUFFICES ASSUME NEW i \in DOMAIN ticks', NEW j \in DOMAIN ticks',
                      ticks'[i].f \in Closers, ticks'[j].f \in Late
               PROVE  j < i
    BY DEF CloseTicksLast
  <2>1. /\ i \in Nat /\ i + 1 \in DOMAIN ticks /\ ticks[i + 1].f \in Closers
        /\ j \in Nat /\ j + 1 \in DOMAIN ticks /\ ticks[j + 1].f \in Late
    BY <1>4
  <2>2. j + 1 < i + 1
    BY <1>5, <2>1 DEF Places, CloseTicksLast
  <2> QED BY <2>1, <2>2
<1>8. stack'[1].f \notin NoTicks
  BY <1>4, <1>5 DEF Places, TickKinds
<1>9. AtOnceOnly' /\ CheckLater'
  BY <1>4, <1>8 DEF AtOnceOnly, CheckLater, NoTicks, Immediate
<1>10. AfterClose'
  <2> SUFFICES ASSUME st.closeEmitted
               PROVE  /\ \A i \in DOMAIN stack' : stack'[i].f \notin NotClosed
                      /\ \A i \in DOMAIN ticks' : ticks'[i].f \notin Late
    BY <1>1 DEF AfterClose
  <2>1. \A i \in DOMAIN ticks : ticks[i].f \notin Late
    BY <1>5 DEF Places, AfterClose
  <2>2. ticks[1].f \notin Late
    BY <1>4, <2>1
  <2> QED BY <1>4, <1>8, <2>1, <2>2 DEF NotClosed, NoTicks, Late
<1>11. TickKinds'
  BY <1>4, <1>5 DEF Places, TickKinds
<1> QED BY <1>2, <1>3, <1>6, <1>7, <1>9, <1>10, <1>11 DEF EventInv, Places

\* Every step keeps the order of the events.
LEMMA EventStep ==
  ASSUME "prefinish" \notin Reenter, SinkInv, PendingCounted, EventFlags, EventInv,
         NEW k \in Kinds, NEW n \in 0 .. 1, NEW er \in BOOLEAN, Step(k, n, er)
  PROVE  EventInv'
<1>0. CoreTypes /\ FramesOK
  BY DEF SinkInv
<1>1. CASE \/ UserReturn \/ WriteReturn \/ EndSetEnding \/ EndCallback \/ ImplWrite \/ Unsync
           \/ RunCallbacks \/ ErrorBuffer \/ ErrorLoop \/ ResetBuffer \/ ClearBufferEnd
           \/ OnFinishError \/ CallFinishedCallbacks \/ ConstructNT
           \/ Onwrite \/ OnwriteSync \/ AfterWriteTick \/ AfterWrite \/ AfterWriteLoop \/ OnwriteError
           \/ ClearBuffer \/ ClearBufferLoop
           \/ Write(k) \/ Cork \/ Uncork \/ End(n) \/ UserDestroy(er) \/ ImplWriteLater(er) \/ ImplConstruct(er)
  BY <1>1, OrdinaryEvents
<1>2. CASE ImplFinal \/ ImplDestroy \/ ImplFinalLater(er) \/ ImplDestroyLater(er)
  BY <1>0, <1>2, ImplEvents
<1>3. CASE FinishMaybe \/ FinishMaybeCheck \/ FinishNT
  BY <1>0, <1>3, FinishMaybeEvents, FinishMaybeCheckEvents, FinishNTEvents
<1>4. CASE ErrorOrDestroy \/ OnDestroy \/ OnFinishTick \/ EmitErrorCloseNT
  BY <1>0, <1>4, ErrorOrDestroyEvents, OnDestroyEvents, OnFinishTickEvents, EmitErrorCloseEvents
<1>5. CASE Destroy \/ OnConstruct \/ Finish
  BY <1>0, <1>5, DestroyEvents, OnConstructEvents, FinishEvents
<1>6. CASE EmitFinish \/ EmitErrorNT \/ EmitCloseNT
  BY <1>0, <1>6, EmitFinishEvents, EmitErrorEvents, EmitCloseEvents
<1>7. CASE Prefinish \/ OnFinish
  BY <1>0, <1>7, PrefinishEvents, OnFinishEvents
<1>8. CASE RunTick
  BY <1>0, <1>8, RunTickEvents
<1> QED BY <1>1, <1>2, <1>3, <1>4, <1>5, <1>6, <1>7, <1>8 DEF Step

\* The initial state: nothing runs, and at most _construct() waits in a tick.
LEMMA EventInit == Init => EventInv
<1> SUFFICES ASSUME Init PROVE EventInv
  OBVIOUS
<1>1. /\ stack = <<>> /\ io = {} /\ events = <<>> /\ st = InitState
      /\ ticks = <<>> \/ ticks = <<F("constructNT")>>
  BY DEF Init
<1>2. /\ st.finalCalled = FALSE /\ st.finished = FALSE /\ st.prefinished = FALSE /\ st.destroyed = FALSE
      /\ st.closeEmitted = FALSE /\ st.errorEmitted = FALSE
  BY <1>1 DEF InitState
<1>3. CoreTypes
  BY SinkInit DEF SinkInv
<1>4. DOMAIN stack = {} /\ \A i \in DOMAIN ticks : ticks[i].f = "constructNT"
  <2>1. F("constructNT").f = "constructNT"
    BY FrameNames
  <2> QED BY <1>1, <2>1, ShortParts
<1>5. \A e : ~Ev(e)
  BY <1>1, ShortParts DEF Ev
<1>6. Tallies
  <2>1. \A S : "constructNT" \notin S => Held(Of(S)) = 0
    BY <1>3, <1>4, HeldZero
  <2>2. /\ Held(Of(ToFinish)) = 0 /\ Held(Of(Ending)) = 0 /\ Held(Of({"emitFinish"})) = 0 /\ Held(Of(Closing)) = 0
    BY <2>1 DEF ToFinish, Ending, Closing
  <2>3. /\ Bit("final" \in io) = 0 /\ Bit("destroy" \in io) = 0 /\ Bit(Ev("finish")) = 0
        /\ Bit(st.finalCalled) = 0 /\ Bit(st.finished) = 0 /\ Bit(st.closeEmitted) = 0 /\ Bit(st.destroyed) = 0
        /\ Bit(st.destroyed /\ ~st.constructed) = 0
    BY <1>1, <1>2, <1>5 DEF Bit
  <2> QED BY <2>2, <2>3 DEF Tallies, Finishing, FinishedOnce, FinishEmitted, ClosedOnce
<1>7. Places
  BY <1>2, <1>4 DEF Places, CloseLast, CloseTicksLast, AtOnceOnly, CheckLater, AfterClose, TickKinds,
                    Closers, Late, NoTicks
<1>8. Records
  <2>1. events \in Seq(EventNames)
    BY <1>1
  <2> QED BY <1>2, <1>5, <2>1 DEF Records
<1>9. EventsOrdered
  BY <1>1, ShortParts DEF EventsOrdered, Emitted
<1> QED BY <1>6, <1>7, <1>8, <1>9 DEF EventInv

\* 'prefinish', 'finish', 'error' and 'close' are each emitted once, and 'close' is the
\* last: whichever of finishMaybe(), the callback of _final(), a tick of finish() that
\* looks at nothing again, destroy() and errorOrDestroy() come in which order, when no
\* listener of 'prefinish' calls the stream again and nobody uncorks in errorBuffer().
THEOREM EventsOrderedHolds ==
  ASSUME ~LateUncork, "prefinish" \notin Reenter PROVE Spec => []EventsOrdered
<1> DEFINE Inv == SoundInv /\ EventInv
<1>1. Init => Inv
  <2> SUFFICES ASSUME Init PROVE Inv
    OBVIOUS
  <2> QED BY SoundInit, EventInit
<1>2. Inv /\ [Next]_vars => Inv'
  <2> SUFFICES ASSUME Inv, [Next]_vars PROVE Inv'
    OBVIOUS
  <2>1. SoundInv'
    BY SoundNext
  <2>2. EventInv'
    <3>0. SinkInv /\ PendingCounted /\ RestTypes
      BY DEF SoundInv
    <3>1. EventFlags
      BY <3>0 DEF RestTypes, FlagTypes, Flags, EventFlags
    <3>2. CASE Next
      <4>1. PICK k \in Kinds, n \in 0 .. 1, er \in BOOLEAN : Step(k, n, er)
        BY <3>2, StepOfNext
      <4> QED BY <3>0, <3>1, <4>1, EventStep
    <3>3. CASE UNCHANGED vars
      BY <3>3 DEF vars, EventInv, Tallies, Finishing, FinishedOnce, FinishEmitted, ClosedOnce, Held,
                  Places, CloseLast, CloseTicksLast, AtOnceOnly, CheckLater, AfterClose, TickKinds, OnTop,
                  Records, EventsOrdered, Emitted, Ev
    <3> QED BY <3>2, <3>3
  <2> QED BY <2>1, <2>2
<1>3. Inv => EventsOrdered
  BY DEF EventInv
<1> QED BY <1>1, <1>2, <1>3, PTL DEF Spec
=============================================================================
