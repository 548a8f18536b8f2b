------------------------------ MODULE Writable ------------------------------
(***************************************************************************)
(* The writable side of a stream: lib/internal/streams/writable.js and the *)
(* destroy and construct machinery of lib/internal/streams/destroy.js.     *)
(*                                                                         *)
(* JavaScript runs one call at a time, but every callback and every event  *)
(* runs user code in the middle of the function that emits it.  The model  *)
(* keeps the call stack: a frame is a function, or what is left of one     *)
(* after a call to user code, and a step runs the frame on top.  `ticks'   *)
(* is the process.nextTick queue: a tick is a frame that runs once the     *)
(* stack is empty.                                                         *)
(*                                                                         *)
(* A chunk is its position in the order of the accepted write() calls and  *)
(* has length 1.  A callback is "nop" (none given) or one of the functions *)
(* in Callbacks; two writes may give the same function, which matters to   *)
(* the batching of callbacks.  An error is TRUE or FALSE.                  *)
(***************************************************************************)
EXTENDS Integers, Sequences

CONSTANTS Callbacks,      \* functions the user passes to write()
          Options,        \* option records a stream may be created with
          LateCork,       \* whether the user calls cork() after end()
          LateUncork,     \* whether the user uncorks in the middle of errorBuffer()
          Reenter,        \* the calls of user code that call the stream again
          MaxCalls        \* bound: how often the user calls each method

ASSUME WritableAssumption ==
  /\ "nop" \notin Callbacks
  /\ LateCork \in BOOLEAN /\ LateUncork \in BOOLEAN
  /\ Options \subseteq [highWaterMark: Nat, autoDestroy: BOOLEAN, objectMode: BOOLEAN,
                        writev: BOOLEAN, final: BOOLEAN, construct: BOOLEAN]
  /\ MaxCalls \in [{"write", "end", "cork", "destroy"} -> Nat]

VARIABLES opt,      \* the options of the stream
          st,       \* its WritableState
          buffer,   \* state.buffered from bufferedIndex on: chunks
          stack,    \* call stack, top first
          ticks,    \* process.nextTick queue
          io,       \* calls of the implementation that have not called back
          given,    \* callback of every accepted chunk, by chunk
          sunk,     \* chunks in the order _write and _writev received them
          asked,    \* how often each callback was given to write() or end()
          called,   \* how often it was called
          events,   \* the events emitted, in order ('drain' apart)
          calls     \* how often the user called each method

vars == <<opt, st, buffer, stack, ticks, io, given, sunk, asked, called, events, calls>>

Kinds == Callbacks \cup {"nop"}
Asked == Callbacks \cup {"end"}

(***************************************************************************)
(* A frame: the function, a counter or flag, a list of callbacks to call   *)
(* and an error.                                                           *)
(***************************************************************************)
F(f) == [f |-> f, n |-> 0, cb |-> <<>>, er |-> FALSE]
Fe(f, er) == [F(f) EXCEPT !.er = er]
Fn(f, n) == [F(f) EXCEPT !.n = n]
Fnc(f, n, cb) == [F(f) EXCEPT !.n = n, !.cb = cb]
Fc(cb, er) == [F("callbacks") EXCEPT !.cb = cb, !.er = er]

(* User code runs here; it calls the stream again only at a site in Reenter. *)
User(site) == IF site \in Reenter /\ calls # MaxCalls THEN <<F("user")>> ELSE <<>>

(* The value of writecb for one chunk: nop is the empty list. *)
Single(k) == IF k = "nop" THEN <<>> ELSE <<k>>

(* WritableState as the constructor leaves it (destroy.js construct included). *)
(* failed: chunks whose callback errorBuffer() has called and which are still   *)
(* in the array, before those of `buffer'.                                      *)
InitState ==
  [constructed |-> ~opt.construct, destroyed |-> FALSE, closed |-> FALSE,
   closeEmitted |-> FALSE, errored |-> FALSE, errorEmitted |-> FALSE,
   ending |-> FALSE, finished |-> FALSE, finalCalled |-> FALSE, prefinished |-> FALSE,
   writing |-> FALSE, sync |-> TRUE, expectWriteCb |-> FALSE, needDrain |-> FALSE,
   bufferProcessing |-> FALSE, buffered |-> FALSE,
   afterWritePending |-> FALSE, afterWriteTickInfo |-> FALSE,
   corked |-> 0, length |-> 0, writelen |-> 0, pendingcb |-> 0, onFinished |-> 0,
   writecb |-> <<>>, onDestroy |-> FALSE, destroyErr |-> FALSE, failed |-> <<>>]

Init ==
  /\ opt \in Options
  /\ st = InitState
  /\ buffer = <<>> /\ stack = <<>>
  /\ ticks = IF opt.construct THEN <<F("constructNT")>> ELSE <<>>
  /\ io = {}
  /\ given = <<>> /\ sunk = <<>> /\ events = <<>>
  /\ asked = [k \in Asked |-> 0]
  /\ called = [k \in Asked |-> 0]
  /\ calls = [m \in DOMAIN MaxCalls |-> 0]

-----------------------------------------------------------------------------
(* Helpers of the actions. *)

history == <<given, sunk, asked, called, events, calls>>

(* The frame f is on top; Call replaces it by the frames fs it leaves. *)
Top(f) == stack # <<>> /\ Head(stack).f = f
Call(fs) == stack' = fs \o Tail(stack)
Tick(f) == ticks' = Append(ticks, f)

(* User code calls method m: in a callback, or in a task, a tick or a     *)
(* microtask of its own, which starts when nothing runs.  Push puts the   *)
(* frames of the call above the frame of the user.                        *)
InUser == stack = <<>> \/ Top("user")
UserCalls(m) ==
  /\ InUser /\ calls[m] < MaxCalls[m]
  /\ calls' = [calls EXCEPT ![m] = @ + 1]
Push(fs) == stack' = fs \o (IF stack = <<>> THEN <<F("user")>> ELSE stack)

\* Mutant: a batch counts as one chunk.
StartWriteOne(s, len, cb) ==
  [s EXCEPT !.writelen = 1, !.writecb = cb, !.writing = TRUE, !.sync = TRUE, !.expectWriteCb = TRUE]

(* What doWrite and writeOrBuffer set before they call _write or _writev. *)
StartWrite(s, len, cb) ==
  [s EXCEPT !.writelen = len, !.writecb = cb, !.writing = TRUE, !.sync = TRUE,
            !.expectWriteCb = TRUE]

(* resetBuffer(), bit kBuffered; the array itself is `buffer'. *)
ResetBits(s) == [s EXCEPT !.buffered = FALSE, !.failed = <<>>]

needFinish(s) ==
  /\ s.ending /\ s.constructed
  /\ ~s.destroyed /\ ~s.finished /\ ~s.writing /\ ~s.errorEmitted /\ ~s.closeEmitted
  /\ ~s.errored /\ ~s.buffered
  /\ s.length = 0

-----------------------------------------------------------------------------
(* The user's calls. *)

UserReturn ==
  /\ Top("user")
  /\ Call(<<>>)
  /\ UNCHANGED <<opt, st, buffer, ticks, io, history>>

(* write(): refused after end() or destroy(), else accepted. *)
writeRefused(k) ==
  /\ st.ending \/ st.destroyed
  /\ Tick(Fc(Single(k), TRUE))
  /\ Push(<<Fn("errorOrDestroy", 1)>>)
  /\ UNCHANGED <<st, buffer, given, sunk>>

\* Mutant: a write in progress is not waited for.
MustBufferUnlessCorked == st.errored \/ st.corked > 0 \/ ~st.constructed
MustBuffer == st.writing \/ st.errored \/ st.corked > 0 \/ ~st.constructed

(* writeOrBuffer() queues the chunk, or passes it to _write at once. *)
writeOrBuffer(k) ==
  LET s == [st EXCEPT !.pendingcb = @ + 1, !.length = @ + 1]
      c == Len(given) + 1
  IN
  /\ ~st.ending /\ ~st.destroyed
  /\ given' = Append(given, k)
  /\ \/ /\ MustBuffer
        /\ buffer' = Append(buffer, c)
        /\ st' = [s EXCEPT !.buffered = TRUE]
        /\ Push(<<F("writeReturn")>>)
        /\ UNCHANGED sunk
     \/ /\ ~MustBuffer
        /\ st' = StartWrite(s, 1, Single(k))
        /\ sunk' = Append(sunk, c)
        /\ Push(<<F("_write"), F("unsync"), F("writeReturn")>>)
        /\ UNCHANGED buffer
  /\ UNCHANGED ticks

Write(k) ==
  /\ UserCalls("write")
  /\ writeRefused(k) \/ writeOrBuffer(k)
  /\ asked' = IF k = "nop" THEN asked ELSE [asked EXCEPT ![k] = @ + 1]
  /\ UNCHANGED <<opt, io, called, events>>

(* The end of writeOrBuffer(): the return value, and the promise of 'drain'. *)
WriteReturn ==
  /\ Top("writeReturn")
  /\ st' = [st EXCEPT !.needDrain = @ \/ (st.length # 0 /\ st.length >= opt.highWaterMark)]
  /\ Call(<<>>)
  /\ UNCHANGED <<opt, buffer, ticks, io, history>>

Cork ==
  /\ UserCalls("cork")
  /\ st.ending => LateCork
  /\ st' = [st EXCEPT !.corked = @ + 1]
  /\ Push(<<>>)
  /\ UNCHANGED <<opt, buffer, ticks, io, given, sunk, asked, called, events>>

MayUncork == st.corked = 0 \/ st.failed = <<>> \/ LateUncork
Uncork ==
  /\ InUser /\ st.corked > 0 /\ MayUncork
  /\ st' = [st EXCEPT !.corked = @ - 1]
  /\ Push(IF st.writing THEN <<>> ELSE <<F("clearBuffer")>>)
  /\ UNCHANGED <<opt, buffer, ticks, io, history>>

(* end(), with or without a callback (n = 1: with). It fully uncorks first. *)
End(n) ==
  /\ UserCalls("end") /\ MayUncork
  /\ asked' = [asked EXCEPT !["end"] = @ + n]
  /\ st' = [st EXCEPT !.corked = 0]
  /\ Push((IF st.corked > 0 /\ ~st.writing THEN <<F("clearBuffer")>> ELSE <<>>)
           \o <<Fn("end", n)>>)
  /\ UNCHANGED <<opt, buffer, ticks, io, given, sunk, called, events>>

EndSetEnding ==
  /\ Top("end")
  /\ LET n == Head(stack).n IN
     \/ /\ ~st.ending /\ ~st.errored
        /\ st' = [st EXCEPT !.ending = TRUE]
        /\ Call(<<Fn("finishMaybe", 1), Fn("endCallback", n)>>)
     \/ /\ st.ending \/ st.errored
        /\ Call(<<[Fn("endCallback", n) EXCEPT !.er = st.finished \/ st.destroyed]>>)
        /\ UNCHANGED st
  /\ UNCHANGED <<opt, buffer, ticks, io, history>>

EndCallback ==
  /\ Top("endCallback")
  /\ LET fr == Head(stack) IN
     \/ /\ fr.n = 0
        /\ UNCHANGED <<st, ticks>>
     \/ /\ fr.n = 1 /\ (fr.er \/ st.errored \/ st.finished)
        /\ Tick(Fc(<<"end">>, fr.er \/ st.errored))
        /\ UNCHANGED st
     \/ /\ fr.n = 1 /\ ~(fr.er \/ st.errored \/ st.finished)
        /\ st' = [st EXCEPT !.onFinished = @ + 1]
        /\ UNCHANGED ticks
  /\ Call(<<>>)
  /\ UNCHANGED <<opt, buffer, io, history>>

(* destroy(er) of the user. *)
UserDestroy(er) ==
  /\ UserCalls("destroy")
  /\ Push(<<Fe("destroy", er)>>)
  /\ UNCHANGED <<opt, st, buffer, ticks, io, given, sunk, asked, called, events>>

-----------------------------------------------------------------------------
(* Writing. *)

(* The implementation's _write or _writev: it calls back before it returns, *)
(* or keeps the callback for later.                                         *)
ImplWrite ==
  /\ Top("_write")
  /\ \/ \E er \in BOOLEAN : Call(<<Fe("onwrite", er)>>) /\ UNCHANGED io
     \/ io' = io \cup {"write"} /\ Call(<<>>)
  /\ UNCHANGED <<opt, st, buffer, ticks, history>>

ImplWriteLater(er) ==
  /\ stack = <<>> /\ "write" \in io
  /\ io' = io \ {"write"}
  /\ stack' = <<Fe("onwrite", er)>>
  /\ UNCHANGED <<opt, st, buffer, ticks, history>>

(* state.sync is cleared when _write, _writev or _final has returned. *)
Unsync ==
  /\ Top("unsync")
  /\ st' = [st EXCEPT !.sync = FALSE]
  /\ Call(<<>>)
  /\ UNCHANGED <<opt, buffer, ticks, io, history>>

(* The callback of _write is called. *)
Onwrite ==
  /\ Top("onwrite")
  /\ LET er == Head(stack).er
         cb == st.writecb
         s == [st EXCEPT !.writecb = <<>>, !.writing = FALSE, !.expectWriteCb = FALSE,
                         !.length = @ - st.writelen, !.writelen = 0]
     IN
     \/ /\ ~st.expectWriteCb              \* ERR_MULTIPLE_CALLBACK
        /\ Call(<<Fn("errorOrDestroy", 0)>>)
        /\ UNCHANGED <<st, ticks>>
     \/ /\ st.expectWriteCb /\ er
        /\ st' = [s EXCEPT !.errored = TRUE]
        /\ \/ st.sync /\ Tick(Fnc("onwriteError", 0, cb)) /\ Call(<<>>)
           \/ ~st.sync /\ Call(<<Fnc("onwriteError", 0, cb)>>) /\ UNCHANGED ticks
     \/ /\ st.expectWriteCb /\ ~er
        /\ st' = s
        /\ Call(<<F("clearBuffer"),
                  IF st.sync THEN Fnc("onwriteSync", 0, cb) ELSE Fnc("afterWrite", 1, cb)>>)
        /\ UNCHANGED ticks
  /\ UNCHANGED <<opt, buffer, io, history>>

(* The tick that holds the current afterWriteTickInfo: the youngest one. *)
InfoTick == CHOOSE i \in DOMAIN ticks :
              /\ ticks[i].f = "afterWriteTick"
              /\ \A j \in DOMAIN ticks : ticks[j].f = "afterWriteTick" => j <= i

\* Mutant: 'drain' is forgotten.
NeedTickObject == opt.objectMode
(* `state[kState] & kDestroyed !== 0' in the code reads the objectMode bit. *)
NeedTick == (st.needDrain /\ st.length = 0) \/ opt.objectMode

(* The rest of onwrite() when _write called back synchronously: afterWrite  *)
(* is put off to a tick, which writes with the same callback share.         *)
OnwriteSync ==
  /\ Top("onwriteSync")
  /\ LET cb == Head(stack).cb
         same == st.afterWriteTickInfo /\ Len(cb) = 1 /\ ticks[InfoTick].cb = cb
     IN
     \/ /\ cb = <<>> /\ ~st.afterWritePending /\ NeedTick
        /\ Tick(Fnc("afterWrite", 1, cb))
        /\ st' = [st EXCEPT !.afterWritePending = TRUE]
        /\ Call(<<>>)
     \/ /\ cb = <<>> /\ (st.afterWritePending \/ ~NeedTick)
        /\ st' = [st EXCEPT !.pendingcb = @ - 1]
        /\ Call(<<Fn("finishMaybe", 1)>>)
        /\ UNCHANGED ticks
     \/ /\ cb # <<>> /\ same
        /\ ticks' = [ticks EXCEPT ![InfoTick].n = @ + 1]
        /\ Call(<<>>)
        /\ UNCHANGED st
     \/ /\ cb # <<>> /\ ~same
        /\ Tick(Fnc("afterWriteTick", 1, cb))
        /\ st' = [st EXCEPT !.afterWritePending = TRUE, !.afterWriteTickInfo = TRUE]
        /\ Call(<<>>)
  /\ UNCHANGED <<opt, buffer, io, history>>

AfterWriteTick ==
  /\ Top("afterWriteTick")
  /\ st' = [st EXCEPT !.afterWriteTickInfo = FALSE]
  /\ Call(<<Fnc("afterWrite", Head(stack).n, Head(stack).cb)>>)
  /\ UNCHANGED <<opt, buffer, ticks, io, history>>

(* afterWrite(): 'drain' first, ... *)
AfterWrite ==
  /\ Top("afterWrite")
  /\ LET rest == Fnc("afterWriteLoop", Head(stack).n, Head(stack).cb)
         drain == st.needDrain /\ ~st.ending /\ ~st.destroyed /\ st.length = 0
     IN /\ st' = [st EXCEPT !.afterWritePending = FALSE, !.needDrain = @ /\ ~drain]
        /\ Call((IF drain THEN User("drain") ELSE <<>>) \o <<rest>>)
  /\ UNCHANGED <<opt, buffer, ticks, io, history>>

(* ... then the callbacks, then what a destroyed or ending stream still owes. *)
AfterWriteLoop ==
  /\ Top("afterWriteLoop")
  /\ LET fr == Head(stack) IN
     \/ /\ fr.n > 0
        /\ st' = [st EXCEPT !.pendingcb = @ - 1]
        /\ Call(<<Fc(fr.cb, FALSE), [fr EXCEPT !.n = @ - 1]>>)
     \/ /\ fr.n = 0
        /\ Call((IF st.destroyed THEN <<F("errorBuffer")>> ELSE <<>>)
                 \o <<Fn("finishMaybe", 1)>>)
        /\ UNCHANGED st
  /\ UNCHANGED <<opt, buffer, ticks, io, history>>

OnwriteError ==
  /\ Top("onwriteError")
  /\ st' = [st EXCEPT !.pendingcb = @ - 1]
  /\ Call(<<Fc(Head(stack).cb, TRUE), F("errorBuffer"), Fn("errorOrDestroy", 0)>>)
  /\ UNCHANGED <<opt, buffer, ticks, io, history>>

(* One callback of a list; a closure of clearBuffer holds nops too. *)
RunCallbacks ==
  /\ Top("callbacks")
  /\ LET fr == Head(stack) IN
     \/ /\ fr.cb = <<>>
        /\ Call(<<>>)
        /\ UNCHANGED called
     \/ /\ fr.cb # <<>> /\ Head(fr.cb) = "nop"
        /\ Call(<<[fr EXCEPT !.cb = Tail(@)]>>)
        /\ UNCHANGED called
     \/ /\ fr.cb # <<>> /\ Head(fr.cb) # "nop"
        /\ called' = [called EXCEPT ![Head(fr.cb)] = @ + 1]
        /\ Call(User("cb") \o <<[fr EXCEPT !.cb = Tail(@)]>>)
  /\ UNCHANGED <<opt, st, buffer, ticks, io, given, sunk, asked, events, calls>>

(* errorBuffer(): every queued write fails, then the callbacks of end(). *)
ErrorBuffer ==
  /\ Top("errorBuffer")
  /\ Call(IF st.writing THEN <<>> ELSE <<F("errorLoop")>>)
  /\ UNCHANGED <<opt, st, buffer, ticks, io, history>>

(* The frame's n is the last chunk that failed. *)
ErrorLoop ==
  /\ Top("errorLoop")
  /\ LET todo == {i \in DOMAIN buffer : buffer[i] > Head(stack).n}
         i == CHOOSE i \in todo : \A j \in todo : i <= j
     IN
     \/ /\ todo # {}
        /\ st' = [st EXCEPT !.length = @ - 1, !.failed = @ \o SubSeq(buffer, 1, i)]
        /\ buffer' = SubSeq(buffer, i + 1, Len(buffer))
        /\ Call(<<Fc(Single(given[buffer[i]]), TRUE), Fn("errorLoop", buffer[i])>>)
     \/ /\ todo = {}
        /\ Call(<<Fe("callFinishedCallbacks", TRUE), F("resetBuffer")>>)
        /\ UNCHANGED <<st, buffer>>
  /\ UNCHANGED <<opt, ticks, io, history>>

ResetBuffer ==
  /\ Top("resetBuffer")
  /\ st' = ResetBits(st)
  /\ buffer' = <<>>
  /\ Call(<<>>)
  /\ UNCHANGED <<opt, ticks, io, history>>

(* clearBuffer(): all chunks in one _writev, or one _write after the other  *)
(* as long as they complete synchronously (a failed one does not stop it).  *)
Array == st.failed \o buffer
ClearBuffer ==
  /\ Top("clearBuffer")
  /\ \/ /\ st.destroyed \/ st.bufferProcessing \/ st.corked > 0 \/ ~st.buffered
           \/ ~st.constructed \/ Array = <<>>
        /\ Call(<<>>)
        /\ UNCHANGED <<st, buffer, sunk>>
     \/ /\ ~st.destroyed /\ ~st.bufferProcessing /\ st.corked = 0 /\ st.buffered
        /\ st.constructed /\ Array # <<>>
        /\ LET s == [st EXCEPT !.bufferProcessing = TRUE, !.failed = <<>>] IN
           \/ /\ Len(Array) > 1 /\ opt.writev
              /\ LET ks == [i \in DOMAIN Array |-> given[Array[i]]]
                     cb == IF \A i \in DOMAIN ks : ks[i] = "nop" THEN <<>> ELSE ks
                 IN st' = StartWrite([s EXCEPT !.pendingcb = @ - (Len(Array) - 1)], st.length, cb)
              /\ sunk' = sunk \o Array
              /\ buffer' = <<>>
              /\ Call(<<F("_write"), F("unsync"), F("clearBufferEnd")>>)
           \/ /\ ~(Len(Array) > 1 /\ opt.writev)
              /\ st' = s
              /\ buffer' = Array
              /\ Call(<<F("clearBufferLoop")>>)
              /\ UNCHANGED sunk
  /\ UNCHANGED <<opt, ticks, io, given, asked, called, events, calls>>

ClearBufferLoop ==
  /\ Top("clearBufferLoop")
  /\ \/ /\ buffer # <<>> /\ ~st.writing
        /\ st' = StartWrite(st, 1, Single(given[Head(buffer)]))
        /\ sunk' = Append(sunk, Head(buffer))
        /\ buffer' = Tail(buffer)
        /\ Call(<<F("_write"), F("unsync"), F("clearBufferLoop")>>)
     \/ /\ buffer = <<>> \/ st.writing
        /\ Call(<<F("clearBufferEnd")>>)
        /\ UNCHANGED <<st, buffer, sunk>>
  /\ UNCHANGED <<opt, ticks, io, given, asked, called, events, calls>>

ClearBufferEnd ==
  /\ Top("clearBufferEnd")
  /\ st' = [(IF buffer = <<>> THEN ResetBits(st) ELSE st) EXCEPT !.bufferProcessing = FALSE]
  /\ Call(<<>>)
  /\ UNCHANGED <<opt, buffer, ticks, io, history>>

-----------------------------------------------------------------------------
(* Finishing. *)

FinishMaybe ==
  /\ Top("finishMaybe")
  /\ Call(IF needFinish(st) THEN <<F("prefinish"), Fn("finishMaybeCheck", Head(stack).n)>>
                            ELSE <<>>)
  /\ UNCHANGED <<opt, st, buffer, ticks, io, history>>

Prefinish ==
  /\ Top("prefinish")
  /\ \/ /\ st.prefinished \/ st.finalCalled
        /\ Call(<<>>)
        /\ UNCHANGED <<st, events>>
     \/ /\ ~st.prefinished /\ ~st.finalCalled /\ opt.final
        /\ st' = [st EXCEPT !.finalCalled = TRUE, !.sync = TRUE, !.pendingcb = @ + 1]
        /\ Call(<<F("_final"), F("unsync")>>)
        /\ UNCHANGED events
     \/ /\ ~st.prefinished /\ ~st.finalCalled /\ ~opt.final
        /\ st' = [st EXCEPT !.finalCalled = TRUE, !.prefinished = TRUE]
        /\ events' = Append(events, "prefinish")
        /\ Call(User("prefinish"))
  /\ UNCHANGED <<opt, buffer, ticks, io, given, sunk, asked, called, calls>>

FinishMaybeCheck ==
  /\ Top("finishMaybeCheck")
  /\ \/ /\ st.pendingcb = 0 /\ Head(stack).n = 1
        /\ st' = [st EXCEPT !.pendingcb = @ + 1]
        /\ Tick(F("finishNT"))
        /\ Call(<<>>)
     \/ /\ st.pendingcb = 0 /\ Head(stack).n = 0 /\ needFinish(st)
        /\ st' = [st EXCEPT !.pendingcb = @ + 1]
        /\ Call(<<F("finish")>>)
        /\ UNCHANGED ticks
     \/ /\ st.pendingcb # 0 \/ (Head(stack).n = 0 /\ ~needFinish(st))
        /\ Call(<<>>)
        /\ UNCHANGED <<st, ticks>>
  /\ UNCHANGED <<opt, buffer, io, history>>

FinishNT ==
  /\ Top("finishNT")
  /\ \/ /\ needFinish(st)
        /\ Call(<<F("finish")>>)
        /\ UNCHANGED st
     \/ /\ ~needFinish(st)
        /\ st' = [st EXCEPT !.pendingcb = @ - 1]
        /\ Call(<<>>)
  /\ UNCHANGED <<opt, buffer, ticks, io, history>>

(* The implementation's _final calls back before it returns, or later. *)
ImplFinal ==
  /\ Top("_final")
  /\ \/ \E er \in BOOLEAN : Call(<<Fe("onFinish", er)>>) /\ UNCHANGED io
     \/ io' = io \cup {"final"} /\ Call(<<>>)
  /\ UNCHANGED <<opt, st, buffer, ticks, history>>

ImplFinalLater(er) ==
  /\ stack = <<>> /\ "final" \in io
  /\ io' = io \ {"final"}
  /\ stack' = <<Fe("onFinish", er)>>
  /\ UNCHANGED <<opt, st, buffer, ticks, history>>

OnFinish ==
  /\ Top("onFinish")
  /\ LET er == Head(stack).er
         s == [st EXCEPT !.pendingcb = @ - 1]
     IN
     \/ /\ st.prefinished
        /\ Call(<<Fn("errorOrDestroy", 0)>>)
        /\ UNCHANGED <<st, events>>
     \/ /\ ~st.prefinished /\ er
        /\ st' = s
        /\ Call(<<Fe("callFinishedCallbacks", TRUE), F("onFinishError")>>)
        /\ UNCHANGED events
     \/ /\ ~st.prefinished /\ ~er /\ needFinish(s)
        /\ st' = [s EXCEPT !.prefinished = TRUE]
        /\ events' = Append(events, "prefinish")
        /\ Call(User("prefinish") \o <<F("onFinishTick")>>)
     \/ /\ ~st.prefinished /\ ~er /\ ~needFinish(s)
        /\ st' = s
        /\ Call(<<>>)
        /\ UNCHANGED events
  /\ UNCHANGED <<opt, buffer, ticks, io, given, sunk, asked, called, calls>>

OnFinishError ==
  /\ Top("onFinishError")
  /\ Call(<<Fn("errorOrDestroy", IF st.sync THEN 1 ELSE 0)>>)
  /\ UNCHANGED <<opt, st, buffer, ticks, io, history>>

(* 'finish' follows in a tick that looks at nothing again. *)
OnFinishTick ==
  /\ Top("onFinishTick")
  /\ st' = [st EXCEPT !.pendingcb = @ + 1]
  /\ Tick(F("finish"))
  /\ Call(<<>>)
  /\ UNCHANGED <<opt, buffer, io, history>>

CallFinishedCallbacks ==
  /\ Top("callFinishedCallbacks")
  /\ st' = [st EXCEPT !.onFinished = 0]
  /\ Call(<<Fc([i \in 1 .. st.onFinished |-> "end"], Head(stack).er)>>)
  /\ UNCHANGED <<opt, buffer, ticks, io, history>>

Finish ==
  /\ Top("finish")
  /\ st' = [st EXCEPT !.pendingcb = @ - 1, !.finished = TRUE]
  /\ Call(<<Fe("callFinishedCallbacks", FALSE), F("emitFinish")>>)
  /\ UNCHANGED <<opt, buffer, ticks, io, history>>

EmitFinish ==
  /\ Top("emitFinish")
  /\ events' = Append(events, "finish")
  /\ Call(User("finish") \o (IF opt.autoDestroy THEN <<F("destroy")>> ELSE <<>>))
  /\ UNCHANGED <<opt, st, buffer, ticks, io, given, sunk, asked, called, calls>>

-----------------------------------------------------------------------------
(* Errors, destroy() and construction. *)

ErrorOrDestroy ==
  /\ Top("errorOrDestroy")
  /\ \/ /\ st.destroyed
        /\ Call(<<>>)
        /\ UNCHANGED <<st, ticks>>
     \/ /\ ~st.destroyed /\ opt.autoDestroy
        /\ Call(<<Fe("destroy", TRUE)>>)
        /\ UNCHANGED <<st, ticks>>
     \/ /\ ~st.destroyed /\ ~opt.autoDestroy
        /\ st' = [st EXCEPT !.errored = TRUE]
        /\ \/ Head(stack).n = 1 /\ Tick(F("emitErrorNT")) /\ Call(<<>>)
           \/ Head(stack).n = 0 /\ Call(<<F("emitErrorNT")>>) /\ UNCHANGED ticks
  /\ UNCHANGED <<opt, buffer, io, history>>

\* Mutant: queued writes are forgotten.
OwedEnd == st.onFinished > 0
Owed == st.buffered \/ st.onFinished > 0

(* Writable.prototype.destroy(), then destroy() of destroy.js. *)
Destroy ==
  /\ Top("destroy")
  /\ LET er == Head(stack).er IN
     \/ /\ st.destroyed
        /\ Call(<<>>)
        /\ UNCHANGED <<st, ticks>>
     \/ /\ ~st.destroyed
        /\ ticks' = IF Owed
                    THEN Append(ticks, F("errorBuffer")) ELSE ticks
        /\ st' = [st EXCEPT !.destroyed = TRUE, !.errored = @ \/ er,
                            !.onDestroy = ~st.constructed, !.destroyErr = er]
        /\ Call(IF st.constructed THEN <<Fe("_destroy", er)>> ELSE <<>>)
  /\ UNCHANGED <<opt, buffer, io, history>>

(* The implementation's _destroy passes the error on, or fails itself. *)
ImplDestroy ==
  /\ Top("_destroy")
  /\ \/ \E er \in {Head(stack).er, TRUE} : Call(<<Fe("onDestroy", er)>>) /\ UNCHANGED io
     \/ io' = io \cup {"destroy"} /\ Call(<<>>)
  /\ UNCHANGED <<opt, st, buffer, ticks, history>>

ImplDestroyLater(er) ==
  /\ stack = <<>> /\ "destroy" \in io /\ er \in {st.destroyErr, TRUE}
  /\ io' = io \ {"destroy"}
  /\ stack' = <<Fe("onDestroy", er)>>
  /\ UNCHANGED <<opt, st, buffer, ticks, history>>

OnDestroy ==
  /\ Top("onDestroy")
  /\ LET er == Head(stack).er IN
     /\ st' = [st EXCEPT !.errored = @ \/ er, !.closed = TRUE]
     /\ Tick(F(IF er THEN "emitErrorCloseNT" ELSE "emitCloseNT"))
  /\ Call(<<>>)
  /\ UNCHANGED <<opt, buffer, io, history>>

EmitErrorCloseNT ==
  /\ Top("emitErrorCloseNT")
  /\ Call(<<F("emitErrorNT"), F("emitCloseNT")>>)
  /\ UNCHANGED <<opt, st, buffer, ticks, io, history>>

\* Mutant: errorEmitted is not looked at.
EmitErrorNTAgain ==
  /\ Top("emitErrorNT")
  /\ st' = [st EXCEPT !.errorEmitted = TRUE]
  /\ events' = Append(events, "error")
  /\ Call(User("error"))
  /\ UNCHANGED <<opt, buffer, ticks, io, given, sunk, asked, called, calls>>

EmitErrorNT ==
  /\ Top("emitErrorNT")
  /\ st' = [st EXCEPT !.errorEmitted = TRUE]
  /\ events' = IF st.errorEmitted THEN events ELSE Append(events, "error")
  /\ Call(IF st.errorEmitted THEN <<>> ELSE User("error"))
  /\ UNCHANGED <<opt, buffer, ticks, io, given, sunk, asked, called, calls>>

EmitCloseNT ==
  /\ Top("emitCloseNT")
  /\ st' = [st EXCEPT !.closeEmitted = TRUE]
  /\ events' = Append(events, "close")
  /\ Call(User("close"))
  /\ UNCHANGED <<opt, buffer, ticks, io, given, sunk, asked, called, calls>>

(* constructNT calls _construct, whose callback queues onConstruct. *)
ConstructNT ==
  /\ Top("constructNT")
  /\ io' = io \cup {"construct"}
  /\ Call(<<>>)
  /\ UNCHANGED <<opt, st, buffer, ticks, history>>

ImplConstruct(er) ==
  /\ stack = <<>> /\ "construct" \in io
  /\ io' = io \ {"construct"}
  /\ Tick(Fe("onConstruct", er))
  /\ UNCHANGED <<opt, st, buffer, stack, history>>

\* Mutant: a destroy() that came first is forgotten.
AfterConstructForgets(er) ==
  IF er THEN <<Fn("errorOrDestroy", 1)>> ELSE <<F("clearBuffer"), Fn("finishMaybe", 0)>>

(* A destroy() that came first, an error, or onConstructed of WritableState. *)
AfterConstruct(er) ==
  IF st.destroyed THEN <<Fe("_destroy", er \/ st.destroyErr)>>
  ELSE IF er THEN <<Fn("errorOrDestroy", 1)>>
  ELSE <<F("clearBuffer"), Fn("finishMaybe", 0)>>

OnConstruct ==
  /\ Top("onConstruct")
  /\ Call(AfterConstruct(Head(stack).er))
  /\ st' = [st EXCEPT !.constructed = TRUE, !.onDestroy = FALSE,
                      !.destroyErr = @ \/ (st.destroyed /\ Head(stack).er)]
  /\ UNCHANGED <<opt, buffer, ticks, io, history>>

(* process.nextTick: the oldest tick starts when nothing runs. *)
RunTick ==
  /\ stack = <<>> /\ ticks # <<>>
  /\ stack' = <<Head(ticks)>>
  /\ ticks' = Tail(ticks)
  /\ UNCHANGED <<opt, st, buffer, io, history>>

-----------------------------------------------------------------------------
UserCall ==
  \/ \E k \in Kinds : Write(k)
  \/ Cork \/ Uncork
  \/ \E n \in 0 .. 1 : End(n)
  \/ \E er \in BOOLEAN : UserDestroy(er)

Implementation ==
  \E er \in BOOLEAN : ImplWriteLater(er) \/ ImplFinalLater(er) \/ ImplDestroyLater(er)
                      \/ ImplConstruct(er)

Run ==
  \/ UserReturn \/ WriteReturn \/ EndSetEnding \/ EndCallback
  \/ ImplWrite \/ Unsync \/ Onwrite \/ OnwriteSync \/ AfterWriteTick \/ AfterWrite
  \/ AfterWriteLoop \/ OnwriteError \/ RunCallbacks \/ ErrorBuffer \/ ErrorLoop
  \/ ResetBuffer \/ ClearBuffer \/ ClearBufferLoop \/ ClearBufferEnd
  \/ FinishMaybe \/ Prefinish \/ FinishMaybeCheck \/ FinishNT \/ ImplFinal \/ OnFinish
  \/ OnFinishError \/ OnFinishTick \/ CallFinishedCallbacks \/ Finish \/ EmitFinish
  \/ ErrorOrDestroy \/ Destroy \/ ImplDestroy \/ OnDestroy \/ EmitErrorCloseNT
  \/ EmitErrorNT \/ EmitCloseNT \/ ConstructNT \/ OnConstruct \/ RunTick

Next == UserCall \/ Implementation \/ Run

Spec == Init /\ [][Next]_vars

(* Code that runs returns and ticks run; the implementation calls back. *)
FairSpec == Spec /\ WF_vars(Run) /\ WF_vars(Implementation)

-----------------------------------------------------------------------------
Flags == {"constructed", "destroyed", "closed", "closeEmitted", "errored", "errorEmitted", "ending",
          "finished", "finalCalled", "prefinished", "writing", "sync", "expectWriteCb", "needDrain",
          "bufferProcessing", "buffered", "afterWritePending", "afterWriteTickInfo", "onDestroy",
          "destroyErr"}

(* The types of the variables; the counters of the state never go below zero. *)
TypeOK ==
  /\ opt \in Options
  /\ \A f \in Flags : st[f] \in BOOLEAN
  /\ \A c \in {"corked", "length", "writelen", "pendingcb", "onFinished"} : st[c] \in Nat
  /\ st.writecb \in Seq(Kinds)
  /\ given \in Seq(Kinds) /\ buffer \in Seq(1 .. Len(given)) /\ sunk \in Seq(1 .. Len(given))
  /\ io \subseteq {"write", "final", "destroy", "construct"}
  /\ asked \in [Asked -> Nat] /\ called \in [Asked -> Nat]

(* The stream keeps the contract of SinkContract: through cork(), _writev,     *)
(* synchronous and late callbacks, errors and calls from inside callbacks, the *)
(* sink gets the chunks in order, one batch at a time, and 'finish' only       *)
(* follows when each was written.                                              *)
Contract == INSTANCE SinkContract WITH
              accepted <- Len(given), pending <- buffer, busy <- st.writing,
              failed <- st.errored \/ st.destroyed, finished <- st.finished
KeepsContract == Contract!Spec

(* state.length, which decides on 'drain' and on 'finish', is what the buffer  *)
(* and the write in progress hold, whatever path a chunk took.                 *)
LengthExact == st.length = Len(buffer) + st.writelen

(* The state is well formed, and state.length is exact between any two steps.  *)
StateSound == TypeOK /\ LengthExact

(* 'prefinish', 'finish', 'error' and 'close' are each emitted once, and none  *)
(* after 'close', when no listener of 'prefinish' calls the stream again.      *)
Emitted(e) == {i \in DOMAIN events : events[i] = e}
EventsOrdered ==
  /\ \A e \in {"prefinish", "finish", "error", "close"} : \A i, j \in Emitted(e) : i = j
  /\ \A i \in Emitted("close") : i = Len(events)

CallbackOnce == \A k \in Asked : called[k] <= asked[k]
CallbacksCalled ==
  opt.autoDestroy /\ (st.corked = 0 \/ st.destroyed) => \A k \in Callbacks : called[k] = asked[k]

(* A callback given to write() or end() is never called more often than it was *)
(* given, although afterWrite() calls one callback for a run of writes and     *)
(* errorBuffer() calls those of the queue; and with autoDestroy every callback *)
(* of a write is called in the end, on a stream that is not left corked.       *)
WriteCallbacksCalled == []CallbackOnce /\ <>[]CallbacksCalled

(* When write() returned false, 'drain' follows (needDrain is cleared by it),  *)
(* unless the stream ends, fails, is destroyed or is left corked.              *)
DrainKept == <>[](st.needDrain => st.ending \/ st.destroyed \/ st.errored \/ st.corked > 0)

EndsOrDies == st.ending /\ st.corked = 0 => st.finished \/ st.destroyed \/ st.errored
DestroyCloses == st.destroyed => Emitted("close") # {}

(* A stream that was ended finishes, fails or is destroyed, unless cork() is   *)
(* called after end(); and a destroyed stream emits 'close', also when         *)
(* destroy() came before the end of _construct() or in the middle of a write.  *)
ComesToAnEnd == <>[](EndsOrDies /\ DestroyCloses)
=============================================================================
