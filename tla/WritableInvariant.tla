-------------------------- MODULE WritableInvariant --------------------------
(***************************************************************************)
(* The inductive invariant of Writable, and the proof that every step      *)
(* keeps it, for every set of options and callbacks, every pattern of      *)
(* calls from inside callbacks and every bound: first the functions which  *)
(* leave the queue of chunks where it is, then those that move chunks.     *)
(* WritableProofs shows from it that Writable refines SinkContract, that   *)
(* its counters are exact and that its events are in order.                *)
(***************************************************************************)
EXTENDS Writable, SequenceTheorems, TLAPS

(***************************************************************************)
(* The inductive invariant                                                 *)
(***************************************************************************)

\* The fields of WritableState and what the frames of a stack are.
Fields == {"constructed", "destroyed", "closed", "closeEmitted", "errored", "errorEmitted",
           "ending", "finished", "finalCalled", "prefinished", "writing", "sync", "expectWriteCb",
           "needDrain", "bufferProcessing", "buffered", "afterWritePending",
           "afterWriteTickInfo", "corked", "length", "writelen", "pendingcb", "onFinished",
           "writecb", "onDestroy", "destroyErr", "failed"}
Functions == {"user", "writeReturn", "end", "endCallback", "_write", "unsync", "onwrite",
              "onwriteSync", "onwriteError", "afterWriteTick", "afterWrite", "afterWriteLoop",
              "callbacks", "errorBuffer", "errorLoop", "resetBuffer", "clearBuffer",
              "clearBufferLoop", "clearBufferEnd", "finishMaybe", "prefinish",
              "finishMaybeCheck", "finishNT", "_final", "onFinish", "onFinishError",
              "onFinishTick", "callFinishedCallbacks", "finish", "emitFinish",
              "errorOrDestroy", "destroy", "_destroy", "onDestroy", "emitErrorCloseNT",
              "emitErrorNT", "emitCloseNT", "constructNT", "onConstruct"}
Frames == [f : Functions, n : Int, cb : Seq(Kinds \cup {"end"}), er : BOOLEAN]

\* The types that the proof needs.
CoreTypes ==
  /\ DOMAIN st = Fields
  /\ st.constructed \in BOOLEAN /\ st.destroyed \in BOOLEAN /\ st.errored \in BOOLEAN
  /\ st.ending \in BOOLEAN /\ st.finished \in BOOLEAN /\ st.writing \in BOOLEAN
  /\ st.sync \in BOOLEAN /\ st.expectWriteCb \in BOOLEAN
  /\ st.bufferProcessing \in BOOLEAN /\ st.buffered \in BOOLEAN
  /\ st.corked \in Nat /\ st.onFinished \in Nat
  /\ st.failed \in Seq(Nat) /\ st.writecb \in Seq(Kinds)
  /\ given \in Seq(Kinds) /\ sunk \in Seq(Nat) /\ buffer \in Seq(Nat)
  /\ stack \in Seq(Frames) /\ ticks \in Seq(Frames)

\* The queue holds accepted chunks in the order of the calls ...
BufferOrdered ==
  /\ \A i \in DOMAIN buffer : 1 <= buffer[i] /\ buffer[i] <= Len(given)
  /\ \A i, j \in DOMAIN buffer : i < j => buffer[i] < buffer[j]
  /\ buffer # <<>> => st.buffered

\* ... and until an error, every chunk went to the sink or is still in it.
AllThere ==
  st.errored \/ st.destroyed \/
    /\ Len(sunk) + Len(buffer) = Len(given)
    /\ \A i \in DOMAIN sunk : sunk[i] = i
    /\ \A i \in DOMAIN buffer : buffer[i] = Len(sunk) + i

\* Nothing is left to write and nothing more will be accepted.
Drained ==
  /\ st.ending /\ ~st.writing /\ ~st.buffered /\ buffer = <<>>
  /\ Len(sunk) = Len(given) /\ \A i \in DOMAIN sunk : sunk[i] = i

\* The queue may be errored.
Dead == st.destroyed \/ (st.errored /\ st.constructed)

\* What a frame, or a tick, may rely on when it is run.
FrameOK(fr) ==
  /\ fr.f \in {"onwriteError", "errorBuffer", "errorLoop"} => Dead
  /\ fr.f = "errorLoop" => /\ ~st.writing /\ fr.n <= Len(given)
                           /\ \A i \in DOMAIN buffer : fr.n < buffer[i]
  /\ fr.f = "resetBuffer" => buffer = <<>>
  /\ fr.f \in {"finish", "onFinishTick"} => Drained
  /\ fr.f = "endCallback" => st.ending \/ st.errored
  /\ fr.f \in {"constructNT", "onConstruct"} => ~st.constructed
FramesOK ==
  /\ \A i \in DOMAIN stack : FrameOK(stack[i])
  /\ \A i \in DOMAIN ticks : FrameOK(ticks[i])
  /\ "construct" \in io => ~st.constructed
  /\ st.finished => Drained
  /\ st.onFinished # 0 => st.ending

\* The callback of _construct is called once.
Constructing == {"constructNT", "onConstruct"}
ConstructOnce ==
  /\ \A i, j \in DOMAIN ticks : ticks[i].f \in Constructing /\ ticks[j].f \in Constructing =>
      i = j
  /\ \A i \in DOMAIN stack : stack[i].f \in Constructing =>
       /\ Len(stack) = 1 /\ "construct" \notin io
       /\ \A j \in DOMAIN ticks : ticks[j].f \notin Constructing
  /\ "construct" \in io => \A j \in DOMAIN ticks : ticks[j].f \notin Constructing

\* Frames that are run as soon as they are called, and what holds then.
AtOnce == {"_write", "onwrite", "clearBuffer", "callFinishedCallbacks"}
TopOK ==
  /\ \A i \in DOMAIN stack : stack[i].f \in AtOnce => i = 1
  /\ Top("clearBuffer") => ~st.writing /\ (st.destroyed \/ st.failed = <<>>)
  /\ Top("_write") => st.sync /\ st.expectWriteCb
  /\ Top("onwrite") => Len(stack) = 1 \/ (st.sync /\ st.expectWriteCb)
  /\ st.expectWriteCb => st.writing
  /\ st.writing => st.constructed
  /\ st.failed # <<>> => Dead /\ ~st.writing

\* What can be above the loop of clearBuffer(): no code of the user.
Loops == {"clearBufferLoop", "clearBufferEnd"}
LoopOK(i) ==
  /\ \/ i = 1
     \/ i = 2 /\ stack[1].f = "unsync"
     \/ i = 3 /\ stack[2].f = "unsync" /\ stack[1].f \in {"_write", "onwrite", "onwriteSync",
         "finishMaybe"}
     \/ i = 4 /\ stack[3].f = "unsync" /\ stack[2].f = "onwriteSync" /\ stack[1].f = "clearBuffer"
  /\ st.bufferProcessing /\ st.buffered /\ st.constructed /\ st.failed = <<>>
  /\ stack[i].f = "clearBufferEnd" => buffer = <<>> \/ (i = 1 /\ st.writing)
  /\ \A j \in DOMAIN stack : stack[j].f # "errorLoop"
LoopsOK ==
  /\ \A i \in DOMAIN stack : stack[i].f \in Loops => LoopOK(i)
  /\ st.bufferProcessing => \E i \in DOMAIN stack : stack[i].f \in Loops

\* errorBuffer() does not run inside itself, keeps its chunks in the array, and
\* leaves the loop with an empty queue.
Errors == {"onwriteError", "errorBuffer", "errorLoop", "resetBuffer"}
ErrorsOK ==
  /\ \A i, j \in DOMAIN stack : stack[i].f \in Errors /\ stack[j].f \in Errors => i = j
  /\ \A i \in DOMAIN stack :
       /\ stack[i].f = "errorLoop" => i = 1 \/ st.failed # <<>>
       /\ stack[i].f = "resetBuffer" =>
            \/ i = 1 \/ st.ending \/ st.destroyed
            \/ i = 2 /\ stack[1].f = "callFinishedCallbacks"
            \/ i = 2 /\ stack[1].f = "callbacks" /\ stack[1].cb = <<>>

\* What nextTick is never given, and what only runs first in a task.
Direct == AtOnce \cup Loops \cup {"errorLoop", "resetBuffer"}
Bottoms == {"afterWriteTick", "afterWrite", "afterWriteLoop", "onwriteError"}
PlacesOK ==
  /\ \A i \in DOMAIN ticks : ticks[i].f \notin Direct
  /\ \A i \in DOMAIN stack : stack[i].f \in Bottoms => i = Len(stack)

\* A chunk that waits has something to wait for.
Waiting ==
  buffer # <<>> =>
    \/ st.writing \/ st.errored \/ st.destroyed \/ st.corked > 0 \/ ~st.constructed
    \/ st.bufferProcessing
    \/ stack # <<>> /\ Head(stack).f \in {"clearBuffer", "errorOrDestroy", "destroy"}

SinkInv ==
  /\ CoreTypes /\ BufferOrdered /\ AllThere /\ FramesOK /\ ConstructOnce
  /\ TopOK /\ LoopsOK /\ ErrorsOK /\ PlacesOK /\ Waiting

(***************************************************************************)
(* Stacks and frames                                                       *)
(***************************************************************************)

\* What is on the stack after frames were put above the rest of it.
LEMMA Above ==
  ASSUME NEW X, NEW fs \in Seq(X), NEW r \in Seq(X)
  PROVE  /\ fs \o r \in Seq(X) /\ Len(fs \o r) = Len(fs) + Len(r)
         /\ \A i \in 1 .. Len(fs) : (fs \o r)[i] = fs[i]
         /\ \A i \in 1 .. Len(r) : (fs \o r)[Len(fs) + i] = r[i]
OBVIOUS

\* What is left when the frame on top is taken off.
LEMMA Below ==
  ASSUME NEW X, NEW s \in Seq(X), s # <<>>
  PROVE  /\ Tail(s) \in Seq(X) /\ Len(Tail(s)) = Len(s) - 1 /\ Head(s) = s[1] /\ Head(s) \in X
         /\ \A i \in 1 .. Len(s) - 1 : Tail(s)[i] = s[i + 1]
OBVIOUS

\* The parts of the frames that the actions make.
LEMMA FrameParts ==
  \A f, n, cb, er :
    /\ F(f).f = f /\ F(f).n = 0 /\ F(f).cb = <<>> /\ F(f).er = FALSE
    /\ Fe(f, er).f = f /\ Fe(f, er).n = 0 /\ Fe(f, er).cb = <<>> /\ Fe(f, er).er = er
    /\ Fn(f, n).f = f /\ Fn(f, n).n = n /\ Fn(f, n).cb = <<>> /\ Fn(f, n).er = FALSE
    /\ Fnc(f, n, cb).f = f /\ Fnc(f, n, cb).n = n /\ Fnc(f, n, cb).cb = cb
    /\ Fnc(f, n, cb).er = FALSE
    /\ Fc(cb, er).f = "callbacks" /\ Fc(cb, er).n = 0 /\ Fc(cb, er).cb = cb /\ Fc(cb, er).er = er
BY DEF F, Fe, Fn, Fnc, Fc

\* The functions of the frames that the actions make.
LEMMA FrameNames ==
  \A f, n, cb, er : /\ F(f).f = f /\ Fe(f, er).f = f /\ Fn(f, n).f = f /\ Fnc(f, n, cb).f = f
                    /\ Fc(cb, er).f = "callbacks"
BY FrameParts

\* They are frames.
LEMMA FrameTypes ==
  ASSUME NEW f \in Functions, NEW n \in Int, NEW cb \in Seq(Kinds \cup {"end"}),
      NEW er \in BOOLEAN
  PROVE  /\ F(f) \in Frames /\ Fe(f, er) \in Frames /\ Fn(f, n) \in Frames
         /\ Fnc(f, n, cb) \in Frames /\ Fc(cb, er) \in Frames
<1>1. \A g \in Functions : F(g) \in Frames
  <2>1. <<>> \in Seq(Kinds \cup {"end"})
    OBVIOUS
  <2> QED
    BY <2>1 DEF F, Frames
<1>2. Fe(f, er) \in Frames
  BY <1>1 DEF Fe, Frames
<1>4. Fn(f, n) \in Frames
  BY <1>1 DEF Fn, Frames
<1>5. Fnc(f, n, cb) \in Frames
  <2>1. Fnc(f, n, cb) = [Fn(f, n) EXCEPT !.cb = cb]
    BY DEF Fnc, Fn
  <2> QED
    BY <1>4, <2>1 DEF Frames
<1>3. Fc(cb, er) \in Frames
  <2>1. "callbacks" \in Functions
    BY DEF Functions
  <2>2. F("callbacks") \in Frames
    BY <1>1, <2>1
  <2> QED
    BY <2>2 DEF Fc, Frames
<1> QED
  BY <1>1, <1>2, <1>3, <1>4, <1>5

\* A step replaces the frame on top, if there is one, by the frames fs.
Under == IF stack = <<>> THEN <<>> ELSE Tail(stack)
OnTop == IF stack = <<>> THEN "none" ELSE Head(stack).f
Shifted(fs) == fs \in Seq(Frames) /\ stack' = fs \o Under

\* Where the frames are after the step.
LEMMA Shift ==
  ASSUME CoreTypes, NEW fs, Shifted(fs)
  PROVE  /\ stack' \in Seq(Frames) /\ stack \in Seq(Frames) /\ Len(fs) \in Nat
         /\ Len(stack) \in Nat /\ Len(stack') \in Nat
         /\ DOMAIN stack' = 1 .. Len(stack') /\ DOMAIN stack = 1 .. Len(stack)
         /\ Len(stack') = IF stack = <<>> THEN Len(fs) ELSE Len(fs) + Len(stack) - 1
         /\ \A i \in 1 .. Len(stack') :
              IF i <= Len(fs) THEN stack'[i] = fs[i]
              ELSE i - Len(fs) + 1 \in 2 .. Len(stack) /\ stack'[i] = stack[i - Len(fs) + 1]
         /\ stack # <<>> => Len(stack) >= 1 /\ Head(stack) = stack[1] /\ OnTop = stack[1].f
         /\ stack' # <<>> => Len(stack') >= 1 /\ Head(stack') = stack'[1]
         /\ stack = <<>> <=> Len(stack) = 0
<1>1. stack \in Seq(Frames) /\ fs \in Seq(Frames)
  BY DEF CoreTypes, Shifted
<1>2. CASE stack = <<>>
  <2>1. stack' = fs \o <<>> /\ <<>> \in Seq(Frames)
    BY <1>2 DEF Shifted, Under
  <2>2. stack' = fs
    BY <1>1, <2>1
  <2> QED
    BY <1>1, <1>2, <2>2
<1>3. CASE stack # <<>>
  <2>1. stack' = fs \o Tail(stack)
    BY <1>3 DEF Shifted, Under
  <2>2. /\ Tail(stack) \in Seq(Frames) /\ Len(Tail(stack)) = Len(stack) - 1
        /\ Head(stack) = stack[1]
        /\ \A i \in 1 .. Len(stack) - 1 : Tail(stack)[i] = stack[i + 1]
    BY <1>1, <1>3
  <2>3. /\ stack' \in Seq(Frames) /\ Len(stack') = Len(fs) + Len(stack) - 1
        /\ \A i \in 1 .. Len(fs) : stack'[i] = fs[i]
        /\ \A i \in 1 .. Len(stack) - 1 : stack'[Len(fs) + i] = stack[i + 1]
    BY <1>1, <2>1, <2>2, Above
  <2>4. Len(fs) \in Nat /\ Len(stack) \in Nat /\ Len(stack) >= 1 /\ Len(stack') \in Nat
    BY <1>1, <1>3, <2>3
  <2>5. ASSUME NEW i \in 1 .. Len(stack'), i > Len(fs)
        PROVE  i - Len(fs) + 1 \in 2 .. Len(stack) /\ stack'[i] = stack[i - Len(fs) + 1]
    <3> DEFINE j == i - Len(fs)
    <3>1. j \in 1 .. Len(stack) - 1 /\ Len(fs) + j = i
      BY <2>3, <2>4, <2>5
    <3>2. stack'[Len(fs) + j] = stack[j + 1]
      BY <2>3, <3>1
    <3> HIDE DEF j
    <3>3. j = i - Len(fs)
      BY DEF j
    <3> QED
      BY <2>4, <3>1, <3>2, <3>3
  <2> QED
    BY <1>1, <1>3, <2>2, <2>3, <2>4, <2>5 DEF OnTop
<1> QED
  BY <1>2, <1>3

\* A step that keeps the chunks where they are and takes back no verdict.
Calm ==
  /\ buffer' = buffer /\ given' = given /\ sunk' = sunk
  /\ st.errored => st'.errored
  /\ st.destroyed => st'.destroyed
  /\ st.ending => st'.ending
  /\ st'.constructed = st.constructed /\ st'.buffered = st.buffered /\ st'.failed = st.failed
  /\ st'.writing => st.writing

\* What a frame relies on stays true.
LEMMA CalmFrames ==
  ASSUME Calm
  PROVE  /\ \A fr : FrameOK(fr) => FrameOK(fr)'
         /\ Drained => Drained'
         /\ Dead => Dead'
<1>1. Drained => Drained'
  BY DEF Calm, Drained
<1>2. Dead => Dead'
  BY DEF Calm, Dead
<1> QED
  BY <1>1, <1>2 DEF Calm, FrameOK

\* The queue and the order stay as they are.
LEMMA CalmOrder ==
  ASSUME BufferOrdered, AllThere, Calm PROVE BufferOrdered' /\ AllThere'
BY DEF Calm, BufferOrdered, AllThere

\* Every frame and every tick may rely on what it relies on.
LEMMA FramesStep ==
  ASSUME CoreTypes, FramesOK, NEW fs, Shifted(fs),
         \A i \in 2 .. Len(stack) : \A fr : fr = stack[i] /\ FrameOK(fr) => FrameOK(fr)',
         \A i \in 1 .. Len(fs) : FrameOK(fs[i])',
         \A i \in DOMAIN ticks' : \E fr : fr = ticks'[i] /\ FrameOK(fr)',
         "construct" \in io' => ~st'.constructed,
         st'.finished => Drained',
         st'.onFinished # 0 => st'.ending
  PROVE  FramesOK'
<1>0. /\ Len(fs) \in Nat /\ Len(stack) \in Nat
      /\ DOMAIN stack' = 1 .. Len(stack') /\ DOMAIN stack = 1 .. Len(stack) /\ Len(stack') \in Nat
      /\ Len(stack') = IF stack = <<>> THEN Len(fs) ELSE Len(fs) + Len(stack) - 1
      /\ \A i \in 1 .. Len(stack') :
           IF i <= Len(fs) THEN stack'[i] = fs[i]
           ELSE i - Len(fs) + 1 \in 2 .. Len(stack) /\ stack'[i] = stack[i - Len(fs) + 1]
      /\ stack # <<>> => Len(stack) >= 1 /\ OnTop = stack[1].f
      /\ stack' # <<>> => Len(stack') >= 1 /\ Head(stack') = stack'[1]
  BY Shift
<1>1. \A i \in DOMAIN stack' : \E fr : fr = stack'[i] /\ FrameOK(fr)'
  <2> TAKE i \in DOMAIN stack'
  <2>1. CASE i <= Len(fs)
    <3>1. i \in 1 .. Len(fs) /\ stack'[i] = fs[i]
      BY <2>1, <1>0
    <3> QED
      BY <3>1
  <2>2. CASE ~(i <= Len(fs))
    <3>1. PICK k \in 2 .. Len(stack) : stack'[i] = stack[k]
      BY <2>2, <1>0
    <3>2. FrameOK(stack[k])
      BY <3>1, <1>0 DEF FramesOK
    <3> QED
      BY <3>1, <3>2
  <2> QED
    BY <2>1, <2>2
<1>2. (\A i \in DOMAIN stack : FrameOK(stack[i]))' /\ (\A i \in DOMAIN ticks : FrameOK(ticks[i]))'
  BY <1>1
<1> QED
  BY <1>2 DEF FramesOK

\* The callback of _construct stays single.
LEMMA ConstructStep ==
  ASSUME CoreTypes, ConstructOnce, NEW fs, Shifted(fs),
         \A i \in 1 .. Len(fs) : fs[i].f \notin Constructing,
         DOMAIN ticks \subseteq DOMAIN ticks',
         \A i \in DOMAIN ticks' : IF i \in DOMAIN ticks THEN ticks'[i].f = ticks[i].f
                                  ELSE ticks'[i].f \notin Constructing,
         "construct" \in io' <=> "construct" \in io
  PROVE  ConstructOnce'
<1>0. /\ Len(fs) \in Nat /\ Len(stack) \in Nat
      /\ DOMAIN stack' = 1 .. Len(stack') /\ DOMAIN stack = 1 .. Len(stack) /\ Len(stack') \in Nat
      /\ Len(stack') = IF stack = <<>> THEN Len(fs) ELSE Len(fs) + Len(stack) - 1
      /\ \A i \in 1 .. Len(stack') :
           IF i <= Len(fs) THEN stack'[i] = fs[i]
           ELSE i - Len(fs) + 1 \in 2 .. Len(stack) /\ stack'[i] = stack[i - Len(fs) + 1]
      /\ stack # <<>> => Len(stack) >= 1 /\ OnTop = stack[1].f
      /\ stack' # <<>> => Len(stack') >= 1 /\ Head(stack') = stack'[1]
  BY Shift
<1>1. \A i \in 2 .. Len(stack) : stack[i].f \notin Constructing
  BY <1>0 DEF ConstructOnce
<1>2. \A i \in DOMAIN stack' : stack'[i].f \notin Constructing
  <2> TAKE i \in DOMAIN stack'
  <2>1. CASE i <= Len(fs)
    BY <2>1, <1>0
  <2>2. CASE ~(i <= Len(fs))
    BY <1>1, <2>2, <1>0
  <2> QED
    BY <2>1, <2>2
<1> QED
  BY <1>2 DEF ConstructOnce

\* Frames that are run at once are on top.
LEMMA TopStep ==
  ASSUME CoreTypes, TopOK, NEW fs, Shifted(fs),
         \A i \in 2 .. Len(fs) : fs[i].f \notin AtOnce,
         Len(fs) > 0 =>
           /\ fs[1].f = "clearBuffer" => ~st'.writing /\ (st'.destroyed \/ st'.failed = <<>>)
           /\ fs[1].f = "_write" => st'.sync /\ st'.expectWriteCb
           /\ fs[1].f = "onwrite" => stack = <<>> \/ (st'.sync /\ st'.expectWriteCb),
         Len(fs) <= 1 \/ fs[1].f # "onwrite",
         st'.expectWriteCb => st'.writing,
         st'.writing => st'.constructed,
         st'.failed # <<>> => Dead' /\ ~st'.writing
  PROVE  TopOK'
<1>0. /\ Len(fs) \in Nat /\ Len(stack) \in Nat
      /\ DOMAIN stack' = 1 .. Len(stack') /\ DOMAIN stack = 1 .. Len(stack) /\ Len(stack') \in Nat
      /\ Len(stack') = IF stack = <<>> THEN Len(fs) ELSE Len(fs) + Len(stack) - 1
      /\ \A i \in 1 .. Len(stack') :
           IF i <= Len(fs) THEN stack'[i] = fs[i]
           ELSE i - Len(fs) + 1 \in 2 .. Len(stack) /\ stack'[i] = stack[i - Len(fs) + 1]
      /\ stack # <<>> => Len(stack) >= 1 /\ OnTop = stack[1].f
      /\ stack' # <<>> => Len(stack') >= 1 /\ Head(stack') = stack'[1]
  BY Shift
<1>1. \A i \in 2 .. Len(stack) : stack[i].f \notin AtOnce
  BY <1>0 DEF TopOK
<1>2. \A i \in DOMAIN stack' : stack'[i].f \in AtOnce => i = 1 /\ Len(fs) > 0 /\ stack'[1] = fs[1]
  <2> TAKE i \in DOMAIN stack'
  <2>1. CASE i <= Len(fs)
    BY <2>1, <1>0
  <2>2. CASE ~(i <= Len(fs))
    BY <1>1, <2>2, <1>0
  <2> QED
    BY <2>1, <2>2
<1>3. ASSUME NEW g \in AtOnce, Top(g)' PROVE Len(fs) > 0 /\ fs[1].f = g
  <2>1. 1 \in DOMAIN stack' /\ stack'[1].f = g
    BY <1>3, <1>0 DEF Top
  <2> QED
    BY <1>2, <2>1
<1>4. Top("onwrite")' => Len(stack') = 1 \/ (st'.sync /\ st'.expectWriteCb)
  <2> SUFFICES ASSUME Top("onwrite")', ~(st'.sync /\ st'.expectWriteCb) PROVE Len(stack') = 1
    OBVIOUS
  <2>1. Len(fs) > 0 /\ fs[1].f = "onwrite"
    BY <1>3 DEF AtOnce
  <2>2. Len(fs) <= 1
    BY <2>1
  <2>3. stack = <<>>
    BY <2>1
  <2> QED
    BY <2>1, <2>2, <2>3, <1>0
<1>5. /\ Top("clearBuffer")' => ~st'.writing /\ (st'.destroyed \/ st'.failed = <<>>)
      /\ Top("_write")' => st'.sync /\ st'.expectWriteCb
  BY <1>3 DEF AtOnce
<1> QED
  BY <1>2, <1>4, <1>5 DEF TopOK

\* When the function that returns is not part of clearBuffer(), none of its loops
\* is on the stack.
LoopTops == Loops \cup {"unsync", "_write", "onwrite", "onwriteSync", "finishMaybe",
    "clearBuffer"}
\* Only few functions are above a loop of clearBuffer(); under the others there is none.
LEMMA NoLoops ==
  ASSUME CoreTypes, LoopsOK, OnTop \notin LoopTops
  PROVE  /\ \A i \in DOMAIN stack : stack[i].f \notin Loops
         /\ ~st.bufferProcessing
<1>1. ASSUME NEW i \in DOMAIN stack, stack[i].f \in Loops PROVE FALSE
  <2>1. stack # <<>> /\ OnTop = stack[1].f /\ i >= 1
    BY <1>1 DEF OnTop, CoreTypes
  <2>2. LoopOK(i)
    BY <1>1 DEF LoopsOK
  <2> QED
    BY <1>1, <2>1, <2>2 DEF LoopOK, LoopTops, Loops
<1> QED
  BY <1>1 DEF LoopsOK

\* A function that is not above a loop of clearBuffer() does not disturb one.
LEMMA LoopsStep ==
  ASSUME CoreTypes, LoopsOK, NEW fs, Shifted(fs), OnTop \notin LoopTops,
         \A i \in 1 .. Len(fs) : fs[i].f \notin Loops,
         st'.bufferProcessing = st.bufferProcessing
  PROVE  LoopsOK'
<1>0. /\ Len(fs) \in Nat /\ Len(stack) \in Nat
      /\ DOMAIN stack' = 1 .. Len(stack') /\ DOMAIN stack = 1 .. Len(stack) /\ Len(stack') \in Nat
      /\ Len(stack') = IF stack = <<>> THEN Len(fs) ELSE Len(fs) + Len(stack) - 1
      /\ \A i \in 1 .. Len(stack') :
           IF i <= Len(fs) THEN stack'[i] = fs[i]
           ELSE i - Len(fs) + 1 \in 2 .. Len(stack) /\ stack'[i] = stack[i - Len(fs) + 1]
      /\ stack # <<>> => Len(stack) >= 1 /\ OnTop = stack[1].f
      /\ stack' # <<>> => Len(stack') >= 1 /\ Head(stack') = stack'[1]
  BY Shift
<1>1. \A i \in DOMAIN stack' : stack'[i].f \notin Loops
  <2> TAKE i \in DOMAIN stack'
  <2>1. CASE i <= Len(fs)
    BY <2>1, <1>0
  <2>2. CASE ~(i <= Len(fs))
    <3>1. i - Len(fs) + 1 \in DOMAIN stack /\ stack'[i] = stack[i - Len(fs) + 1]
      BY <2>2, <1>0
    <3> QED
      BY <3>1, NoLoops
  <2> QED
    BY <2>1, <2>2
<1> QED
  BY <1>1, NoLoops DEF LoopsOK

\* errorBuffer() stays single when no frame of it is called.
LEMMA ErrorsStep ==
  ASSUME CoreTypes, ErrorsOK, NEW fs, Shifted(fs),
         OnTop \notin {"callbacks", "callFinishedCallbacks"},
         \A i \in 1 .. Len(fs) : fs[i].f \notin Errors,
         st.ending => st'.ending, st.destroyed => st'.destroyed,
         st'.failed = st.failed
  PROVE  ErrorsOK'
<1>0. /\ Len(fs) \in Nat /\ Len(stack) \in Nat
      /\ DOMAIN stack' = 1 .. Len(stack') /\ DOMAIN stack = 1 .. Len(stack) /\ Len(stack') \in Nat
      /\ Len(stack') = IF stack = <<>> THEN Len(fs) ELSE Len(fs) + Len(stack) - 1
      /\ \A i \in 1 .. Len(stack') :
           IF i <= Len(fs) THEN stack'[i] = fs[i]
           ELSE i - Len(fs) + 1 \in 2 .. Len(stack) /\ stack'[i] = stack[i - Len(fs) + 1]
      /\ stack # <<>> => Len(stack) >= 1 /\ OnTop = stack[1].f
      /\ stack' # <<>> => Len(stack') >= 1 /\ Head(stack') = stack'[1]
  BY Shift
<1> DEFINE old(i) == i - Len(fs) + 1
<1>1. \A i \in DOMAIN stack' : stack'[i].f \in Errors =>
        i > Len(fs) /\ old(i) \in 2 .. Len(stack) /\ stack'[i] = stack[old(i)]
  BY <1>0
<1>2. \A i, j \in DOMAIN stack' : stack'[i].f \in Errors /\ stack'[j].f \in Errors => i = j
  <2> SUFFICES ASSUME NEW i \in DOMAIN stack', NEW j \in DOMAIN stack',
                      stack'[i].f \in Errors, stack'[j].f \in Errors
               PROVE  i = j
    OBVIOUS
  <2>1. old(i) \in DOMAIN stack /\ old(j) \in DOMAIN stack /\ i \in Int /\ j \in Int
            /\ Len(fs) \in Int
    BY <1>1, <1>0
  <2>2. stack[old(i)].f \in Errors /\ stack[old(j)].f \in Errors
    BY <1>1
  <2>3. old(i) = old(j)
    BY <2>1, <2>2 DEF ErrorsOK
  <2> QED
    BY <2>1, <2>3
<1>3. ASSUME NEW i \in DOMAIN stack', stack'[i].f \in {"errorLoop", "resetBuffer"}
      PROVE  /\ stack'[i].f = "errorLoop" => st'.failed # <<>>
             /\ stack'[i].f = "resetBuffer" => st'.ending \/ st'.destroyed
  <2>1. old(i) \in 2 .. Len(stack) /\ old(i) \in DOMAIN stack /\ stack'[i] = stack[old(i)]
    BY <1>1, <1>3, <1>0 DEF Errors
  <2>2. stack # <<>> /\ OnTop = stack[1].f
    BY <2>1, <1>0
  <2> HIDE DEF old
  <2> QED
    BY <1>3, <2>1, <2>2 DEF ErrorsOK
<1> QED
  BY <1>2, <1>3 DEF ErrorsOK

\* What waits goes on waiting for the same.
LEMMA WaitingStep ==
  ASSUME Waiting, buffer' = buffer, st.errored => st'.errored, st.destroyed => st'.destroyed,
         st'.writing = st.writing, st'.corked = st.corked, st'.constructed = st.constructed,
         st'.bufferProcessing = st.bufferProcessing,
         OnTop \notin {"clearBuffer", "errorOrDestroy", "destroy"}
  PROVE  Waiting'
BY DEF Waiting, OnTop

\* Every function stays in its place.
LEMMA PlacesStep ==
  ASSUME CoreTypes, PlacesOK, NEW fs, Shifted(fs),
         \A i \in 1 .. Len(fs) : fs[i].f \in Bottoms => i = Len(fs) /\ Len(stack) <= 1,
         \A i \in DOMAIN ticks' : ticks'[i].f \notin Direct
  PROVE  PlacesOK'
<1>0. /\ Len(fs) \in Nat /\ Len(stack) \in Nat
      /\ DOMAIN stack' = 1 .. Len(stack') /\ DOMAIN stack = 1 .. Len(stack) /\ Len(stack') \in Nat
      /\ Len(stack') = IF stack = <<>> THEN Len(fs) ELSE Len(fs) + Len(stack) - 1
      /\ \A i \in 1 .. Len(stack') :
           IF i <= Len(fs) THEN stack'[i] = fs[i]
           ELSE i - Len(fs) + 1 \in 2 .. Len(stack) /\ stack'[i] = stack[i - Len(fs) + 1]
      /\ stack = <<>> <=> Len(stack) = 0
  BY Shift
<1>1. ASSUME NEW i \in DOMAIN stack', stack'[i].f \in Bottoms PROVE i = Len(stack')
  <2>1. CASE i <= Len(fs)
    BY <1>0, <1>1, <2>1
  <2>2. CASE ~(i <= Len(fs))
    <3>1. i - Len(fs) + 1 \in DOMAIN stack /\ stack[i - Len(fs) + 1].f \in Bottoms
      BY <1>0, <1>1, <2>2
    <3>2. i - Len(fs) + 1 = Len(stack)
      BY <3>1 DEF PlacesOK
    <3> QED
      BY <1>0, <2>2, <3>2
  <2> QED
    BY <2>1, <2>2
<1> QED
  BY <1>1 DEF PlacesOK

(***************************************************************************)
(* Steps                                                                   *)
(***************************************************************************)

\* Short lists, and the calls of as many functions.
LEMMA Lists ==
  ASSUME NEW S
  PROVE  /\ \E fs \in Seq(S) : fs = <<>> /\ Len(fs) = 0
         /\ \A x \in S : \E fs \in Seq(S) : fs = <<x>> /\ Len(fs) = 1 /\ fs[1] = x
         /\ \A x, y \in S : \E fs \in Seq(S) : fs = <<x, y>> /\ Len(fs) = 2 /\ fs[1] = x
             /\ fs[2] = y
<1>1. <<>> \in Seq(S) /\ Len(<<>>) = 0
  OBVIOUS
<1>2. ASSUME NEW x \in S PROVE <<x>> \in Seq(S) /\ Len(<<x>>) = 1 /\ <<x>>[1] = x
  OBVIOUS
<1>3. ASSUME NEW x \in S, NEW y \in S
      PROVE  <<x, y>> \in Seq(S) /\ Len(<<x, y>>) = 2 /\ <<x, y>>[1] = x /\ <<x, y>>[2] = y
  OBVIOUS
<1> QED
  BY <1>1, <1>2, <1>3

\* A list of one frame, given a name, ...
LEMMA ListOfOne ==
  ASSUME NEW S, NEW x \in S
  PROVE  \E fs \in Seq(S) : fs = <<x>> /\ Len(fs) = 1 /\ fs[1] = x
BY Lists

\* ... of two, ...
LEMMA ListOfTwo ==
  ASSUME NEW S, NEW x \in S, NEW y \in S
  PROVE  \E fs \in Seq(S) : fs = <<x, y>> /\ Len(fs) = 2 /\ fs[1] = x /\ fs[2] = y
<1>1. <<x, y>> \in Seq(S) /\ Len(<<x, y>>) = 2 /\ <<x, y>>[1] = x /\ <<x, y>>[2] = y
  OBVIOUS
<1> QED
  BY <1>1

\* ... two lists of one, ...
LEMMA ConcatTwo ==
  ASSUME NEW S, NEW x \in S, NEW y \in S
  PROVE  <<x>> \o <<y>> = <<x, y>>
<1>1. <<x, y>> \in Seq(S) /\ Len(<<x, y>>) = 2 /\ <<x, y>>[1] = x /\ <<x, y>>[2] = y
  OBVIOUS
<1>2. <<x>> \in Seq(S) /\ <<y>> \in Seq(S)
  OBVIOUS
<1> DEFINE s == <<x>> \o <<y>>
<1>3. s \in Seq(S) /\ Len(s) = 2 /\ s[1] = x /\ s[2] = y
  BY <1>2
<1>4. \A i \in 1 .. 2 : s[i] = <<x, y>>[i]
  BY <1>1, <1>3
<1> QED
  BY <1>1, <1>3, <1>4, SeqEqual

\* ... and a list of three.
LEMMA ListOfThree ==
  ASSUME NEW S, NEW x \in S, NEW y \in S, NEW z \in S
  PROVE  \E fs \in Seq(S) : fs = <<x, y, z>> /\ Len(fs) = 3 /\ fs[1] = x /\ fs[2] = y /\ fs[3] = z
<1>1. <<x, y, z>> \in Seq(S)
  OBVIOUS
<1>2. Len(<<x, y, z>>) = 3
  OBVIOUS
<1> QED
  BY <1>1, <1>2

\* The frames that a call leaves, as a list with a name: none, one, two or three.
LEMMA Calls ==
  /\ Call(<<>>) => \E fs \in Seq(Frames) : Call(fs) /\ Len(fs) = 0
  /\ \A x \in Frames : Call(<<x>>) => \E fs \in Seq(Frames) : Call(fs) /\ Len(fs) = 1 /\ fs[1] = x
  /\ \A x, y \in Frames :
       Call(<<x, y>>) => \E fs \in Seq(Frames) : Call(fs) /\ Len(fs) = 2 /\ fs[1] = x /\ fs[2] = y
  /\ \A x, y, z \in Frames :
       Call(<<x, y, z>>) => \E fs \in Seq(Frames) : /\ Call(fs) /\ Len(fs) = 3
                                                    /\ fs[1] = x /\ fs[2] = y /\ fs[3] = z
<1>1. Call(<<>>) => \E fs \in Seq(Frames) : Call(fs) /\ Len(fs) = 0
  BY Lists
<1>2. ASSUME NEW x \in Frames, Call(<<x>>)
      PROVE  \E fs \in Seq(Frames) : Call(fs) /\ Len(fs) = 1 /\ fs[1] = x
  <2>1. PICK fs \in Seq(Frames) : fs = <<x>> /\ Len(fs) = 1 /\ fs[1] = x
    BY Lists
  <2> QED
    BY <1>2, <2>1
<1>3. ASSUME NEW x \in Frames, NEW y \in Frames, Call(<<x, y>>)
      PROVE  \E fs \in Seq(Frames) : Call(fs) /\ Len(fs) = 2 /\ fs[1] = x /\ fs[2] = y
  <2>1. PICK fs \in Seq(Frames) : fs = <<x, y>> /\ Len(fs) = 2 /\ fs[1] = x /\ fs[2] = y
    BY ListOfTwo
  <2> QED
    BY <1>3, <2>1
<1>4. ASSUME NEW x \in Frames, NEW y \in Frames, NEW z \in Frames, Call(<<x, y, z>>)
      PROVE  \E fs \in Seq(Frames) : Call(fs) /\ Len(fs) = 3 /\ fs[1] = x /\ fs[2] = y
          /\ fs[3] = z
  <2>1. PICK fs \in Seq(Frames) : fs = <<x, y, z>> /\ Len(fs) = 3 /\ fs[1] = x /\ fs[2] = y
            /\ fs[3] = z
    BY ListOfThree
  <2> QED
    BY <1>4, <2>1
<1> QED
  BY <1>1, <1>2, <1>3, <1>4

\* Frames that rely on something, and frames that rely on nothing.
Careful == Errors \cup Constructing \cup {"finish", "onFinishTick", "endCallback"}
Special == AtOnce \cup Loops \cup Careful \cup Bottoms
PlainFrames == {fr \in Frames : fr.f \notin Special}

\* A frame that relies on nothing.
LEMMA FreeFrame ==
  ASSUME NEW fr, fr.f \notin Careful PROVE FrameOK(fr) /\ FrameOK(fr)'
BY DEF FrameOK, Careful, Errors, Constructing

\* What the functions leave on the stack when they are none of the special ones.
LEMMA PlainFrame ==
  ASSUME NEW f \in Functions, f \notin Special, NEW n \in Int,
         NEW cb \in Seq(Kinds \cup {"end"}), NEW er \in BOOLEAN
  PROVE  /\ F(f) \in PlainFrames /\ Fe(f, er) \in PlainFrames /\ Fn(f, n) \in PlainFrames
         /\ Fnc(f, n, cb) \in PlainFrames
BY FrameTypes, FrameParts DEF PlainFrames

\* The callbacks to run, and the code of the user that is run.
LEMMA CallbackFrame ==
  ASSUME NEW cb \in Seq(Kinds \cup {"end"}), NEW er \in BOOLEAN PROVE Fc(cb, er) \in PlainFrames
<1>1. "user" \in Functions /\ 0 \in Int
  BY DEF Functions
<1>2. Fc(cb, er) \in Frames
  BY <1>1, FrameTypes
<1>3. "callbacks" \notin Special
  BY DEF Special, Bottoms, AtOnce, Loops, Careful, Errors, Constructing
<1> QED
  BY <1>2, <1>3, FrameParts DEF PlainFrames

\* The code of the user that an event or a callback runs: one frame or none.
LEMMA UserFrames ==
  /\ F("user") \in PlainFrames
  /\ \A site : User(site) \in {<<>>, <<F("user")>>} /\ User(site) \in Seq(PlainFrames)
<1>1. "user" \in Functions /\ "user" \notin Special
  BY DEF Functions, Special, Bottoms, AtOnce, Loops, Careful, Errors, Constructing
<1>2. <<>> \in Seq(Kinds \cup {"end"}) /\ 0 \in Int /\ TRUE \in BOOLEAN
  OBVIOUS
<1>3. F("user") \in PlainFrames
  BY <1>1, <1>2, PlainFrame
<1> QED
  BY <1>3 DEF User

\* A step runs the frame on top, ...
LEMMA Called ==
  ASSUME NEW f, Top(f), NEW fs \in Seq(Frames), Call(fs)
  PROVE  Shifted(fs) /\ OnTop = f /\ stack # <<>>
BY DEF Top, Call, Shifted, Under, OnTop

\* ... or code of the user calls the stream.
LEMMA Pushed ==
  ASSUME CoreTypes, InUser, NEW fs \in Seq(Frames), Push(fs)
  PROVE  /\ \E u \in PlainFrames : u.f = "user" /\ Shifted(fs \o <<u>>)
         /\ OnTop \in {"none", "user"}
<1>0. stack \in Seq(Frames)
  BY DEF CoreTypes
<1>1. CASE stack = <<>>
  <2>1. stack' = fs \o <<F("user")>> /\ OnTop = "none" /\ Under = <<>>
    BY <1>1 DEF Push, OnTop, Under
  <2>2. F("user") \in PlainFrames /\ F("user").f = "user"
    BY UserFrames, FrameParts
  <2> DEFINE gs == fs \o <<F("user")>>
  <2>3. F("user") \in Frames
    BY <2>2 DEF PlainFrames
  <2>4. gs \in Seq(Frames)
    BY <2>3
  <2>5. gs \o <<>> = gs
    BY <2>4
  <2> QED
    BY <2>1, <2>2, <2>4, <2>5 DEF Shifted
<1>2. CASE stack # <<>>
  <2>1. stack' = fs \o stack /\ Head(stack).f = "user" /\ OnTop = "user" /\ Under = Tail(stack)
    BY <1>2 DEF Push, InUser, Top, OnTop, Under
  <2>2. Head(stack) \in Frames /\ stack = <<Head(stack)>> \o Tail(stack)
            /\ Tail(stack) \in Seq(Frames)
    BY <1>0, <1>2
  <2>3. Head(stack) \in PlainFrames
    BY <2>1, <2>2 DEF PlainFrames, Special, Bottoms, AtOnce, Loops, Careful, Errors, Constructing
  <2> DEFINE h == Head(stack)  t == Tail(stack)
  <2>4. \A u \in Frames, r \in Seq(Frames) : fs \o (<<u>> \o r) = (fs \o <<u>>) \o r
            /\ fs \o <<u>> \in Seq(Frames)
    OBVIOUS
  <2>5. stack' = (fs \o <<h>>) \o t /\ fs \o <<h>> \in Seq(Frames)
    BY <2>1, <2>2, <2>4
  <2> QED
    BY <2>1, <2>3, <2>5 DEF Shifted
<1> QED
  BY <1>1, <1>2

\* The ticks that were queued, and perhaps another one.
Ticked ==
  /\ ticks' \in Seq(Frames) /\ DOMAIN ticks \subseteq DOMAIN ticks'
  /\ \A i \in DOMAIN ticks' :
       \/ i \in DOMAIN ticks /\ ticks'[i].f = ticks[i].f
       \/ i \notin DOMAIN ticks /\ ticks'[i].f \notin Direct \cup Constructing
           /\ \E fr : fr = ticks'[i] /\ FrameOK(fr)'

\* The queue of ticks stays as it is, ...
LEMMA TickNone == ASSUME CoreTypes, ticks' = ticks PROVE Ticked
BY DEF CoreTypes, Ticked

\* ... or process.nextTick() is given one more, ...
LEMMA TickOne ==
  ASSUME CoreTypes, NEW fr \in Frames, Tick(fr), fr.f \notin Direct \cup Constructing,
      FrameOK(fr)'
  PROVE  Ticked
<1>1. ticks' = Append(ticks, fr) /\ ticks \in Seq(Frames)
  BY DEF CoreTypes, Tick
<1>2. /\ ticks' \in Seq(Frames) /\ DOMAIN ticks = 1 .. Len(ticks) /\ Len(ticks) \in Nat
      /\ DOMAIN ticks' = 1 .. Len(ticks) + 1 /\ ticks'[Len(ticks) + 1] = fr
      /\ \A i \in 1 .. Len(ticks) : ticks'[i] = ticks[i]
  BY <1>1
<1>3. ASSUME NEW i \in DOMAIN ticks', i \notin DOMAIN ticks PROVE ticks'[i] = fr
  BY <1>2, <1>3
<1> QED
  BY <1>2, <1>3 DEF Ticked

\* ... which may be one that relies on nothing.
LEMMA TickPlain == ASSUME CoreTypes, NEW fr \in PlainFrames, Tick(fr) PROVE Ticked
BY TickOne, FreeFrame DEF PlainFrames, Special, Direct, Careful, Errors

\* What a step keeps that leaves the chunks where they are.
LEMMA CalmStep ==
  ASSUME SinkInv, Calm, NEW fs, Shifted(fs), Ticked,
         \A i \in 1 .. Len(fs) : fs[i].f \notin Constructing /\ FrameOK(fs[i])',
         "construct" \in io' <=> "construct" \in io,
         st'.finished = st.finished \/ Drained,
         st'.onFinished # 0 => st'.ending,
         \A i \in 2 .. Len(fs) : fs[i].f \notin AtOnce,
         Len(fs) > 0 =>
           /\ fs[1].f = "clearBuffer" => ~st'.writing /\ (st'.destroyed \/ st'.failed = <<>>)
           /\ fs[1].f = "_write" => st'.sync /\ st'.expectWriteCb
           /\ fs[1].f = "onwrite" => stack = <<>> \/ (st'.sync /\ st'.expectWriteCb),
         Len(fs) <= 1 \/ fs[1].f # "onwrite",
         \A i \in 1 .. Len(fs) : fs[i].f \in Bottoms => i = Len(fs) /\ Len(stack) <= 1,
         st'.expectWriteCb => st'.writing
  PROVE  BufferOrdered' /\ AllThere' /\ FramesOK' /\ ConstructOnce' /\ TopOK' /\ PlacesOK'
<1>1. CoreTypes /\ BufferOrdered /\ AllThere /\ FramesOK /\ ConstructOnce /\ TopOK /\ PlacesOK
  BY DEF SinkInv
<1>2. BufferOrdered' /\ AllThere'
  BY <1>1, CalmOrder
<1>3. \A i \in DOMAIN ticks' : \E fr : fr = ticks'[i] /\ FrameOK(fr)'
  <2> TAKE i \in DOMAIN ticks'
  <2>1. CASE i \in DOMAIN ticks /\ ticks'[i].f = ticks[i].f
    <3>1. FrameOK(ticks[i]) /\ ticks[i].f # "errorLoop"
      BY <1>1, <2>1 DEF FramesOK, PlacesOK, Direct
    <3>2. PICK fr : fr = ticks'[i]
      OBVIOUS
    <3>3. FrameOK(fr)
      BY <2>1, <3>1, <3>2 DEF FrameOK
    <3> QED
      BY <3>2, <3>3, CalmFrames
  <2> QED
    BY <2>1 DEF Ticked
<1>4. FramesOK'
  <2>1. \A i \in 2 .. Len(stack) : \A fr : fr = stack[i] /\ FrameOK(fr) => FrameOK(fr)'
    BY CalmFrames
  <2>2. "construct" \in io' => ~st'.constructed
    BY <1>1 DEF FramesOK, Calm
  <2>3. st'.finished => Drained'
    BY <1>1, CalmFrames DEF FramesOK
  <2> QED
    BY <1>1, <1>3, <2>1, <2>2, <2>3, FramesStep
<1>5. ConstructOnce'
  <2>1. \A i \in DOMAIN ticks' : IF i \in DOMAIN ticks THEN ticks'[i].f = ticks[i].f
                                 ELSE ticks'[i].f \notin Constructing
    BY DEF Ticked
  <2> QED
    BY <1>1, <2>1, ConstructStep DEF Ticked
<1>6. TopOK'
  <2>1. st'.writing => st'.constructed
    BY <1>1 DEF TopOK, Calm
  <2>2. st'.failed # <<>> => Dead' /\ ~st'.writing
    BY <1>1, CalmFrames DEF TopOK, Calm
  <2> QED
    BY <1>1, <2>1, <2>2, TopStep
<1>7. PlacesOK'
  BY <1>1, PlacesStep DEF Ticked, PlacesOK
<1> QED
  BY <1>2, <1>4, <1>5, <1>6, <1>7

\* What such a step keeps when it neither runs nor calls a function that looks at
\* the queue.
Busy == LoopTops \cup {"callbacks", "callFinishedCallbacks", "errorOrDestroy", "destroy"}
Kept ==
  /\ Calm /\ st'.writing = st.writing /\ st'.corked = st.corked
  /\ st'.expectWriteCb = st.expectWriteCb /\ st'.bufferProcessing = st.bufferProcessing
  /\ st'.finished = st.finished /\ (st'.onFinished # 0 => st'.ending)
  /\ "construct" \in io' <=> "construct" \in io
\* A function that touches neither the chunks nor the loops keeps the invariant, ...
LEMMA QuietStep ==
  ASSUME SinkInv, CoreTypes', Kept, NEW fs, Shifted(fs), Ticked, OnTop \notin Busy,
         \A i \in 1 .. Len(fs) :

           /\ fs[i].f \notin {"_write", "onwrite", "clearBuffer"} \cup Loops \cup Errors
               \cup Constructing
           /\ fs[i].f = "callFinishedCallbacks" => i = 1
           /\ fs[i].f \in Bottoms => i = Len(fs) /\ Len(stack) <= 1
           /\ FrameOK(fs[i])'
  PROVE  SinkInv'
<1>1. CoreTypes /\ TopOK /\ LoopsOK /\ ErrorsOK /\ Waiting /\ Len(fs) \in Nat
  BY DEF SinkInv, Shifted
<1>2. BufferOrdered' /\ AllThere' /\ FramesOK' /\ ConstructOnce' /\ TopOK' /\ PlacesOK'
  <2>1. st'.expectWriteCb => st'.writing
    BY <1>1 DEF TopOK, Kept
  <2>2. Len(fs) > 0 => fs[1].f \notin {"_write", "onwrite", "clearBuffer"}
    BY <1>1
  <2>3. \A i \in 2 .. Len(fs) : fs[i].f \notin AtOnce
    BY <1>1 DEF AtOnce
  <2>4. /\ Len(fs) > 0 => /\ fs[1].f = "clearBuffer" => ~st'.writing
                              /\ (st'.destroyed \/ st'.failed = <<>>)
                          /\ fs[1].f = "_write" => st'.sync /\ st'.expectWriteCb
                          /\ fs[1].f = "onwrite" => stack = <<>>
                              \/ (st'.sync /\ st'.expectWriteCb)
        /\ Len(fs) <= 1 \/ fs[1].f # "onwrite"
    BY <1>1, <2>2
  <2>5. \A i \in 1 .. Len(fs) : /\ fs[i].f \notin Constructing /\ FrameOK(fs[i])'
                                /\ fs[i].f \in Bottoms => i = Len(fs) /\ Len(stack) <= 1
    OBVIOUS
  <2> QED
    BY <2>1, <2>3, <2>4, <2>5, CalmStep DEF Kept
<1>3. LoopsOK'
  BY <1>1, LoopsStep DEF Kept, Busy
<1>4. ErrorsOK'
  BY <1>1, ErrorsStep DEF Kept, Calm, Busy
<1>5. Waiting'
  BY <1>1, WaitingStep DEF Kept, Calm, Busy, LoopTops
<1> QED
  BY <1>2, <1>3, <1>4, <1>5 DEF SinkInv

\* ... in particular when it only leaves frames that rely on nothing.
LEMMA PlainStep ==
  ASSUME SinkInv, CoreTypes', Kept, NEW fs \in Seq(PlainFrames), Shifted(fs), Ticked,
      OnTop \notin Busy
  PROVE  SinkInv'
<1>1. \A i \in 1 .. Len(fs) : fs[i] \in PlainFrames
  OBVIOUS
<1>2. \A i \in 1 .. Len(fs) : fs[i].f \notin Special
  BY <1>1 DEF PlainFrames
<1>3. \A i \in 1 .. Len(fs) : FrameOK(fs[i])'
  BY <1>2, FreeFrame DEF Special
<1> QED
  BY <1>2, <1>3, QuietStep DEF Special, Careful, AtOnce

\* The functions whose frames rely on nothing.
PlainNames == {"user", "writeReturn", "end", "unsync", "onwriteSync", "callbacks",
               "finishMaybe", "prefinish", "finishMaybeCheck", "finishNT", "_final",
               "onFinish", "onFinishError", "emitFinish", "errorOrDestroy", "destroy",
               "_destroy", "onDestroy", "emitErrorCloseNT", "emitErrorNT", "emitCloseNT"}
\* The frames of these functions, whatever their arguments.
LEMMA PlainCalls ==
  \A f \in PlainNames, n \in Int, cb \in Seq(Kinds \cup {"end"}), er \in BOOLEAN :
    /\ F(f) \in PlainFrames /\ Fe(f, er) \in PlainFrames /\ Fn(f, n) \in PlainFrames
    /\ Fnc(f, n, cb) \in PlainFrames
<1>1. \A f \in PlainNames : f \in Functions /\ f \notin Special
  BY DEF PlainNames, Functions, Special, Bottoms, AtOnce, Loops, Careful, Errors, Constructing
<1> QED
  BY <1>1, PlainFrame

\* The types of the state, apart from the queue, the stack and the ticks.
StateTypes ==
  /\ DOMAIN st = Fields
  /\ st.constructed \in BOOLEAN /\ st.destroyed \in BOOLEAN /\ st.errored \in BOOLEAN
  /\ st.ending \in BOOLEAN /\ st.finished \in BOOLEAN /\ st.writing \in BOOLEAN
  /\ st.sync \in BOOLEAN /\ st.expectWriteCb \in BOOLEAN
  /\ st.bufferProcessing \in BOOLEAN /\ st.buffered \in BOOLEAN
  /\ st.corked \in Nat /\ st.onFinished \in Nat
  /\ st.failed \in Seq(Nat) /\ st.writecb \in Seq(Kinds)
\* The types after a step that moves no chunk.
LEMMA TypesStep ==
  ASSUME CoreTypes, NEW fs, Shifted(fs), ticks' \in Seq(Frames), UNCHANGED <<given, sunk,
      buffer>>,
         StateTypes'
  PROVE  CoreTypes'
BY Shift DEF CoreTypes, StateTypes

\* The same for the calls that need no argument.
LEMMA Simple == \A f \in PlainNames : F(f) \in PlainFrames
<1>1. 0 \in Int /\ <<>> \in Seq(Kinds \cup {"end"}) /\ TRUE \in BOOLEAN
  OBVIOUS
<1> QED
  BY <1>1, PlainCalls

\* Lists of at most two frames.
LEMMA Short == /\ <<>> \in Seq(PlainFrames)
               /\ \A x \in PlainFrames : <<x>> \in Seq(PlainFrames)
               /\ \A x, y \in PlainFrames : <<x, y>> \in Seq(PlainFrames)
OBVIOUS

\* The parts of the frame on top.
LEMMA TopFrame ==
  ASSUME CoreTypes, stack # <<>>
  PROVE  /\ Head(stack) \in Frames /\ Head(stack).f \in Functions /\ Head(stack).n \in Int
         /\ Head(stack).cb \in Seq(Kinds \cup {"end"}) /\ Head(stack).er \in BOOLEAN
         /\ Under \in Seq(Frames)
<1>1. stack \in Seq(Frames)
  BY DEF CoreTypes
<1>2. Head(stack) \in Frames /\ Tail(stack) \in Seq(Frames)
  BY <1>1
<1> QED
  BY <1>2 DEF Frames, Under

\* What the frame on top relies on.
LEMMA TopRelies == ASSUME CoreTypes, FramesOK, stack # <<>> PROVE FrameOK(Head(stack))
BY DEF CoreTypes, FramesOK

\* The functions that do not look at the queue keep the invariant.
LEMMA PlainActions ==
  ASSUME SinkInv,
         \/ UserReturn \/ WriteReturn \/ Prefinish \/ ImplFinal \/ OnFinishError
         \/ EmitFinish \/ ImplDestroy \/ OnDestroy \/ EmitErrorCloseNT \/ EmitErrorNT
             \/ EmitCloseNT
  PROVE  SinkInv'
<1>0. CoreTypes /\ FramesOK
  BY DEF SinkInv
<1>1. 0 \in Int /\ 1 \in Int /\ <<>> \in Seq(Kinds \cup {"end"}) /\ TRUE \in BOOLEAN
          /\ FALSE \in BOOLEAN
  OBVIOUS

<1>2. CASE UserReturn
  <2>1. Top("user") /\ stack # <<>>
    BY <1>2 DEF UserReturn, Top
  <2>2. /\ <<>> \in Seq(PlainFrames)
    BY UserFrames
  <2>3. PICK fs \in Seq(PlainFrames) : Call(fs)
    BY <1>2, <2>1, <2>2, <1>0, TopFrame DEF UserReturn
  <2>4. fs \in Seq(Frames)
    BY DEF PlainFrames
  <2>5. Shifted(fs) /\ OnTop = "user"
    BY <2>1, <2>3, <2>4, Called
  <2>6. Ticked
    BY <1>2, <1>0, TickNone DEF UserReturn
  <2>7. Kept
    BY <1>2, <1>0 DEF UserReturn, history, Kept, Calm, CoreTypes, Fields, FramesOK
  <2>8. StateTypes'
    BY <1>2, <1>0 DEF UserReturn, history, StateTypes, CoreTypes, Fields
  <2>9. CoreTypes'
    BY <1>2, <1>0, <2>5, <2>6, <2>8, TypesStep DEF UserReturn, history, Ticked
  <2> QED
    BY <2>5, <2>6, <2>7, <2>9, PlainStep DEF Busy, LoopTops, Loops
<1>3. CASE WriteReturn
  <2>1. Top("writeReturn") /\ stack # <<>>
    BY <1>3 DEF WriteReturn, Top
  <2>2. /\ <<>> \in Seq(PlainFrames)
    BY UserFrames
  <2>3. PICK fs \in Seq(PlainFrames) : Call(fs)
    BY <1>3, <2>1, <2>2, <1>0, TopFrame DEF WriteReturn
  <2>4. fs \in Seq(Frames)
    BY DEF PlainFrames
  <2>5. Shifted(fs) /\ OnTop = "writeReturn"
    BY <2>1, <2>3, <2>4, Called
  <2>6. Ticked
    BY <1>3, <1>0, TickNone DEF WriteReturn
  <2>7. Kept
    BY <1>3, <1>0 DEF WriteReturn, history, Kept, Calm, CoreTypes, Fields, FramesOK
  <2>8. StateTypes'
    BY <1>3, <1>0 DEF WriteReturn, history, StateTypes, CoreTypes, Fields
  <2>9. CoreTypes'
    BY <1>3, <1>0, <2>5, <2>6, <2>8, TypesStep DEF WriteReturn, history, Ticked
  <2> QED
    BY <2>5, <2>6, <2>7, <2>9, PlainStep DEF Busy, LoopTops, Loops
<1>4. CASE Prefinish
  <2>1. Top("prefinish") /\ stack # <<>>
    BY <1>4 DEF Prefinish, Top
  <2>a. /\ F("_final") \in PlainFrames
        /\ F("unsync") \in PlainFrames
    BY <1>0, <1>1, <2>1, TopFrame, PlainCalls, Simple DEF PlainNames
  <2>2. /\ <<>> \in Seq(PlainFrames)
        /\ <<F("_final"), F("unsync")>> \in Seq(PlainFrames)
        /\ User("prefinish") \in Seq(PlainFrames)
    BY <2>a, UserFrames
  <2>3. PICK fs \in Seq(PlainFrames) : Call(fs)
    BY <1>4, <2>1, <2>2, <1>0, TopFrame DEF Prefinish
  <2>4. fs \in Seq(Frames)
    BY DEF PlainFrames
  <2>5. Shifted(fs) /\ OnTop = "prefinish"
    BY <2>1, <2>3, <2>4, Called
  <2>6. Ticked
    BY <1>4, <1>0, TickNone DEF Prefinish
  <2>7. Kept
    BY <1>4, <1>0 DEF Prefinish, history, Kept, Calm, CoreTypes, Fields, FramesOK
  <2>8. StateTypes'
    BY <1>4, <1>0 DEF Prefinish, history, StateTypes, CoreTypes, Fields
  <2>9. CoreTypes'
    BY <1>4, <1>0, <2>5, <2>6, <2>8, TypesStep DEF Prefinish, history, Ticked
  <2> QED
    BY <2>5, <2>6, <2>7, <2>9, PlainStep DEF Busy, LoopTops, Loops
<1>5. CASE ImplFinal
  <2>1. Top("_final") /\ stack # <<>>
    BY <1>5 DEF ImplFinal, Top
  <2>a. /\ Fe("onFinish", FALSE) \in PlainFrames
        /\ Fe("onFinish", TRUE) \in PlainFrames
    BY <1>0, <1>1, <2>1, TopFrame, PlainCalls, Simple DEF PlainNames
  <2>2. /\ <<Fe("onFinish", TRUE)>> \in Seq(PlainFrames)
        /\ <<Fe("onFinish", FALSE)>> \in Seq(PlainFrames)
        /\ <<>> \in Seq(PlainFrames)
    BY <2>a, Short
  <2>3. PICK fs \in Seq(PlainFrames) : Call(fs)
    BY <1>5, <2>1, <2>2, <1>0, TopFrame DEF ImplFinal
  <2>4. fs \in Seq(Frames)
    BY DEF PlainFrames
  <2>5. Shifted(fs) /\ OnTop = "_final"
    BY <2>1, <2>3, <2>4, Called
  <2>6. Ticked
    BY <1>5, <1>0, TickNone DEF ImplFinal
  <2>7. Kept
    BY <1>5, <1>0 DEF ImplFinal, history, Kept, Calm, CoreTypes, Fields, FramesOK
  <2>8. StateTypes'
    BY <1>5, <1>0 DEF ImplFinal, history, StateTypes, CoreTypes, Fields
  <2>9. CoreTypes'
    BY <1>5, <1>0, <2>5, <2>6, <2>8, TypesStep DEF ImplFinal, history, Ticked
  <2> QED
    BY <2>5, <2>6, <2>7, <2>9, PlainStep DEF Busy, LoopTops, Loops
<1>6. CASE OnFinishError
  <2>1. Top("onFinishError") /\ stack # <<>>
    BY <1>6 DEF OnFinishError, Top
  <2>a. /\ Fn("errorOrDestroy", 0) \in PlainFrames
        /\ Fn("errorOrDestroy", 1) \in PlainFrames
    BY <1>0, <1>1, <2>1, TopFrame, PlainCalls, Simple DEF PlainNames
  <2>2. /\ <<Fn("errorOrDestroy", 0)>> \in Seq(PlainFrames)
        /\ <<Fn("errorOrDestroy", 1)>> \in Seq(PlainFrames)
    BY <2>a, Short
  <2>3. PICK fs \in Seq(PlainFrames) : Call(fs)
    BY <1>6, <2>1, <2>2, <1>0, TopFrame DEF OnFinishError
  <2>4. fs \in Seq(Frames)
    BY DEF PlainFrames
  <2>5. Shifted(fs) /\ OnTop = "onFinishError"
    BY <2>1, <2>3, <2>4, Called
  <2>6. Ticked
    BY <1>6, <1>0, TickNone DEF OnFinishError
  <2>7. Kept
    BY <1>6, <1>0 DEF OnFinishError, history, Kept, Calm, CoreTypes, Fields, FramesOK
  <2>8. StateTypes'
    BY <1>6, <1>0 DEF OnFinishError, history, StateTypes, CoreTypes, Fields
  <2>9. CoreTypes'
    BY <1>6, <1>0, <2>5, <2>6, <2>8, TypesStep DEF OnFinishError, history, Ticked
  <2> QED
    BY <2>5, <2>6, <2>7, <2>9, PlainStep DEF Busy, LoopTops, Loops
<1>7. CASE EmitFinish
  <2>1. Top("emitFinish") /\ stack # <<>>
    BY <1>7 DEF EmitFinish, Top
  <2>a. /\ F("destroy") \in PlainFrames
    BY <1>0, <1>1, <2>1, TopFrame, PlainCalls, Simple DEF PlainNames
  <2>2. /\ User("finish") \o <<>> \in Seq(PlainFrames)
        /\ User("finish") \o <<F("destroy")>> \in Seq(PlainFrames)
    BY <2>a, UserFrames
  <2>3. PICK fs \in Seq(PlainFrames) : Call(fs)
    BY <1>7, <2>1, <2>2, <1>0, TopFrame DEF EmitFinish
  <2>4. fs \in Seq(Frames)
    BY DEF PlainFrames
  <2>5. Shifted(fs) /\ OnTop = "emitFinish"
    BY <2>1, <2>3, <2>4, Called
  <2>6. Ticked
    BY <1>7, <1>0, TickNone DEF EmitFinish
  <2>7. Kept
    BY <1>7, <1>0 DEF EmitFinish, history, Kept, Calm, CoreTypes, Fields, FramesOK
  <2>8. StateTypes'
    BY <1>7, <1>0 DEF EmitFinish, history, StateTypes, CoreTypes, Fields
  <2>9. CoreTypes'
    BY <1>7, <1>0, <2>5, <2>6, <2>8, TypesStep DEF EmitFinish, history, Ticked
  <2> QED
    BY <2>5, <2>6, <2>7, <2>9, PlainStep DEF Busy, LoopTops, Loops
<1>8. CASE ImplDestroy
  <2>1. Top("_destroy") /\ stack # <<>>
    BY <1>8 DEF ImplDestroy, Top
  <2>a. /\ Fe("onDestroy", FALSE) \in PlainFrames
        /\ Fe("onDestroy", TRUE) \in PlainFrames
    BY <1>0, <1>1, <2>1, TopFrame, PlainCalls, Simple DEF PlainNames
  <2>2. /\ <<Fe("onDestroy", TRUE)>> \in Seq(PlainFrames)
        /\ <<Fe("onDestroy", FALSE)>> \in Seq(PlainFrames)
        /\ <<>> \in Seq(PlainFrames)
    BY <2>a, Short
  <2>3. PICK fs \in Seq(PlainFrames) : Call(fs)
    BY <1>8, <2>1, <2>2, <1>0, TopFrame DEF ImplDestroy
  <2>4. fs \in Seq(Frames)
    BY DEF PlainFrames
  <2>5. Shifted(fs) /\ OnTop = "_destroy"
    BY <2>1, <2>3, <2>4, Called
  <2>6. Ticked
    BY <1>8, <1>0, TickNone DEF ImplDestroy
  <2>7. Kept
    BY <1>8, <1>0 DEF ImplDestroy, history, Kept, Calm, CoreTypes, Fields, FramesOK
  <2>8. StateTypes'
    BY <1>8, <1>0 DEF ImplDestroy, history, StateTypes, CoreTypes, Fields
  <2>9. CoreTypes'
    BY <1>8, <1>0, <2>5, <2>6, <2>8, TypesStep DEF ImplDestroy, history, Ticked
  <2> QED
    BY <2>5, <2>6, <2>7, <2>9, PlainStep DEF Busy, LoopTops, Loops
<1>9. CASE OnDestroy
  <2>1. Top("onDestroy") /\ stack # <<>>
    BY <1>9 DEF OnDestroy, Top
  <2>2. /\ <<>> \in Seq(PlainFrames)
    BY UserFrames
  <2>3. PICK fs \in Seq(PlainFrames) : Call(fs)
    BY <1>9, <2>1, <2>2, <1>0, TopFrame DEF OnDestroy
  <2>4. fs \in Seq(Frames)
    BY DEF PlainFrames
  <2>5. Shifted(fs) /\ OnTop = "onDestroy"
    BY <2>1, <2>3, <2>4, Called
  <2>6. Ticked
    <3>1. PICK fr \in PlainFrames : Tick(fr)
      <4>1. F("emitErrorCloseNT") \in PlainFrames /\ F("emitCloseNT") \in PlainFrames
        BY Simple DEF PlainNames
      <4> QED
        BY <1>9, <4>1 DEF OnDestroy
    <3> QED
      BY <1>0, <3>1, TickPlain
  <2>7. Kept
    BY <1>9, <1>0 DEF OnDestroy, Tick, history, Kept, Calm, CoreTypes, Fields, FramesOK
  <2>8. StateTypes'
    BY <1>9, <1>0 DEF OnDestroy, history, StateTypes, CoreTypes, Fields
  <2>9. CoreTypes'
    BY <1>9, <1>0, <2>5, <2>6, <2>8, TypesStep DEF OnDestroy, history, Ticked
  <2> QED
    BY <2>5, <2>6, <2>7, <2>9, PlainStep DEF Busy, LoopTops, Loops
<1>10. CASE EmitErrorCloseNT
  <2>1. Top("emitErrorCloseNT") /\ stack # <<>>
    BY <1>10 DEF EmitErrorCloseNT, Top
  <2>a. /\ F("emitCloseNT") \in PlainFrames
        /\ F("emitErrorNT") \in PlainFrames
    BY <1>0, <1>1, <2>1, TopFrame, PlainCalls, Simple DEF PlainNames
  <2>2. /\ <<F("emitErrorNT"), F("emitCloseNT")>> \in Seq(PlainFrames)
    BY <2>a, Short
  <2>3. PICK fs \in Seq(PlainFrames) : Call(fs)
    BY <1>10, <2>1, <2>2, <1>0, TopFrame DEF EmitErrorCloseNT
  <2>4. fs \in Seq(Frames)
    BY DEF PlainFrames
  <2>5. Shifted(fs) /\ OnTop = "emitErrorCloseNT"
    BY <2>1, <2>3, <2>4, Called
  <2>6. Ticked
    BY <1>10, <1>0, TickNone DEF EmitErrorCloseNT
  <2>7. Kept
    BY <1>10, <1>0 DEF EmitErrorCloseNT, history, Kept, Calm, CoreTypes, Fields, FramesOK
  <2>8. StateTypes'
    BY <1>10, <1>0 DEF EmitErrorCloseNT, history, StateTypes, CoreTypes, Fields
  <2>9. CoreTypes'
    BY <1>10, <1>0, <2>5, <2>6, <2>8, TypesStep DEF EmitErrorCloseNT, history, Ticked
  <2> QED
    BY <2>5, <2>6, <2>7, <2>9, PlainStep DEF Busy, LoopTops, Loops
<1>11. CASE EmitErrorNT
  <2>1. Top("emitErrorNT") /\ stack # <<>>
    BY <1>11 DEF EmitErrorNT, Top
  <2>2. /\ <<>> \in Seq(PlainFrames)
        /\ User("error") \in Seq(PlainFrames)
    BY UserFrames
  <2>3. PICK fs \in Seq(PlainFrames) : Call(fs)
    BY <1>11, <2>1, <2>2, <1>0, TopFrame DEF EmitErrorNT
  <2>4. fs \in Seq(Frames)
    BY DEF PlainFrames
  <2>5. Shifted(fs) /\ OnTop = "emitErrorNT"
    BY <2>1, <2>3, <2>4, Called
  <2>6. Ticked
    BY <1>11, <1>0, TickNone DEF EmitErrorNT
  <2>7. Kept
    BY <1>11, <1>0 DEF EmitErrorNT, history, Kept, Calm, CoreTypes, Fields, FramesOK
  <2>8. StateTypes'
    BY <1>11, <1>0 DEF EmitErrorNT, history, StateTypes, CoreTypes, Fields
  <2>9. CoreTypes'
    BY <1>11, <1>0, <2>5, <2>6, <2>8, TypesStep DEF EmitErrorNT, history, Ticked
  <2> QED
    BY <2>5, <2>6, <2>7, <2>9, PlainStep DEF Busy, LoopTops, Loops
<1>12. CASE EmitCloseNT
  <2>1. Top("emitCloseNT") /\ stack # <<>>
    BY <1>12 DEF EmitCloseNT, Top
  <2>2. /\ User("close") \in Seq(PlainFrames)
    BY UserFrames
  <2>3. PICK fs \in Seq(PlainFrames) : Call(fs)
    BY <1>12, <2>1, <2>2, <1>0, TopFrame DEF EmitCloseNT
  <2>4. fs \in Seq(Frames)
    BY DEF PlainFrames
  <2>5. Shifted(fs) /\ OnTop = "emitCloseNT"
    BY <2>1, <2>3, <2>4, Called
  <2>6. Ticked
    BY <1>12, <1>0, TickNone DEF EmitCloseNT
  <2>7. Kept
    BY <1>12, <1>0 DEF EmitCloseNT, history, Kept, Calm, CoreTypes, Fields, FramesOK
  <2>8. StateTypes'
    BY <1>12, <1>0 DEF EmitCloseNT, history, StateTypes, CoreTypes, Fields
  <2>9. CoreTypes'
    BY <1>12, <1>0, <2>5, <2>6, <2>8, TypesStep DEF EmitCloseNT, history, Ticked
  <2> QED
    BY <2>5, <2>6, <2>7, <2>9, PlainStep DEF Busy, LoopTops, Loops
<1> QED
  BY <1>2, <1>3, <1>4, <1>5, <1>6, <1>7, <1>8, <1>9, <1>10, <1>11, <1>12

\* finishMaybe() goes on only when nothing is left to write.
LEMMA NeedFinishDrained ==
  ASSUME SinkInv, needFinish(st) PROVE Drained
<1>1. CoreTypes /\ BufferOrdered /\ AllThere
  BY DEF SinkInv
<1>2. /\ st.ending /\ ~st.writing /\ ~st.buffered /\ buffer = <<>>
      /\ ~(st.errored \/ st.destroyed)
  BY <1>1 DEF needFinish, BufferOrdered, CoreTypes
<1>3. Len(buffer) = 0 /\ Len(sunk) \in Nat /\ Len(given) \in Nat
  BY <1>1, <1>2 DEF CoreTypes
<1> QED
  BY <1>1, <1>2, <1>3 DEF AllThere, Drained

\* end() marks the stream, and its callback waits for the end.
LEMMA EndActions ==
  ASSUME SinkInv, EndSetEnding \/ EndCallback PROVE SinkInv'
<1>0. CoreTypes /\ FramesOK
  BY DEF SinkInv
<1>1. 0 \in Int /\ 1 \in Int /\ <<>> \in Seq(Kinds \cup {"end"}) /\ TRUE \in BOOLEAN
          /\ FALSE \in BOOLEAN
  OBVIOUS
<1>2. CASE EndSetEnding
  <2>0. Top("end") /\ stack # <<>> /\ Ticked /\ ticks' \in Seq(Frames)
    BY <1>2, <1>0, TickNone DEF EndSetEnding, Top, Ticked
  <2>1. Kept
    BY <1>2, <1>0 DEF EndSetEnding, history, Kept, Calm, CoreTypes, Fields, FramesOK
  <2>2. StateTypes'
    BY <1>2, <1>0 DEF EndSetEnding, history, StateTypes, CoreTypes, Fields
  <2>3. st'.ending \/ st'.errored
    BY <1>2, <1>0 DEF EndSetEnding, CoreTypes, Fields
  <2>4. "endCallback" \in Functions /\ Fn("finishMaybe", 1) \in PlainFrames
    BY <1>1, PlainCalls DEF Functions, PlainNames
  <2> DEFINE n == Head(stack).n
             b == [Fn("endCallback", n) EXCEPT !.er = st.finished \/ st.destroyed]
  <2>5. Fn("endCallback", n) \in Frames /\ Fn("endCallback", n).f = "endCallback"
    BY <1>0, <1>1, <2>0, <2>4, TopFrame, FrameTypes, FrameParts
  <2>6. b \in Frames /\ b.f = "endCallback"
    BY <2>5, <1>0 DEF Frames, CoreTypes
  <2>7. \A fr : fr.f = "endCallback" => FrameOK(fr)'
    BY <2>3 DEF FrameOK
  <2>8. PICK fs \in Seq(Frames) :
          /\ Call(fs)
          /\ \A i \in 1 .. Len(fs) : fs[i] \in PlainFrames \/ fs[i].f = "endCallback"
    <3> HIDE DEF b
    <3>0. PICK x \in Frames, y \in Frames, z \in Frames :
            /\ x = Fn("finishMaybe", 1) /\ y = Fn("endCallback", n) /\ z = b
            /\ x \in PlainFrames /\ y.f = "endCallback" /\ z.f = "endCallback"
      BY <2>4, <2>5, <2>6 DEF PlainFrames
    <3>1. CASE Call(<<Fn("finishMaybe", 1), Fn("endCallback", n)>>)
      <4>1. PICK fs \in Seq(Frames) : Call(fs) /\ Len(fs) = 2 /\ fs[1] = x /\ fs[2] = y
        BY <3>0, <3>1, Calls
      <4>2. \A i \in 1 .. Len(fs) : fs[i] \in PlainFrames \/ fs[i].f = "endCallback"
        BY <3>0, <4>1
      <4> QED
        BY <4>1, <4>2
    <3>2. CASE Call(<<b>>)
      <4>1. PICK fs \in Seq(Frames) : Call(fs) /\ Len(fs) = 1 /\ fs[1] = z
        BY <3>0, <3>2, Calls
      <4>2. \A i \in 1 .. Len(fs) : fs[i] \in PlainFrames \/ fs[i].f = "endCallback"
        BY <3>0, <4>1
      <4> QED
        BY <4>1, <4>2
    <3> QED
      BY <1>2, <3>1, <3>2 DEF EndSetEnding, b
  <2>9. \A i \in 1 .. Len(fs) :

           /\ fs[i].f \notin {"_write", "onwrite", "clearBuffer"} \cup Loops \cup Errors
               \cup Constructing
           /\ fs[i].f = "callFinishedCallbacks" => i = 1
           /\ fs[i].f \in Bottoms => i = Len(fs) /\ Len(stack) <= 1
           /\ FrameOK(fs[i])'
    <3> TAKE i \in 1 .. Len(fs)
    <3>1. CASE fs[i] \in PlainFrames
      BY <3>1, FreeFrame DEF PlainFrames, Special, Careful, AtOnce
    <3>2. CASE fs[i].f = "endCallback"
      BY <3>2, <2>7 DEF Loops, Errors, Constructing, Bottoms
    <3> QED
      BY <2>8, <3>1, <3>2
  <2>10. Shifted(fs) /\ OnTop = "end"
    BY <2>0, <2>8, Called
  <2>11. CoreTypes'
    BY <1>2, <1>0, <2>0, <2>2, <2>10, TypesStep DEF EndSetEnding, history
  <2> QED
    BY <2>0, <2>1, <2>9, <2>10, <2>11, QuietStep DEF Busy, LoopTops, Loops
<1>3. CASE EndCallback
  <2>1. Top("endCallback") /\ stack # <<>> /\ Call(<<>>) /\ <<>> \in Seq(PlainFrames)
            /\ <<>> \in Seq(Frames)
    BY <1>3 DEF EndCallback, Top
  <2>2. Shifted(<<>>) /\ OnTop = "endCallback"
    BY <2>1, Called
  <2>3. st.ending \/ st.errored
    BY <1>0, <2>1, TopRelies DEF FrameOK, Top
  <2>4. Ticked
    <3> DEFINE e == Head(stack).er \/ st.errored
    <3>1. e \in BOOLEAN /\ <<"end">> \in Seq(Kinds \cup {"end"})
      BY <1>0, <2>1, TopFrame DEF CoreTypes
    <3>2. Fc(<<"end">>, e) \in PlainFrames
      BY <3>1, CallbackFrame
    <3>3. ticks' = ticks \/ Tick(Fc(<<"end">>, e))
      BY <1>3 DEF EndCallback
    <3> HIDE DEF e
    <3>4. PICK fr \in PlainFrames : fr = Fc(<<"end">>, e)
      BY <3>2
    <3> QED
      BY <1>0, <3>3, <3>4, TickNone, TickPlain
  <2>5. Kept
    <3>1. st' = st \/ st' = [st EXCEPT !.onFinished = @ + 1]
      BY <1>3 DEF EndCallback
    <3>2. Calm
      BY <1>3, <1>0, <3>1 DEF EndCallback, history, Calm, CoreTypes, Fields
    <3>3. st'.onFinished # 0 => st'.ending
      <4>1. CASE st' = st
        BY <4>1, <1>0 DEF FramesOK
      <4>2. CASE st' # st
        <5>1. ~st.errored
          BY <1>3, <4>2 DEF EndCallback
        <5> QED
          BY <3>1, <1>0, <2>3, <5>1 DEF CoreTypes, Fields
      <4> QED
        BY <4>1, <4>2
    <3> QED
      BY <1>3, <1>0, <3>1, <3>2, <3>3 DEF EndCallback, Kept, CoreTypes, Fields
  <2>6. StateTypes'
    <3>1. st' = st \/ st' = [st EXCEPT !.onFinished = @ + 1]
      BY <1>3 DEF EndCallback
    <3>2. CASE st' = st
      BY <3>2, <1>0 DEF StateTypes, CoreTypes
    <3>3. CASE st' = [st EXCEPT !.onFinished = @ + 1]
      BY <3>3, <1>0 DEF StateTypes, CoreTypes, Fields
    <3> QED
      BY <3>1, <3>2, <3>3
  <2>7. CoreTypes'
    BY <1>3, <1>0, <2>2, <2>4, <2>6, TypesStep DEF EndCallback, history, Ticked
  <2> QED
    BY <2>1, <2>2, <2>4, <2>5, <2>7, PlainStep DEF Busy, LoopTops, Loops
<1> QED
  BY <1>2, <1>3

\* The last steps before 'finish': they look whether the stream still needs it.
LEMMA FinishActions ==
  ASSUME SinkInv, FinishMaybeCheck \/ FinishNT \/ OnFinish \/ OnFinishTick PROVE SinkInv'
<1>0. CoreTypes /\ FramesOK
  BY DEF SinkInv
<1>1. 0 \in Int /\ 1 \in Int /\ <<>> \in Seq(Kinds \cup {"end"}) /\ TRUE \in BOOLEAN
          /\ FALSE \in BOOLEAN
  OBVIOUS
<1>2. /\ {"finish", "onFinishTick", "callFinishedCallbacks", "finishNT"} \subseteq Functions
      /\ "finishNT" \in PlainNames /\ "onFinishError" \in PlainNames
      /\ "errorOrDestroy" \in PlainNames
  BY DEF Functions, PlainNames
<1>3. /\ F("finish") \in Frames /\ F("finish").f = "finish"
      /\ F("onFinishTick") \in Frames /\ F("onFinishTick").f = "onFinishTick"
      /\ Fe("callFinishedCallbacks", TRUE) \in Frames
      /\ Fe("callFinishedCallbacks", TRUE).f = "callFinishedCallbacks"
      /\ F("onFinishError") \in PlainFrames /\ F("finishNT") \in PlainFrames
      /\ Fn("errorOrDestroy", 0) \in PlainFrames
  BY <1>1, <1>2, FrameTypes, FrameParts, PlainCalls
<1>4. ASSUME NEW fs \in Seq(Frames), NEW f, Top(f), f \notin Busy, Call(fs), Kept, Ticked,
          StateTypes',
             UNCHANGED <<given, sunk, buffer>>,
             \A i \in 1 .. Len(fs) : \/ fs[i] \in PlainFrames
                                     \/ fs[i].f \in {"finish", "onFinishTick"} /\ Drained
                                     \/ fs[i].f = "callFinishedCallbacks" /\ i = 1
      PROVE  SinkInv'
  <2>1. Shifted(fs) /\ OnTop = f
    BY <1>4, Called
  <2>2. CoreTypes'
    BY <1>0, <1>4, <2>1, TypesStep DEF Ticked
  <2>3. Drained => Drained'
    BY <1>4, CalmFrames DEF Kept
  <2>4. \A i \in 1 .. Len(fs) :

           /\ fs[i].f \notin {"_write", "onwrite", "clearBuffer"} \cup Loops \cup Errors
               \cup Constructing
           /\ fs[i].f = "callFinishedCallbacks" => i = 1
           /\ fs[i].f \in Bottoms => i = Len(fs) /\ Len(stack) <= 1
           /\ FrameOK(fs[i])'
    <3> TAKE i \in 1 .. Len(fs)
    <3>1. CASE fs[i] \in PlainFrames
      BY <3>1, FreeFrame DEF PlainFrames, Special, Careful, AtOnce
    <3>2. CASE fs[i].f \in {"finish", "onFinishTick"} /\ Drained
      BY <3>2, <2>3 DEF Loops, Errors, Constructing, Bottoms, FrameOK
    <3>3. CASE fs[i].f = "callFinishedCallbacks" /\ i = 1
      BY <3>3, FreeFrame DEF Loops, Careful, Errors, Constructing, Bottoms
    <3> QED
      BY <1>4, <3>1, <3>2, <3>3
  <2> QED
    BY <1>4, <2>1, <2>2, <2>4, QuietStep
<1>5. {"finishMaybeCheck", "finishNT", "onFinish", "onFinishTick"} \cap Busy = {}
  BY DEF Busy, LoopTops, Loops
<1>6. CASE FinishMaybeCheck
  <2>1. Top("finishMaybeCheck") /\ UNCHANGED <<given, sunk, buffer>>
    BY <1>6 DEF FinishMaybeCheck, history
  <2>2. Kept
    BY <1>6, <1>0 DEF FinishMaybeCheck, history, Kept, Calm, CoreTypes, Fields, FramesOK
  <2>3. StateTypes'
    BY <1>6, <1>0 DEF FinishMaybeCheck, StateTypes, CoreTypes, Fields
  <2>4. Ticked
    <3>1. ticks' = ticks \/ Tick(F("finishNT"))
      BY <1>6 DEF FinishMaybeCheck
    <3> QED
      BY <1>0, <1>3, <3>1, TickNone, TickPlain
  <2>5. Call(<<>>) \/ (Call(<<F("finish")>>) /\ Drained)
    BY <1>6, NeedFinishDrained DEF FinishMaybeCheck
  <2>6. PICK fs \in Seq(Frames) : /\ Call(fs)
                                  /\ Len(fs) = 0 \/ (Len(fs) = 1 /\ fs[1].f = "finish" /\ Drained)
    BY <2>5, <1>3, Calls
  <2>7. \A i \in 1 .. Len(fs) : fs[i].f \in {"finish", "onFinishTick"} /\ Drained
    BY <2>6
  <2> QED
    BY <1>4, <1>5, <2>1, <2>2, <2>3, <2>4, <2>6, <2>7
<1>7. CASE FinishNT
  <2>1. Top("finishNT") /\ UNCHANGED <<given, sunk, buffer>>
    BY <1>7 DEF FinishNT, history
  <2>2. Kept
    BY <1>7, <1>0 DEF FinishNT, history, Kept, Calm, CoreTypes, Fields, FramesOK
  <2>3. StateTypes'
    BY <1>7, <1>0 DEF FinishNT, StateTypes, CoreTypes, Fields
  <2>4. Ticked
    BY <1>0, <1>7, TickNone DEF FinishNT
  <2>5. Call(<<>>) \/ (Call(<<F("finish")>>) /\ Drained)
    BY <1>7, NeedFinishDrained DEF FinishNT
  <2>6. PICK fs \in Seq(Frames) : /\ Call(fs)
                                  /\ Len(fs) = 0 \/ (Len(fs) = 1 /\ fs[1].f = "finish" /\ Drained)
    BY <2>5, <1>3, Calls
  <2>7. \A i \in 1 .. Len(fs) : fs[i].f \in {"finish", "onFinishTick"} /\ Drained
    BY <2>6
  <2> QED
    BY <1>4, <1>5, <2>1, <2>2, <2>3, <2>4, <2>6, <2>7
<1>8. CASE OnFinishTick
  <2>1. Top("onFinishTick") /\ UNCHANGED <<given, sunk, buffer>> /\ Call(<<>>)
            /\ Tick(F("finish")) /\ stack # <<>>
    BY <1>8 DEF OnFinishTick, history, Top
  <2>2. Kept
    BY <1>8, <1>0 DEF OnFinishTick, history, Kept, Calm, CoreTypes, Fields, FramesOK
  <2>3. StateTypes'
    BY <1>8, <1>0 DEF OnFinishTick, StateTypes, CoreTypes, Fields
  <2>4. Drained'
    <3>1. Drained
      BY <1>0, <2>1, TopRelies DEF Top, FrameOK
    <3> QED
      BY <3>1, <2>2, CalmFrames DEF Kept
  <2>5. Ticked
    <3>1. PICK fr \in Frames : fr = F("finish") /\ fr.f = "finish"
      BY <1>3
    <3>2. FrameOK(fr)'
      BY <3>1, <2>4 DEF FrameOK
    <3>3. fr.f \notin Direct \cup Constructing
      BY <3>1 DEF Direct, AtOnce, Loops, Constructing
    <3> QED
      BY <1>0, <2>1, <3>1, <3>2, <3>3, TickOne
  <2>6. PICK fs \in Seq(Frames) : Call(fs) /\ Len(fs) = 0
    BY <2>1, Calls
  <2>7. \A i \in 1 .. Len(fs) : fs[i] \in PlainFrames
    BY <2>6
  <2> QED
    BY <1>4, <1>5, <2>1, <2>2, <2>3, <2>5, <2>6, <2>7
<1>9. CASE OnFinish
  <2>1. Top("onFinish") /\ UNCHANGED <<given, sunk, buffer>>
    BY <1>9 DEF OnFinish, Top
  <2>2. Kept
    BY <1>9, <1>0 DEF OnFinish, Kept, Calm, CoreTypes, Fields, FramesOK
  <2>3. StateTypes'
    BY <1>9, <1>0 DEF OnFinish, StateTypes, CoreTypes, Fields
  <2>4. Ticked
    BY <1>0, <1>9, TickNone DEF OnFinish
  <2>5. \/ Call(<<>>) \/ Call(<<Fn("errorOrDestroy", 0)>>)
        \/ Call(<<Fe("callFinishedCallbacks", TRUE), F("onFinishError")>>)
        \/ Call(User("prefinish") \o <<F("onFinishTick")>>) /\ Drained
    <3>1. needFinish([st EXCEPT !.pendingcb = @ - 1]) => needFinish(st)
      BY <1>0 DEF CoreTypes, Fields, needFinish
    <3> QED
      BY <1>9, <3>1, NeedFinishDrained DEF OnFinish
  <2>6. PICK fs \in Seq(Frames) :
          /\ Call(fs)
          /\ \A i \in 1 .. Len(fs) : \/ fs[i] \in PlainFrames
                                     \/ fs[i].f \in {"finish", "onFinishTick"} /\ Drained
                                     \/ fs[i].f = "callFinishedCallbacks" /\ i = 1
    <3>0. PICK u \in Frames, x \in Frames, y \in Frames, z \in Frames, v \in Frames :
            /\ u = F("user") /\ u \in PlainFrames /\ x = Fn("errorOrDestroy", 0)
            /\ x \in PlainFrames
            /\ y = Fe("callFinishedCallbacks", TRUE) /\ y.f = "callFinishedCallbacks"
            /\ z = F("onFinishError") /\ z \in PlainFrames
            /\ v = F("onFinishTick") /\ v.f = "onFinishTick"
      BY <1>3, UserFrames DEF PlainFrames
    <3>1. \/ Call(<<>>) \/ Call(<<x>>) \/ Call(<<y, z>>)
          \/ (Call(<<v>>) \/ Call(<<u, v>>)) /\ Drained
      <4>0. <<>> \o <<v>> = <<v>>
        OBVIOUS
      <4>1. <<u>> \o <<v>> = <<u, v>>
        BY ConcatTwo
      <4>2. User("prefinish") \o <<v>> = <<v>> \/ User("prefinish") \o <<v>> = <<u, v>>
        BY <3>0, <4>0, <4>1, UserFrames
      <4> QED
        BY <2>5, <3>0, <4>2
    <3>2. PICK fs \in Seq(Frames) :
            /\ Call(fs)
            /\ \/ Len(fs) = 0
               \/ Len(fs) = 1 /\ fs[1] = x
               \/ Len(fs) = 2 /\ fs[1] = y /\ fs[2] = z
               \/ Len(fs) = 1 /\ fs[1] = v /\ Drained
               \/ Len(fs) = 2 /\ fs[1] = u /\ fs[2] = v /\ Drained
      BY <3>1, Calls
    <3>3. \A i \in 1 .. Len(fs) :
            \/ fs[i] \in {x, z}
            \/ i = 1 /\ fs[i] = y
            \/ fs[i] \in {u, v} /\ Drained
      BY <3>2
    <3> QED
      BY <3>0, <3>2, <3>3
  <2> QED
    BY <1>4, <1>5, <2>1, <2>2, <2>3, <2>4, <2>6
<1> QED
  BY <1>6, <1>7, <1>8, <1>9

\* The frames of a call of the user, above the frame of the user.
PushedAs(gs, fs) ==
  /\ Shifted(fs) /\ Len(fs) = Len(gs) + 1
  /\ \A i \in 1 .. Len(gs) : fs[i] = gs[i]
  /\ fs[Len(gs) + 1] \in PlainFrames
\* What is on the stack after the user called a method.
LEMMA PushedList ==
  ASSUME SinkInv, InUser, NEW gs \in Seq(Frames), Push(gs)
  PROVE  /\ \E fs \in Seq(Frames) : PushedAs(gs, fs)
         /\ OnTop \in {"none", "user"}
<1>1. CoreTypes
  BY DEF SinkInv
<1>2. PICK u \in PlainFrames : u.f = "user" /\ Shifted(gs \o <<u>>)
  BY <1>1, Pushed
<1>3. OnTop \in {"none", "user"}
  BY <1>1, Pushed
<1>4. <<u>> \in Seq(Frames) /\ Len(<<u>>) = 1 /\ <<u>>[1] = u
  BY DEF PlainFrames
<1> DEFINE g == gs \o <<u>>
<1>5. g \in Seq(Frames) /\ Len(g) = Len(gs) + 1
  BY <1>4
<1>6. \A i \in 1 .. Len(gs) : g[i] = gs[i]
  BY <1>4, Above
<1>7. g[Len(gs) + 1] = u
  BY <1>4, <1>5
<1>8. Shifted(g)
  BY <1>2
<1> HIDE DEF g
<1>9. PushedAs(gs, g)
  BY <1>5, <1>6, <1>7, <1>8 DEF PushedAs
<1> QED
  BY <1>3, <1>5, <1>9

\* A call of the user that leaves the chunks where they are.
LEMMA UserStep ==
  ASSUME SinkInv, InUser, NEW gs \in Seq(Frames), Push(gs), Calm, StateTypes', Ticked,
         st'.writing = st.writing, st'.expectWriteCb = st.expectWriteCb,
         st'.bufferProcessing = st.bufferProcessing, st'.finished = st.finished,
         st'.onFinished = st.onFinished, io' = io,
         \A i \in 1 .. Len(gs) :
           \/ gs[i] \in PlainFrames
           \/ i = 1 /\ gs[i].f = "clearBuffer" /\ ~st'.writing /\ st'.failed = <<>>,
         st'.corked = st.corked \/ st'.corked > 0 \/ st'.writing
           \/ (Len(gs) > 0 /\ gs[1].f = "clearBuffer")
  PROVE  SinkInv'
<1>1. CoreTypes /\ FramesOK /\ TopOK /\ LoopsOK /\ ErrorsOK /\ Waiting
  BY DEF SinkInv
<1>3. OnTop \in {"none", "user"}
  BY PushedList
<1>4. PICK fs \in Seq(Frames) : PushedAs(gs, fs)
  BY PushedList
<1>5. /\ Shifted(fs) /\ Len(fs) = Len(gs) + 1
      /\ \A i \in 1 .. Len(gs) : fs[i] = gs[i]
      /\ fs[Len(gs) + 1] \in PlainFrames
  BY <1>4 DEF PushedAs
<1>6. Shifted(fs) /\ Len(gs) \in Nat
  BY <1>5
<1>7. \A i \in 1 .. Len(fs) : \/ fs[i] \in PlainFrames
                              \/ i = 1 /\ fs[i].f = "clearBuffer" /\ ~st'.writing
                                  /\ st'.failed = <<>>
  <2> TAKE i \in 1 .. Len(fs)
  <2>1. CASE i <= Len(gs)
    BY <1>5, <2>1
  <2>2. CASE i = Len(gs) + 1
    BY <1>5, <2>2
  <2> QED
    BY <1>5, <1>6, <2>1, <2>2
<1>8. CoreTypes'
  BY <1>1, <1>6, TypesStep DEF Calm, Ticked
<1>9. \A i \in 1 .. Len(fs) : /\ fs[i].f \notin Bottoms \cup Loops \cup Errors
                                  \cup Constructing \cup {"_write", "onwrite"}
                              /\ fs[i].f \in AtOnce => i = 1
                              /\ FrameOK(fs[i])'
  <2> TAKE i \in 1 .. Len(fs)
  <2>1. CASE fs[i] \in PlainFrames
    BY <2>1, FreeFrame DEF PlainFrames, Special, Careful, AtOnce
  <2>2. CASE i = 1 /\ fs[i].f = "clearBuffer"
    BY <2>2, FreeFrame DEF Loops, Careful, Errors, Constructing, Bottoms
  <2> QED
    BY <1>7, <2>1, <2>2
<1>10. Len(fs) > 0 /\ (fs[1].f = "clearBuffer" => ~st'.writing /\ st'.failed = <<>>)
  <2>1. Len(fs) > 0 /\ 1 \in 1 .. Len(fs)
    BY <1>5, <1>6
  <2>2. CASE fs[1] \in PlainFrames
    BY <2>1, <2>2 DEF PlainFrames, Special, AtOnce
  <2> QED
    BY <1>7, <2>1, <2>2
<1>11. BufferOrdered' /\ AllThere' /\ FramesOK' /\ ConstructOnce' /\ TopOK' /\ PlacesOK'
  <2>1. st'.expectWriteCb => st'.writing
    BY <1>1 DEF TopOK
  <2>2. st'.onFinished # 0 => st'.ending
    BY <1>1 DEF FramesOK, Calm
  <2>3. /\ \A i \in 1 .. Len(fs) : fs[i].f \notin Constructing /\ FrameOK(fs[i])'
        /\ \A i \in 2 .. Len(fs) : fs[i].f \notin AtOnce
        /\ \A i \in 1 .. Len(fs) : fs[i].f \in Bottoms => i = Len(fs) /\ Len(stack) <= 1
    BY <1>9
  <2>4. fs[1].f # "_write" /\ fs[1].f # "onwrite"
    BY <1>9, <1>10
  <2> QED
    BY <1>6, <1>10, <2>1, <2>2, <2>3, <2>4, CalmStep
<1>12. LoopsOK'
  BY <1>1, <1>3, <1>6, <1>9, LoopsStep DEF LoopTops, Loops
<1>13. ErrorsOK'
  BY <1>1, <1>3, <1>6, <1>9, ErrorsStep DEF Calm
<1>14. Waiting'
  <2>1. CASE st'.corked = st.corked
    BY <1>1, <1>3, <2>1, WaitingStep DEF Calm
  <2>2. CASE st'.corked > 0 \/ st'.writing
    BY <2>2 DEF Waiting
  <2>3. CASE Len(gs) > 0 /\ gs[1].f = "clearBuffer"
    <3>1. fs[1].f = "clearBuffer"
      BY <2>3, <1>5, <1>6
    <3>2. stack' # <<>> /\ Head(stack') = fs[1]
      BY <1>1, <1>6, <1>10, Shift
    <3> QED
      BY <3>1, <3>2 DEF Waiting
  <2> QED
    BY <2>1, <2>2, <2>3
<1> QED
  BY <1>8, <1>11, <1>12, <1>13, <1>14 DEF SinkInv

\* cork(), uncork(), end() and destroy(), when the user does not uncork in the
\* middle of errorBuffer().
LEMMA UserActions ==
  ASSUME SinkInv, ~LateUncork, NEW n \in 0 .. 1, NEW er \in BOOLEAN,
         Cork \/ Uncork \/ End(n) \/ UserDestroy(er)
  PROVE  SinkInv'
<1>0. CoreTypes /\ st.corked \in Nat
  BY DEF SinkInv, CoreTypes
<1>1. PICK x \in Frames, y \in Frames, z \in Frames :
        /\ x = Fe("destroy", er) /\ x \in PlainFrames /\ y = Fn("end", n) /\ y \in PlainFrames
        /\ z = F("clearBuffer") /\ z.f = "clearBuffer"
  <2>1. 0 \in Int /\ n \in Int /\ <<>> \in Seq(Kinds \cup {"end"})
    OBVIOUS
  <2>2. Fe("destroy", er) \in PlainFrames /\ Fn("end", n) \in PlainFrames
    BY <2>1, PlainCalls DEF PlainNames
  <2>3. F("clearBuffer") \in Frames
    BY <2>1, FrameTypes DEF Functions
  <2> QED
    BY <2>2, <2>3, FrameParts DEF PlainFrames
<1>2. CASE Cork
  <2>1. Push(<<>>) /\ InUser /\ ticks' = ticks /\ io' = io
    BY <1>2 DEF Cork, UserCalls
  <2>2. Calm
    BY <1>2, <1>0 DEF Cork, Calm, CoreTypes, Fields
  <2>3. StateTypes'
    BY <1>2, <1>0 DEF Cork, StateTypes, CoreTypes, Fields
  <2>4. /\ st'.writing = st.writing /\ st'.expectWriteCb = st.expectWriteCb
        /\ st'.bufferProcessing = st.bufferProcessing /\ st'.finished = st.finished
        /\ st'.onFinished = st.onFinished /\ st'.corked > 0
    BY <1>2, <1>0 DEF Cork, CoreTypes, Fields
  <2>5. PICK gs \in Seq(Frames) : gs = <<>> /\ Len(gs) = 0
    BY Lists
  <2>6. Push(gs) /\ Ticked
    BY <1>0, <2>1, <2>5, TickNone
  <2>7. \A i \in 1 .. Len(gs) : gs[i] \in PlainFrames
    BY <2>5
  <2> QED
    BY <2>1, <2>2, <2>3, <2>4, <2>6, <2>7, UserStep
<1>3. CASE Uncork
  <2>1. Push(IF st.writing THEN <<>> ELSE <<z>>) /\ InUser /\ ticks' = ticks /\ io' = io
    BY <1>1, <1>3 DEF Uncork
  <2>2. Calm
    BY <1>3, <1>0 DEF Uncork, history, Calm, CoreTypes, Fields
  <2>3. StateTypes'
    BY <1>3, <1>0 DEF Uncork, StateTypes, CoreTypes, Fields
  <2>4. /\ st'.writing = st.writing /\ st'.expectWriteCb = st.expectWriteCb
        /\ st'.bufferProcessing = st.bufferProcessing /\ st'.finished = st.finished
        /\ st'.onFinished = st.onFinished /\ st'.failed = <<>>
    BY <1>3, <1>0 DEF Uncork, MayUncork, CoreTypes, Fields
  <2>5. PICK gs \in Seq(Frames) : /\ Push(gs)
                                  /\ IF st.writing THEN Len(gs) = 0 ELSE Len(gs) = 1 /\ gs[1] = z
    <3>1. PICK g0 \in Seq(Frames) : g0 = <<>> /\ Len(g0) = 0
      BY Lists
    <3>2. PICK g1 \in Seq(Frames) : g1 = <<z>> /\ Len(g1) = 1 /\ g1[1] = z
      BY Lists
    <3>3. CASE st.writing
      BY <2>1, <3>1, <3>3
    <3>4. CASE ~st.writing
      BY <2>1, <3>2, <3>4
    <3> QED
      BY <3>3, <3>4
  <2>6. Ticked
    BY <1>0, <2>1, TickNone
  <2>7. \A i \in 1 .. Len(gs) : i = 1 /\ gs[i].f = "clearBuffer" /\ ~st'.writing
            /\ st'.failed = <<>>
    <3>1. CASE st.writing
      BY <2>5, <3>1
    <3>2. CASE ~st.writing
      <4>1. ~st'.writing
        BY <2>4, <3>2
      <4>2. Len(gs) = 1 /\ gs[1].f = "clearBuffer"
        BY <1>1, <2>5, <3>2
      <4> QED
        BY <2>4, <4>1, <4>2
    <3> QED
      BY <3>1, <3>2
  <2>8. st'.writing \/ (Len(gs) > 0 /\ gs[1].f = "clearBuffer")
    BY <1>1, <2>4, <2>5
  <2> QED
    BY <2>1, <2>2, <2>3, <2>4, <2>5, <2>6, <2>7, <2>8, UserStep
<1>4. CASE End(n)
  <2> DEFINE clear == st.corked > 0 /\ ~st.writing
  <2>1. /\ Push((IF clear THEN <<z>> ELSE <<>>) \o <<y>>)
        /\ InUser /\ ticks' = ticks /\ io' = io
    BY <1>1, <1>4 DEF End, UserCalls
  <2>2. Calm
    BY <1>4, <1>0 DEF End, Calm, CoreTypes, Fields
  <2>3. StateTypes'
    BY <1>4, <1>0 DEF End, StateTypes, CoreTypes, Fields
  <2>4. /\ st'.writing = st.writing /\ st'.expectWriteCb = st.expectWriteCb
        /\ st'.bufferProcessing = st.bufferProcessing /\ st'.finished = st.finished
        /\ st'.onFinished = st.onFinished /\ st'.failed = st.failed /\ st'.corked = 0
        /\ st.corked = 0 \/ st.failed = <<>>
    BY <1>4, <1>0 DEF End, MayUncork, CoreTypes, Fields
  <2>5. PICK gs \in Seq(Frames) :
          /\ Push(gs)
          /\ IF clear THEN Len(gs) = 2 /\ gs[1] = z /\ gs[2] = y ELSE Len(gs) = 1 /\ gs[1] = y
    <3>1. PICK g1 \in Seq(Frames) : g1 = <<y>> /\ Len(g1) = 1 /\ g1[1] = y
      BY ListOfOne
    <3>2. PICK g2 \in Seq(Frames) : g2 = <<z, y>> /\ Len(g2) = 2 /\ g2[1] = z /\ g2[2] = y
      BY ListOfTwo
    <3>3. <<z>> \o <<y>> = g2
      BY <3>2, ConcatTwo
    <3>4. <<>> \o <<y>> = g1
      BY <3>1
    <3>5. CASE clear
      BY <2>1, <3>2, <3>3, <3>5
    <3>6. CASE ~clear
      BY <2>1, <3>1, <3>4, <3>6
    <3> QED
      BY <3>5, <3>6
  <2>6. Ticked
    BY <1>0, <2>1, TickNone
  <2>7. \A i \in 1 .. Len(gs) :
           \/ gs[i] \in PlainFrames
           \/ i = 1 /\ gs[i].f = "clearBuffer" /\ ~st'.writing /\ st'.failed = <<>>
    BY <1>0, <1>1, <2>4, <2>5
  <2>8. st'.corked = st.corked \/ st'.writing \/ (Len(gs) > 0 /\ gs[1].f = "clearBuffer")
    BY <1>0, <1>1, <2>4, <2>5
  <2> QED
    BY <2>1, <2>2, <2>3, <2>4, <2>5, <2>6, <2>7, <2>8, UserStep
<1>5. CASE UserDestroy(er)
  <2>1. Push(<<x>>) /\ InUser /\ ticks' = ticks /\ io' = io /\ st' = st
    BY <1>1, <1>5 DEF UserDestroy, UserCalls
  <2>2. Calm /\ StateTypes'
    BY <1>5, <1>0 DEF UserDestroy, Calm, StateTypes, CoreTypes
  <2>3. PICK gs \in Seq(Frames) : gs = <<x>> /\ Len(gs) = 1 /\ gs[1] = x
    BY ListOfOne
  <2>4. Push(gs) /\ Ticked
    BY <1>0, <2>1, <2>3, TickNone
  <2>5. \A i \in 1 .. Len(gs) : gs[i] \in PlainFrames
    BY <1>1, <2>3
  <2>6. /\ st'.writing = st.writing /\ st'.expectWriteCb = st.expectWriteCb
        /\ st'.bufferProcessing = st.bufferProcessing /\ st'.finished = st.finished
        /\ st'.onFinished = st.onFinished /\ st'.corked = st.corked
    BY <2>1
  <2> QED
    BY <2>1, <2>2, <2>4, <2>5, <2>6, UserStep
<1> QED
  BY <1>2, <1>3, <1>4, <1>5

\* The functions a tick and a late callback run.
LEMMA AfterWriteActions ==
  ASSUME SinkInv, AfterWriteTick \/ AfterWrite \/ AfterWriteLoop \/ OnwriteError
  PROVE  SinkInv'
<1>0. CoreTypes /\ FramesOK /\ PlacesOK /\ TopOK /\ LoopsOK /\ ErrorsOK /\ Waiting
  BY DEF SinkInv
<1>1. 0 \in Int /\ 1 \in Int /\ <<>> \in Seq(Kinds \cup {"end"}) /\ TRUE \in BOOLEAN
          /\ FALSE \in BOOLEAN
  OBVIOUS
<1>2. stack # <<>> /\ Head(stack).f \in Bottoms /\ OnTop \in Bottoms
  BY DEF AfterWriteTick, AfterWrite, AfterWriteLoop, OnwriteError, Top, Bottoms, OnTop
<1>3. Len(stack) = 1
  <2>1. 1 \in DOMAIN stack /\ stack[1].f \in Bottoms
    BY <1>0, <1>2 DEF CoreTypes
  <2> QED
    BY <1>0, <2>1 DEF PlacesOK
<1>4. UNCHANGED <<given, sunk, buffer>> /\ Ticked /\ io' = io
  BY <1>0, TickNone DEF AfterWriteTick, AfterWrite, AfterWriteLoop, OnwriteError, history
<1>5. OnTop \notin Busy /\ OnTop \notin LoopTops \cup {"callbacks", "callFinishedCallbacks"}
  BY <1>2 DEF Bottoms, Busy, LoopTops, Loops
<1>6. Kept
  <2>1. CASE AfterWriteTick
    BY <1>0, <1>4, <2>1 DEF AfterWriteTick, Kept, Calm, CoreTypes, Fields, FramesOK
  <2>2. CASE AfterWrite
    BY <1>0, <1>4, <2>2 DEF AfterWrite, Kept, Calm, CoreTypes, Fields, FramesOK
  <2>3. CASE AfterWriteLoop
    BY <1>0, <1>4, <2>3 DEF AfterWriteLoop, Kept, Calm, CoreTypes, Fields, FramesOK
  <2>4. CASE OnwriteError
    BY <1>0, <1>4, <2>4 DEF OnwriteError, Kept, Calm, CoreTypes, Fields, FramesOK
  <2> QED
    BY <2>1, <2>2, <2>3, <2>4
<1>7. StateTypes'
  <2>1.
        /\ \A x \in Fields \ {"afterWriteTickInfo", "afterWritePending", "needDrain",
            "pendingcb"} :
             st'[x] = st[x]
        /\ DOMAIN st' = Fields
    BY <1>0 DEF AfterWriteTick, AfterWrite, AfterWriteLoop, OnwriteError, CoreTypes, Fields
  <2> QED
    BY <1>0, <2>1 DEF StateTypes, CoreTypes, Fields
<1>8. PICK a \in Frames, b \in Frames, c \in Frames, d \in Frames, e \in Frames, g \in Frames,
          u \in Frames :
        /\ a = Fnc("afterWrite", Head(stack).n, Head(stack).cb) /\ a.f = "afterWrite"
        /\ b = Fnc("afterWriteLoop", Head(stack).n, Head(stack).cb) /\ b.f = "afterWriteLoop"
        /\ c = Fc(Head(stack).cb, FALSE) /\ c.f = "callbacks"
        /\ d = [Head(stack) EXCEPT !.n = @ - 1] /\ d.f = Head(stack).f
        /\ e = F("errorBuffer") /\ e.f = "errorBuffer"
        /\ g = Fn("finishMaybe", 1) /\ g.f = "finishMaybe"
        /\ u = F("user") /\ u.f = "user"
  <2>1. {"afterWrite", "afterWriteLoop", "errorBuffer", "finishMaybe", "user"} \subseteq Functions
    BY DEF Functions
  <2>2. /\ Head(stack) \in Frames /\ Head(stack).n \in Int
        /\ Head(stack).cb \in Seq(Kinds \cup {"end"})
    BY <1>0, <1>2, TopFrame
  <2>3. [Head(stack) EXCEPT !.n = @ - 1] \in Frames
            /\ [Head(stack) EXCEPT !.n = @ - 1].f = Head(stack).f
    BY <2>2 DEF Frames
  <2>4. /\ Fnc("afterWrite", Head(stack).n, Head(stack).cb) \in Frames
        /\ Fnc("afterWriteLoop", Head(stack).n, Head(stack).cb) \in Frames
        /\ Fc(Head(stack).cb, FALSE) \in Frames
        /\ F("errorBuffer") \in Frames /\ Fn("finishMaybe", 1) \in Frames /\ F("user") \in Frames
    BY <1>1, <2>1, <2>2, FrameTypes
  <2>5. PICK a \in Frames, b \in Frames, c \in Frames :
          /\ a = Fnc("afterWrite", Head(stack).n, Head(stack).cb)
          /\ b = Fnc("afterWriteLoop", Head(stack).n, Head(stack).cb)
          /\ c = Fc(Head(stack).cb, FALSE)
    BY <2>4
  <2>6. a.f = "afterWrite" /\ b.f = "afterWriteLoop" /\ c.f = "callbacks"
    <3>1. a.f = "afterWrite"
      BY <2>5, FrameNames
    <3>2. b.f = "afterWriteLoop"
      BY <2>5, FrameNames
    <3>3. c.f = "callbacks"
      BY <2>5, FrameNames
    <3> QED
      BY <3>1, <3>2, <3>3
  <2>7. F("errorBuffer").f = "errorBuffer" /\ Fn("finishMaybe", 1).f = "finishMaybe"
            /\ F("user").f = "user"
    BY FrameParts
  <2> QED
    BY <2>3, <2>4, <2>5, <2>6, <2>7
<1>9. PICK h \in Frames, k \in Frames :
        /\ h = Fc(Head(stack).cb, TRUE) /\ h.f = "callbacks"
        /\ k = Fn("errorOrDestroy", 0) /\ k.f = "errorOrDestroy"
  <2>1. "errorOrDestroy" \in Functions /\ Head(stack).cb \in Seq(Kinds \cup {"end"})
    BY <1>0, <1>2, TopFrame DEF Functions
  <2>2. Fc(Head(stack).cb, TRUE) \in Frames /\ Fn("errorOrDestroy", 0) \in Frames
    BY <1>1, <2>1, FrameTypes
  <2>3. Fc(Head(stack).cb, TRUE).f = "callbacks" /\ Fn("errorOrDestroy", 0).f = "errorOrDestroy"
    BY FrameNames
  <2> QED
    BY <2>2, <2>3
<1>10. PICK fs \in Seq(Frames) :
         /\ Call(fs)
         /\ \/ Len(fs) = 1 /\ fs[1] = a
            \/ Len(fs) = 1 /\ fs[1] = b
            \/ Len(fs) = 2 /\ fs[1] = u /\ fs[2] = b
            \/ Len(fs) = 2 /\ fs[1] = c /\ fs[2] = d /\ d.f = "afterWriteLoop"
            \/ Len(fs) = 1 /\ fs[1] = g
            \/ Len(fs) = 2 /\ fs[1] = e /\ fs[2] = g /\ st.destroyed
            \/ Len(fs) = 3 /\ fs[1] = h /\ fs[2] = e /\ fs[3] = k /\ Dead
  <2>1. \/ Call(<<a>>) \/ Call(<<b>>) \/ Call(<<u, b>>) \/ Call(<<g>>)
        \/ Call(<<c, d>>) /\ d.f = "afterWriteLoop"
        \/ Call(<<e, g>>) /\ st.destroyed
        \/ Call(<<h, e, k>>) /\ Dead
    <3>1. CASE AfterWriteTick
      BY <3>1, <1>8 DEF AfterWriteTick
    <3>2. CASE AfterWrite
      <4>0. <<>> \o <<b>> = <<b>>
        OBVIOUS
      <4>1. <<u>> \o <<b>> = <<u, b>>
        BY ConcatTwo
      <4>2. User("drain") \o <<b>> = <<b>> \/ User("drain") \o <<b>> = <<u, b>>
        BY <1>8, <4>0, <4>1, UserFrames
      <4> QED
        BY <3>2, <1>8, <4>0, <4>2 DEF AfterWrite
    <3>3. CASE AfterWriteLoop
      <4>0. <<>> \o <<g>> = <<g>>
        OBVIOUS
      <4>1. <<e>> \o <<g>> = <<e, g>>
        BY ConcatTwo
      <4>2. \/ Call(<<c, d>>) /\ d.f = "afterWriteLoop"
            \/ Call((IF st.destroyed THEN <<e>> ELSE <<>>) \o <<g>>)
        BY <3>3, <1>8 DEF AfterWriteLoop, Top
      <4>3. CASE st.destroyed
        BY <4>1, <4>2, <4>3
      <4>4. CASE ~st.destroyed
        BY <4>0, <4>2, <4>4
      <4> QED
        BY <4>3, <4>4
    <3>4. CASE OnwriteError
      <4>1. Call(<<h, e, k>>)
        BY <3>4, <1>8, <1>9 DEF OnwriteError
      <4>2. Head(stack).f = "onwriteError" /\ FrameOK(Head(stack))
        BY <3>4, <1>0, <1>2, TopRelies DEF OnwriteError, Top
      <4> QED
        BY <4>1, <4>2 DEF FrameOK
    <3> QED
      BY <3>1, <3>2, <3>3, <3>4
  <2>2. CASE Call(<<a>>) \/ Call(<<b>>) \/ Call(<<g>>)
    BY <2>2, Calls
  <2>3. CASE Call(<<u, b>>) \/ (Call(<<c, d>>) /\ d.f = "afterWriteLoop")
    BY <2>3, Calls
  <2>4. CASE Call(<<e, g>>) /\ st.destroyed
    BY <2>4, Calls
  <2>5. CASE Call(<<h, e, k>>) /\ Dead
    BY <2>5, Calls
  <2> QED
    BY <2>1, <2>2, <2>3, <2>4, <2>5
<1>11. Shifted(fs)
  BY <1>2, <1>10, Called DEF Top
<1>12. CoreTypes'
  BY <1>0, <1>4, <1>7, <1>11, TypesStep DEF Ticked
<1>13. \A i \in 1 .. Len(fs) :
         \/ fs[i].f \in {"afterWrite", "afterWriteLoop"} /\ i = Len(fs)
         \/ fs[i].f \in {"user", "callbacks", "finishMaybe", "errorOrDestroy"}
         \/ fs[i].f = "errorBuffer" /\ Dead /\ i = Len(fs) - 1
  <2>1. st.destroyed => Dead
    BY DEF Dead
  <2>2. CASE Len(fs) = 1 /\ fs[1] \in {a, b, g}
    BY <1>8, <2>2
  <2>3. CASE Len(fs) = 2 /\ ((fs[1] = u /\ fs[2] = b) \/ (fs[1] = c /\ fs[2] = d
            /\ d.f = "afterWriteLoop"))
    <3>1. \A i \in 1 .. 2 : i = 1 \/ i = 2
      OBVIOUS
    <3>2. u.f = "user" /\ b.f = "afterWriteLoop" /\ c.f = "callbacks"
      BY <1>8
    <3> QED
      BY <2>3, <3>1, <3>2
  <2>4. CASE Len(fs) = 2 /\ fs[1] = e /\ fs[2] = g /\ st.destroyed
    BY <1>8, <2>1, <2>4
  <2>5. CASE Len(fs) = 3 /\ fs[1] = h /\ fs[2] = e /\ fs[3] = k /\ Dead
    <3>1. \A i \in 1 .. 3 : i = 1 \/ i = 2 \/ i = 3
      OBVIOUS
    <3>2. h.f = "callbacks" /\ e.f = "errorBuffer" /\ k.f = "errorOrDestroy"
      BY <1>8, <1>9
    <3> QED
      BY <2>5, <3>1, <3>2
  <2> QED
    BY <1>10, <2>2, <2>3, <2>4, <2>5
<1>15. Dead'  \/ ~Dead
  BY <1>6, CalmFrames DEF Kept
<1>16. \A i \in 1 .. Len(fs) : /\ fs[i].f \notin AtOnce \cup Loops \cup Constructing
                               /\ fs[i].f \in Bottoms => i = Len(fs) /\ Len(stack) <= 1
                               /\ fs[i].f \in Errors => i = Len(fs) - 1
                               /\ fs[i].f \notin {"errorLoop", "resetBuffer"}
                               /\ FrameOK(fs[i])'
  <2> TAKE i \in 1 .. Len(fs)
  <2>1. CASE fs[i].f = "errorBuffer" /\ Dead /\ i = Len(fs) - 1
    BY <1>15, <2>1 DEF Bottoms, AtOnce, Loops, Constructing, FrameOK
  <2>2. CASE fs[i].f \in {"afterWrite", "afterWriteLoop"} /\ i = Len(fs)
    BY <1>3, <2>2 DEF AtOnce, Loops, Constructing, Errors, FrameOK
  <2>3. CASE fs[i].f \in {"user", "callbacks", "finishMaybe", "errorOrDestroy"}
    BY <2>3 DEF Bottoms, AtOnce, Loops, Constructing, Errors, FrameOK
  <2> QED
    BY <1>13, <2>1, <2>2, <2>3
<1>17. BufferOrdered' /\ AllThere' /\ FramesOK' /\ ConstructOnce' /\ TopOK' /\ PlacesOK'
  <2>1. st'.expectWriteCb => st'.writing
    BY <1>0, <1>6 DEF TopOK, Kept
  <2>2. Len(fs) > 0 => fs[1].f \notin AtOnce
    BY <1>16
  <2>3. /\ \A i \in 1 .. Len(fs) : fs[i].f \notin Constructing /\ FrameOK(fs[i])'
        /\ \A i \in 2 .. Len(fs) : fs[i].f \notin AtOnce
        /\ \A i \in 1 .. Len(fs) : fs[i].f \in Bottoms => i = Len(fs) /\ Len(stack) <= 1
    BY <1>16
  <2>4. /\ Len(fs) > 0 => /\ fs[1].f = "clearBuffer" => ~st'.writing
                              /\ (st'.destroyed \/ st'.failed = <<>>)
                          /\ fs[1].f = "_write" => st'.sync /\ st'.expectWriteCb
                          /\ fs[1].f = "onwrite" => stack = <<>>
                              \/ (st'.sync /\ st'.expectWriteCb)
        /\ Len(fs) <= 1 \/ fs[1].f # "onwrite"
    BY <1>10, <2>2 DEF AtOnce
  <2> QED
    BY <1>4, <1>6, <1>11, <2>1, <2>3, <2>4, CalmStep DEF Kept
<1>18. LoopsOK'
  BY <1>0, <1>5, <1>6, <1>11, <1>16, LoopsStep DEF Kept
<1>19. ErrorsOK'
  <2>1. Len(stack') = Len(fs) /\ \A i \in DOMAIN stack' : i \in 1 .. Len(fs) /\ stack'[i] = fs[i]
    BY <1>0, <1>3, <1>11, Shift
  <2> QED
    BY <1>16, <2>1 DEF ErrorsOK
<1>20. Waiting'
  BY <1>0, <1>5, <1>6, WaitingStep DEF Kept, Calm, Busy, LoopTops
<1> QED
  BY <1>12, <1>17, <1>18, <1>19, <1>20 DEF SinkInv

\* A late callback of the implementation.
LEMMA LaterStep ==
  ASSUME SinkInv, stack = <<>>, NEW x \in Frames, stack' = <<x>>,
      x \in PlainFrames \/ x.f = "onwrite",
         UNCHANGED <<st, buffer, ticks, given, sunk>>, "construct" \in io' <=> "construct" \in io
  PROVE  SinkInv'
<1>0. CoreTypes /\ FramesOK /\ PlacesOK /\ TopOK /\ LoopsOK /\ ErrorsOK /\ Waiting
  BY DEF SinkInv
<1>1. PICK fs \in Seq(Frames) : fs = <<x>> /\ Len(fs) = 1 /\ fs[1] = x
  BY ListOfOne
<1>2. Shifted(fs) /\ OnTop = "none"
  <2>1. fs \o <<>> = fs
    OBVIOUS
  <2> QED
    BY <1>1, <2>1 DEF Shifted, Under, OnTop
<1>3. Calm /\ Ticked /\ StateTypes'
  BY <1>0, TickNone DEF Calm, StateTypes, CoreTypes
<1>4. x.f \notin Loops \cup Errors \cup Constructing \cup Bottoms \cup {"clearBuffer", "_write"}
  BY DEF PlainFrames, Special, Loops, Careful, Errors, Constructing, Bottoms, AtOnce
<1>5. FrameOK(fs[1])'
  <2>1. x.f \notin Careful
    BY DEF PlainFrames, Special, Careful, Errors, Constructing
  <2> QED
    BY <1>1, <2>1, FreeFrame
<1>6. CoreTypes'
  BY <1>0, <1>2, <1>3, TypesStep DEF Ticked
<1>7. BufferOrdered' /\ AllThere' /\ FramesOK' /\ ConstructOnce' /\ TopOK' /\ PlacesOK'
  <2>1. /\ st'.expectWriteCb => st'.writing
        /\ st'.onFinished # 0 => st'.ending
    BY <1>0 DEF TopOK, FramesOK
  <2>2. \A i \in 1 .. Len(fs) : /\ fs[i].f \notin Constructing /\ FrameOK(fs[i])'
                                /\ fs[i].f \in Bottoms => i = Len(fs) /\ Len(stack) <= 1
    <3>1. \A i \in 1 .. Len(fs) : i = 1
      BY <1>1
    <3> QED
      BY <1>1, <1>4, <1>5, <3>1
  <2>3. \A i \in 2 .. Len(fs) : fs[i].f \notin AtOnce
    BY <1>1
  <2>4. /\ fs[1].f # "clearBuffer" /\ fs[1].f # "_write"
        /\ Len(fs) <= 1
    BY <1>1, <1>4
  <2> QED
    BY <1>2, <1>3, <2>1, <2>2, <2>3, <2>4, CalmStep
<1>8. \A i \in 1 .. Len(fs) : fs[i].f \notin Loops \cup Errors
  BY <1>1, <1>4
<1>9. LoopsOK'
  BY <1>0, <1>2, <1>8, LoopsStep DEF LoopTops, Loops
<1>10. ErrorsOK'
  BY <1>0, <1>2, <1>8, ErrorsStep
<1>11. Waiting'
  BY <1>0, <1>2, WaitingStep
<1> QED
  BY <1>6, <1>7, <1>9, <1>10, <1>11 DEF SinkInv

\* _write, _final and _destroy call back later, when the stack is empty.
LEMMA LaterActions ==
  ASSUME SinkInv, NEW er \in BOOLEAN, ImplWriteLater(er) \/ ImplFinalLater(er)
      \/ ImplDestroyLater(er)
  PROVE  SinkInv'
<1>1. 0 \in Int /\ <<>> \in Seq(Kinds \cup {"end"})
  OBVIOUS
<1>2. PICK x \in Frames, y \in Frames, z \in Frames :
        /\ x = Fe("onwrite", er) /\ x.f = "onwrite"
        /\ y = Fe("onFinish", er) /\ y \in PlainFrames /\ z = Fe("onDestroy", er)
        /\ z \in PlainFrames
  <2>1. Fe("onwrite", er) \in Frames
    BY <1>1, FrameTypes DEF Functions
  <2>2. Fe("onFinish", er) \in PlainFrames /\ Fe("onDestroy", er) \in PlainFrames
    BY <1>1, PlainCalls DEF PlainNames
  <2> QED
    BY <2>1, <2>2, FrameNames DEF PlainFrames
<1>3. stack = <<>> /\ UNCHANGED <<st, buffer, ticks, given, sunk>>
          /\ ("construct" \in io' <=> "construct" \in io)
  BY DEF ImplWriteLater, ImplFinalLater, ImplDestroyLater, history
<1>4. stack' = <<x>> \/ stack' = <<y>> \/ stack' = <<z>>
  BY <1>2 DEF ImplWriteLater, ImplFinalLater, ImplDestroyLater
<1> QED
  BY <1>2, <1>3, <1>4, LaterStep

\* The oldest tick starts.
LEMMA TickStarts ==
  ASSUME SinkInv, RunTick PROVE SinkInv'
<1>0. /\ CoreTypes /\ FramesOK /\ PlacesOK /\ TopOK /\ LoopsOK /\ ErrorsOK /\ Waiting
      /\ BufferOrdered /\ AllThere /\ ConstructOnce
  BY DEF SinkInv
<1>1. stack = <<>> /\ stack' = <<Head(ticks)>> /\ ticks' = Tail(ticks) /\ ticks # <<>>
  BY DEF RunTick
<1>2. UNCHANGED <<st, buffer, io, given, sunk>>
  BY DEF RunTick, history
<1>3. /\ ticks \in Seq(Frames) /\ Head(ticks) = ticks[1] /\ 1 \in DOMAIN ticks
      /\ DOMAIN ticks = 1 .. Len(ticks) /\ Len(ticks) \in Nat
      /\ ticks' \in Seq(Frames) /\ DOMAIN ticks' = 1 .. Len(ticks) - 1
      /\ \A i \in DOMAIN ticks' : i + 1 \in DOMAIN ticks /\ ticks'[i] = ticks[i + 1]
  BY <1>0, <1>1 DEF CoreTypes
<1>4. PICK x \in Frames : x = ticks[1] /\ x = Head(ticks)
  BY <1>3
<1>5. PICK fs \in Seq(Frames) : fs = <<x>> /\ Len(fs) = 1 /\ fs[1] = x
  BY ListOfOne
<1>6. Shifted(fs) /\ OnTop = "none"
  <2>1. fs \o <<>> = fs
    OBVIOUS
  <2> QED
    BY <1>1, <1>4, <1>5, <2>1 DEF Shifted, Under, OnTop
<1>7. Len(stack') = 1 /\ DOMAIN stack' = {1} /\ stack'[1] = x /\ stack' # <<>> /\ Head(stack') = x
  BY <1>0, <1>1, <1>5, <1>6, Shift
<1>8. Calm /\ StateTypes'
  BY <1>0, <1>2 DEF Calm, StateTypes, CoreTypes
<1>9. CoreTypes'
  BY <1>0, <1>2, <1>3, <1>6, <1>8, TypesStep
<1>10. BufferOrdered' /\ AllThere'
  BY <1>0, <1>8, CalmOrder
<1>11. x.f \notin Direct
  BY <1>0, <1>3, <1>4 DEF PlacesOK
<1>12. FramesOK'
  <2>1. \A i \in DOMAIN ticks' : \E fr : fr = ticks'[i] /\ FrameOK(fr)'
    <3> TAKE i \in DOMAIN ticks'
    <3>1. FrameOK(ticks[i + 1])
      BY <1>0, <1>3 DEF FramesOK
    <3>2. PICK fr : fr = ticks[i + 1]
      OBVIOUS
    <3> QED
      BY <1>3, <1>8, <3>1, <3>2, CalmFrames
  <2>2. FrameOK(fs[1])'
    <3>1. FrameOK(x)
      BY <1>0, <1>3, <1>4 DEF FramesOK
    <3> QED
      BY <1>5, <1>8, <3>1, CalmFrames
  <2>3. \A i \in 1 .. Len(fs) : FrameOK(fs[i])'
    <3>1. \A i \in 1 .. Len(fs) : i = 1
      BY <1>5
    <3> QED
      BY <2>2, <3>1
  <2>4. \A i \in 2 .. Len(stack) : \A fr : fr = stack[i] /\ FrameOK(fr) => FrameOK(fr)'
    BY <1>8, CalmFrames
  <2>5. /\ "construct" \in io' => ~st'.constructed
        /\ st'.finished => Drained'
        /\ st'.onFinished # 0 => st'.ending
    BY <1>0, <1>2, <1>8, CalmFrames DEF FramesOK
  <2> QED
    BY <1>0, <1>6, <2>1, <2>3, <2>4, <2>5, FramesStep
<1>13. ConstructOnce'
  <2>1. \A i, j \in DOMAIN ticks' : ticks'[i].f \in Constructing
            /\ ticks'[j].f \in Constructing => i = j
    <3> SUFFICES ASSUME NEW i \in DOMAIN ticks', NEW j \in DOMAIN ticks',
                        ticks'[i].f \in Constructing, ticks'[j].f \in Constructing
                 PROVE  i = j
      OBVIOUS
    <3>1. i + 1 = j + 1
      BY <1>0, <1>3 DEF ConstructOnce
    <3> QED
      BY <1>3, <3>1
  <2>2. "construct" \in io' => \A j \in DOMAIN ticks' : ticks'[j].f \notin Constructing
    BY <1>0, <1>2, <1>3 DEF ConstructOnce
  <2>3. x.f \in Constructing => /\ "construct" \notin io'
                                /\ \A j \in DOMAIN ticks' : ticks'[j].f \notin Constructing
    <3> SUFFICES ASSUME x.f \in Constructing
                 PROVE  "construct" \notin io'
                     /\ \A j \in DOMAIN ticks' : ticks'[j].f \notin Constructing
      OBVIOUS
    <3>1. \A j \in DOMAIN ticks' : j + 1 # 1
      BY <1>3
    <3> QED
      BY <1>0, <1>2, <1>3, <1>4, <3>1 DEF ConstructOnce
  <2> QED
    BY <1>7, <2>1, <2>2, <2>3 DEF ConstructOnce
<1>14. TopOK'
  BY <1>0, <1>2, <1>7, <1>8, <1>11, CalmFrames DEF TopOK, Top, Direct, AtOnce
<1>15. LoopsOK'
  <2>1. \A i \in 1 .. Len(fs) : fs[i].f \notin Loops
    BY <1>5, <1>11 DEF Direct
  <2> QED
    BY <1>0, <1>2, <1>6, <2>1, LoopsStep DEF LoopTops, Loops
<1>16. ErrorsOK'
  BY <1>7 DEF ErrorsOK
<1>17. PlacesOK'
  BY <1>0, <1>3, <1>7 DEF PlacesOK
<1>18. Waiting'
  BY <1>0, <1>2, <1>6, WaitingStep
<1> QED
  BY <1>9, <1>10, <1>12, <1>13, <1>14, <1>15, <1>16, <1>17, <1>18 DEF SinkInv

\* _construct is called in a tick, and its callback queues one.
LEMMA ConstructActions ==
  ASSUME SinkInv, NEW er \in BOOLEAN, ConstructNT \/ ImplConstruct(er) PROVE SinkInv'
<1>0. /\ CoreTypes /\ FramesOK /\ PlacesOK /\ TopOK /\ LoopsOK /\ ErrorsOK /\ Waiting
      /\ BufferOrdered /\ AllThere /\ ConstructOnce
  BY DEF SinkInv
<1>1. /\ UNCHANGED <<st, buffer, given, sunk>> /\ Calm /\ StateTypes' /\ ~st.constructed
      /\ stack' = <<>>
      /\ OnTop \notin {"_write", "clearBuffer", "onwrite", "errorOrDestroy", "destroy"}
  <2>1. CASE ConstructNT
    <3>1. Head(stack).f = "constructNT" /\ stack # <<>>
      BY <2>1 DEF ConstructNT, Top
    <3>2. 1 \in DOMAIN stack /\ Head(stack) = stack[1] /\ Len(stack) = 1
      BY <1>0, <3>1 DEF CoreTypes, ConstructOnce, Constructing
    <3>3. FrameOK(stack[1])
      BY <1>0, <3>2 DEF FramesOK
    <3>4. stack' = <<>>
      <4>1. stack \in Seq(Frames) /\ Tail(stack) \in Seq(Frames) /\ Len(Tail(stack)) = 0
        BY <1>0, <3>1, <3>2 DEF CoreTypes
      <4>2. \A s \in Seq(Frames) : Len(s) = 0 => <<>> \o s = <<>>
        OBVIOUS
      <4>3. <<>> \o Tail(stack) = <<>>
        BY <4>1, <4>2
      <4> QED
        BY <2>1, <4>3 DEF ConstructNT, Call
    <3> QED
      BY <1>0, <2>1, <3>1, <3>2, <3>3, <3>4
         DEF ConstructNT, history, Calm, StateTypes, CoreTypes, FrameOK, OnTop
  <2>2. CASE ImplConstruct(er)
    BY <1>0, <2>2 DEF ImplConstruct, history, Calm, StateTypes, CoreTypes, FramesOK, OnTop
  <2> QED
    BY <2>1, <2>2
<1>2. /\ ticks' \in Seq(Frames) /\ DOMAIN ticks \subseteq DOMAIN ticks'
      /\ \A i \in DOMAIN ticks : ticks'[i] = ticks[i]
      /\ \A i \in DOMAIN ticks' \ DOMAIN ticks : ticks'[i].f = "onConstruct" /\ i = Len(ticks) + 1
  <2>1. CASE ConstructNT
    BY <1>0, <2>1 DEF ConstructNT, CoreTypes
  <2>2. CASE ImplConstruct(er)
    <3>1. 0 \in Int /\ <<>> \in Seq(Kinds \cup {"end"})
      OBVIOUS
    <3>2. PICK x \in Frames : x = Fe("onConstruct", er) /\ x.f = "onConstruct"
      BY <3>1, FrameTypes, FrameNames DEF Functions
    <3>3. ticks' = Append(ticks, x) /\ ticks \in Seq(Frames)
      BY <1>0, <2>2, <3>2 DEF ImplConstruct, Tick, CoreTypes
    <3> QED
      BY <3>2, <3>3
  <2> QED
    BY <2>1, <2>2
<1>3. Len(stack') = 0 /\ DOMAIN stack' = {} /\ stack' \in Seq(Frames)
  BY <1>1
<1>4. CoreTypes'
  BY <1>0, <1>1, <1>2, <1>3 DEF CoreTypes
<1>5. BufferOrdered' /\ AllThere'
  BY <1>0, <1>1, CalmOrder
<1>6. FramesOK'
  <2>1. \A i \in DOMAIN ticks' : \E fr : fr = ticks'[i] /\ FrameOK(fr)'
    <3> TAKE i \in DOMAIN ticks'
    <3>1. PICK fr : fr = ticks'[i]
      OBVIOUS
    <3>2. CASE i \in DOMAIN ticks
      <4>1. FrameOK(fr)
        BY <1>0, <1>2, <3>1, <3>2 DEF FramesOK
      <4> QED
        BY <1>1, <3>1, <4>1, CalmFrames
    <3>3. CASE i \notin DOMAIN ticks
      BY <1>1, <1>2, <3>1, <3>3 DEF FrameOK, Calm
    <3> QED
      BY <3>2, <3>3
  <2>2. (\A i \in DOMAIN ticks : FrameOK(ticks[i]))'
            /\ (\A i \in DOMAIN stack : FrameOK(stack[i]))'
    BY <1>3, <2>1
  <2>3. /\ "construct" \in io' => ~st'.constructed
        /\ st'.finished => Drained'
        /\ st'.onFinished # 0 => st'.ending
    BY <1>0, <1>1, CalmFrames DEF FramesOK
  <2> QED
    BY <2>2, <2>3 DEF FramesOK
<1>7. ConstructOnce'
  <2>1. CASE ConstructNT
    <3>1. Head(stack).f = "constructNT" /\ stack # <<>> /\ ticks' = ticks
      BY <2>1 DEF ConstructNT, Top
    <3>2. 1 \in DOMAIN stack /\ Head(stack) = stack[1]
      BY <1>0, <3>1 DEF CoreTypes
    <3> QED
      BY <1>0, <1>3, <3>1, <3>2 DEF ConstructOnce, Constructing
  <2>2. CASE ImplConstruct(er)
    <3>1. "construct" \in io /\ "construct" \notin io'
      BY <2>2 DEF ImplConstruct
    <3>2. \A i \in DOMAIN ticks : ticks[i].f \notin Constructing
      BY <1>0, <3>1 DEF ConstructOnce
    <3>3. \A i \in DOMAIN ticks' : ticks'[i].f \in Constructing => i = Len(ticks) + 1
      BY <1>2, <3>2
    <3> QED
      BY <1>3, <3>1, <3>3 DEF ConstructOnce
  <2> QED
    BY <2>1, <2>2
<1>8. TopOK'
  BY <1>0, <1>1, <1>3, CalmFrames DEF TopOK, Top
<1>9. LoopsOK'
  <2>1. OnTop \notin LoopTops
    <3>1. CASE ConstructNT
      BY <3>1 DEF ConstructNT, Top, OnTop, LoopTops, Loops
    <3>2. CASE ImplConstruct(er)
      BY <3>2 DEF ImplConstruct, OnTop, LoopTops, Loops
    <3> QED
      BY <3>1, <3>2
  <2>2. ~st.bufferProcessing
    BY <1>0, <2>1, NoLoops
  <2> QED
    BY <1>1, <1>3, <2>2 DEF LoopsOK
<1>10. ErrorsOK'
  BY <1>3 DEF ErrorsOK
<1>11. PlacesOK'
  <2>1. "onConstruct" \notin Direct
    BY DEF Direct, AtOnce, Loops
  <2>2. \A i \in DOMAIN ticks' : ticks'[i].f \notin Direct
    BY <1>0, <1>2, <2>1 DEF PlacesOK
  <2> QED
    BY <1>3, <2>2 DEF PlacesOK
<1>12. Waiting'
  BY <1>1 DEF Waiting
<1> QED
  BY <1>4, <1>5, <1>6, <1>7, <1>8, <1>9, <1>10, <1>11, <1>12 DEF SinkInv

\* The stream is constructed: what waited for it goes on.
LEMMA Constructed ==
  ASSUME SinkInv, OnConstruct PROVE SinkInv'
<1>0. /\ CoreTypes /\ FramesOK /\ PlacesOK /\ TopOK /\ LoopsOK /\ ErrorsOK /\ Waiting
      /\ BufferOrdered /\ AllThere /\ ConstructOnce
  BY DEF SinkInv
<1>1. Top("onConstruct") /\ stack # <<>> /\ Head(stack).f = "onConstruct"
  BY DEF OnConstruct, Top
<1>2. /\ 1 \in DOMAIN stack /\ Head(stack) = stack[1] /\ Len(stack) = 1 /\ "construct" \notin io
      /\ \A j \in DOMAIN ticks : ticks[j].f \notin Constructing
  BY <1>0, <1>1 DEF CoreTypes, ConstructOnce, Constructing
<1>3. ~st.constructed /\ ~st.writing /\ ~st.expectWriteCb
  <2>1. FrameOK(stack[1])
    BY <1>0, <1>2 DEF FramesOK
  <2> QED
    BY <1>0, <1>1, <1>2, <2>1 DEF FrameOK, TopOK
<1>4. /\ DOMAIN st' = Fields /\ st'.constructed = TRUE
      /\ \A x \in Fields \ {"constructed", "onDestroy", "destroyErr"} : st'[x] = st[x]
      /\ UNCHANGED <<buffer, ticks, io, given, sunk>>
  BY <1>0 DEF OnConstruct, history, CoreTypes, Fields
<1>5. /\ st'.errored = st.errored /\ st'.destroyed = st.destroyed /\ st'.ending = st.ending
      /\ st'.buffered = st.buffered /\ st'.failed = st.failed /\ st'.writing = FALSE
      /\ st'.expectWriteCb = FALSE /\ st'.finished = st.finished /\ st'.onFinished = st.onFinished
      /\ st'.corked = st.corked /\ st'.bufferProcessing = st.bufferProcessing
      /\ st'.sync = st.sync
      /\ st'.writecb = st.writecb
  BY <1>0, <1>3, <1>4 DEF CoreTypes, Fields
<1>6. StateTypes'
  BY <1>0, <1>4, <1>5 DEF StateTypes, CoreTypes
<1> DEFINE e == Head(stack).er
<1>7. e \in BOOLEAN
  BY <1>0, <1>1, TopFrame
<1>8. PICK a \in Frames, b \in Frames, c \in Frames, d \in Frames :
        /\ a = Fe("_destroy", e \/ st.destroyErr) /\ a.f = "_destroy"
        /\ b = Fn("errorOrDestroy", 1) /\ b.f = "errorOrDestroy"
        /\ c = F("clearBuffer") /\ c.f = "clearBuffer"
        /\ d = Fn("finishMaybe", 0) /\ d.f = "finishMaybe"
  <2>1. (e \/ st.destroyErr) \in BOOLEAN /\ 0 \in Int /\ 1 \in Int
            /\ <<>> \in Seq(Kinds \cup {"end"})
    OBVIOUS
  <2>2. {"_destroy", "errorOrDestroy", "clearBuffer", "finishMaybe"} \subseteq Functions
    BY DEF Functions
  <2>3. /\ Fe("_destroy", e \/ st.destroyErr) \in Frames /\ Fn("errorOrDestroy", 1) \in Frames
        /\ F("clearBuffer") \in Frames /\ Fn("finishMaybe", 0) \in Frames
    BY <2>1, <2>2, FrameTypes
  <2> DEFINE er == e \/ st.destroyErr
  <2>4. Fe("_destroy", er).f = "_destroy" /\ Fn("errorOrDestroy", 1).f = "errorOrDestroy"
    BY FrameNames
  <2>5. F("clearBuffer").f = "clearBuffer" /\ Fn("finishMaybe", 0).f = "finishMaybe"
    BY FrameNames
  <2> HIDE DEF e
  <2> QED
    BY <2>3, <2>4, <2>5
<1>9. PICK fs \in Seq(Frames) :
        /\ Call(fs)
        /\ \/ Len(fs) = 1 /\ fs[1] = a /\ st.destroyed
           \/ Len(fs) = 1 /\ fs[1] = b
           \/ Len(fs) = 2 /\ fs[1] = c /\ fs[2] = d /\ ~st.destroyed
  <2>1. (Call(<<a>>) /\ st.destroyed) \/ Call(<<b>>) \/ (Call(<<c, d>>) /\ ~st.destroyed)
    BY <1>8 DEF OnConstruct, AfterConstruct
  <2> QED
    BY <2>1, Calls
<1>10. Shifted(fs) /\ OnTop = "onConstruct"
  BY <1>1, <1>9, Called
<1>11. CoreTypes'
  BY <1>0, <1>4, <1>6, <1>10, TypesStep DEF CoreTypes
<1>12. Len(stack') = Len(fs) /\ DOMAIN stack' = 1 .. Len(fs)
           /\ \A i \in 1 .. Len(fs) : stack'[i] = fs[i]
  BY <1>0, <1>2, <1>10, Shift
<1>13.
       /\ \A i \in 1 .. Len(fs) : fs[i].f \in {"_destroy", "errorOrDestroy", "clearBuffer",
           "finishMaybe"}
       /\ \A i \in 2 .. Len(fs) : fs[i].f = "finishMaybe"
       /\ fs[1].f \in {"_destroy", "errorOrDestroy", "clearBuffer"} /\ Len(fs) \in {1, 2}
       /\ fs[1].f = "_destroy" => st.destroyed
       /\ fs[1].f = "clearBuffer" => ~st.destroyed
  BY <1>8, <1>9
<1>14. BufferOrdered' /\ AllThere'
  BY <1>0, <1>4, <1>5 DEF BufferOrdered, AllThere
<1>15. FramesOK'
  <2>1. (Dead => Dead') /\ (Drained => Drained')
    BY <1>3, <1>4, <1>5 DEF Dead, Drained
  <2>2. \A fr : FrameOK(fr) /\ fr.f \notin Constructing => FrameOK(fr)'
    BY <1>4, <1>5, <2>1 DEF FrameOK, Constructing
  <2>3. \A i \in DOMAIN ticks' : \E fr : fr = ticks'[i] /\ FrameOK(fr)'
    <3> TAKE i \in DOMAIN ticks'
    <3>1. PICK fr : fr = ticks[i]
      OBVIOUS
    <3>2. FrameOK(fr) /\ fr.f \notin Constructing
      BY <1>0, <1>2, <1>4, <3>1 DEF FramesOK
    <3> QED
      BY <1>4, <2>2, <3>1, <3>2
  <2>4. \A i \in 1 .. Len(fs) : FrameOK(fs[i])'
    <3>1. {"_destroy", "errorOrDestroy", "clearBuffer", "finishMaybe"} \cap Careful = {}
      BY DEF Careful, Errors, Constructing
    <3> QED
      BY <1>13, <3>1, FreeFrame
  <2>5. \A i \in 2 .. Len(stack) : \A fr : fr = stack[i] /\ FrameOK(fr) => FrameOK(fr)'
    BY <1>2
  <2>6. /\ "construct" \in io' => ~st'.constructed
        /\ st'.finished => Drained'
        /\ st'.onFinished # 0 => st'.ending
    BY <1>0, <1>2, <1>4, <1>5, <2>1 DEF FramesOK
  <2> QED
    BY <1>0, <1>10, <2>3, <2>4, <2>5, <2>6, FramesStep
<1>16. ConstructOnce'
  <2>1. \A i \in 1 .. Len(fs) : fs[i].f \notin Constructing
    BY <1>13 DEF Constructing
  <2> QED
    BY <1>2, <1>4, <1>12, <2>1 DEF ConstructOnce
<1>17. TopOK'
  <2>1. st'.failed # <<>> => Dead' /\ ~st'.writing
    BY <1>0, <1>3, <1>5 DEF TopOK, Dead
  <2>2. fs[1].f = "clearBuffer" => ~st'.writing /\ (st'.destroyed \/ st'.failed = <<>>)
    BY <1>0, <1>3, <1>5, <1>13 DEF TopOK, Dead
  <2>3. /\ fs[1].f # "_write" /\ fs[1].f # "onwrite"
        /\ \A i \in 2 .. Len(fs) : fs[i].f \notin AtOnce
        /\ st'.expectWriteCb => st'.writing
        /\ st'.writing => st'.constructed
    BY <1>5, <1>13 DEF AtOnce
  <2> QED
    BY <1>0, <1>10, <2>1, <2>2, <2>3, TopStep
<1>18. LoopsOK'
  <2>1. \A i \in 1 .. Len(fs) : fs[i].f \notin Loops
    BY <1>13 DEF Loops
  <2> QED
    BY <1>0, <1>5, <1>10, <2>1, LoopsStep DEF LoopTops, Loops
<1>19. ErrorsOK'
  <2>1. \A i \in 1 .. Len(fs) : fs[i].f \notin Errors
    BY <1>13 DEF Errors
  <2> QED
    BY <1>12, <2>1 DEF ErrorsOK, Errors
<1>20. PlacesOK'
  <2>1. \A i \in 1 .. Len(fs) : fs[i].f \notin Bottoms
    BY <1>13 DEF Bottoms
  <2> QED
    BY <1>0, <1>4, <1>10, <2>1, PlacesStep DEF PlacesOK
<1>21. Waiting'
  <2>1. stack' # <<>> /\ Head(stack') = fs[1]
    <3>1. Len(stack') >= 1 /\ stack'[1] = fs[1]
      BY <1>12, <1>13
    <3> QED
      BY <1>0, <1>10, <3>1, Shift
  <2>2. fs[1].f \in {"clearBuffer", "errorOrDestroy", "destroy"} \/ st'.destroyed
    BY <1>5, <1>13
  <2> QED
    BY <2>1, <2>2 DEF Waiting
<1> QED
  BY <1>11, <1>14, <1>15, <1>16, <1>17, <1>18, <1>19, <1>20, <1>21 DEF SinkInv

\* Functions that end a list of callbacks, start one, or fail the stream.
LEMMA CallbackActions ==
  ASSUME SinkInv, RunCallbacks \/ CallFinishedCallbacks PROVE SinkInv'
<1>0. /\ CoreTypes /\ FramesOK /\ PlacesOK /\ TopOK /\ LoopsOK /\ ErrorsOK /\ Waiting
  BY DEF SinkInv
<1>1. /\ OnTop \in {"callbacks", "callFinishedCallbacks"} /\ stack # <<>> /\ OnTop = Head(stack).f
      /\ Top(OnTop)
  BY DEF RunCallbacks, CallFinishedCallbacks, Top, OnTop
<1>2. /\ UNCHANGED <<buffer, ticks, io, given, sunk>> /\ Ticked
      /\ DOMAIN st' = Fields /\ st'.onFinished \in {0, st.onFinished}
      /\ \A x \in Fields \ {"onFinished"} : st'[x] = st[x]
  BY <1>0, TickNone DEF RunCallbacks, CallFinishedCallbacks, history, CoreTypes, Fields
<1>3. /\ st'.errored = st.errored /\ st'.destroyed = st.destroyed /\ st'.ending = st.ending
      /\ st'.buffered = st.buffered /\ st'.failed = st.failed /\ st'.writing = st.writing
      /\ st'.expectWriteCb = st.expectWriteCb /\ st'.finished = st.finished
      /\ st'.constructed = st.constructed
      /\ st'.corked = st.corked /\ st'.bufferProcessing = st.bufferProcessing
      /\ st'.sync = st.sync
      /\ st'.writecb = st.writecb
  BY <1>2 DEF Fields
<1>4. StateTypes' /\ Calm
  BY <1>0, <1>2, <1>3 DEF StateTypes, CoreTypes, Calm
<1> DEFINE cb == Head(stack).cb
           none == cb = <<>> /\ OnTop = "callbacks"
           done == OnTop = "callFinishedCallbacks" /\ st.onFinished = 0
<1>5. /\ cb \in Seq(Kinds \cup {"end"}) /\ Head(stack) \in Frames /\ Head(stack).er \in BOOLEAN
      /\ cb # <<>> => Tail(cb) \in Seq(Kinds \cup {"end"})
  BY <1>0, <1>1, TopFrame
<1>6. PICK a \in Frames, b \in Frames, u \in Frames :
        /\ (OnTop = "callbacks" /\ cb # <<>>) => (a = [Head(stack) EXCEPT !.cb = Tail(@)]
            /\ a.f = "callbacks")
        /\ b = Fc([i \in 1 .. st.onFinished |-> "end"], Head(stack).er) /\ b.f = "callbacks"
        /\ st.onFinished = 0 => b.cb = <<>>
        /\ u = F("user") /\ u.f = "user"
  <2>1. (OnTop = "callbacks" /\ cb # <<>>) => /\ [Head(stack) EXCEPT !.cb = Tail(@)] \in Frames

                                              /\ [Head(stack) EXCEPT !.cb = Tail(@)].f =
                                                  "callbacks"
    BY <1>1, <1>5 DEF Frames
  <2> DEFINE ends == [i \in 1 .. st.onFinished |-> "end"]
  <2>2. ends \in Seq(Kinds \cup {"end"}) /\ (st.onFinished = 0 => ends = <<>>)
    BY <1>0 DEF CoreTypes
  <2>3. Fc(ends, Head(stack).er).cb = ends /\ Fc(ends, Head(stack).er).f = "callbacks"
    BY FrameParts
  <2>4. Fc(ends, Head(stack).er) \in Frames
    BY <1>5, <2>2, CallbackFrame DEF PlainFrames
  <2>5. F("user") \in Frames /\ F("user").f = "user"
    BY UserFrames, FrameNames DEF PlainFrames
  <2> QED
    BY <2>1, <2>2, <2>3, <2>4, <2>5
<1>7. PICK fs \in Seq(Frames) :
        /\ Call(fs)
        /\ \/ Len(fs) = 0 /\ none
           \/ Len(fs) = 1 /\ fs[1] = a /\ OnTop = "callbacks" /\ cb # <<>> /\ a.f = "callbacks"
           \/ Len(fs) = 2 /\ fs[1] = u /\ fs[2] = a /\ OnTop = "callbacks" /\ cb # <<>>
               /\ a.f = "callbacks"
           \/ Len(fs) = 1 /\ fs[1] = b /\ OnTop = "callFinishedCallbacks"
  <2>1. \/ Call(<<>>) /\ none
        \/ Call(<<a>>) /\ OnTop = "callbacks" /\ cb # <<>> /\ a.f = "callbacks"
        \/ Call(<<u, a>>) /\ OnTop = "callbacks" /\ cb # <<>> /\ a.f = "callbacks"
        \/ Call(<<b>>) /\ OnTop = "callFinishedCallbacks"
    <3>1. CASE RunCallbacks
      <4>0. OnTop = "callbacks"
        BY <3>1 DEF RunCallbacks, Top, OnTop
      <4>1. <<>> \o <<a>> = <<a>>
        OBVIOUS
      <4>2. <<u>> \o <<a>> = <<u, a>>
        BY ConcatTwo
      <4>3. User("cb") \o <<a>> = <<a>> \/ User("cb") \o <<a>> = <<u, a>>
        BY <1>6, <4>1, <4>2, UserFrames
      <4> QED
        BY <3>1, <1>6, <4>0, <4>3 DEF RunCallbacks
    <3>2. CASE CallFinishedCallbacks
      <4>1. OnTop = "callFinishedCallbacks"
        BY <3>2 DEF CallFinishedCallbacks, Top, OnTop
      <4> QED
        BY <3>2, <4>1, <1>6 DEF CallFinishedCallbacks
    <3> QED
      BY <3>1, <3>2
  <2> HIDE DEF cb
  <2>2. CASE Call(<<>>) /\ none
    BY <2>2, Calls
  <2>3. CASE Call(<<a>>) /\ OnTop = "callbacks" /\ cb # <<>> /\ a.f = "callbacks"
    BY <2>3, Calls
  <2>4. CASE Call(<<u, a>>) /\ OnTop = "callbacks" /\ cb # <<>> /\ a.f = "callbacks"
    BY <2>4, Calls
  <2>5. CASE Call(<<b>>) /\ OnTop = "callFinishedCallbacks"
    BY <2>5, Calls
  <2> QED
    BY <2>1, <2>2, <2>3, <2>4, <2>5
<1>8. Shifted(fs)
  BY <1>1, <1>7, Called
<1>9. CoreTypes'
  BY <1>0, <1>2, <1>4, <1>8, TypesStep DEF Ticked
<1>10. \A i \in 1 .. Len(fs) : fs[i].f \in {"callbacks", "user"}
  <2>1. \A i \in 1 .. 2 : i = 1 \/ i = 2
    OBVIOUS
  <2> QED
    BY <1>6, <1>7, <2>1
<1>11. \A i \in 1 .. Len(fs) : /\ fs[i].f \notin AtOnce \cup Loops \cup Constructing
                                   \cup Bottoms \cup Errors
                               /\ FrameOK(fs[i])'
  BY <1>10, FreeFrame DEF AtOnce, Loops, Constructing, Bottoms, Errors, Careful
<1>12. BufferOrdered' /\ AllThere' /\ FramesOK' /\ ConstructOnce' /\ TopOK' /\ PlacesOK'
  <2>1. /\ st'.expectWriteCb => st'.writing
        /\ st'.onFinished # 0 => st'.ending
    BY <1>0, <1>2, <1>3 DEF TopOK, FramesOK
  <2>2. Len(fs) > 0 => fs[1].f \notin AtOnce
    BY <1>11
  <2>3. /\ \A i \in 1 .. Len(fs) : fs[i].f \notin Constructing /\ FrameOK(fs[i])'
        /\ \A i \in 2 .. Len(fs) : fs[i].f \notin AtOnce
        /\ \A i \in 1 .. Len(fs) : fs[i].f \in Bottoms => i = Len(fs) /\ Len(stack) <= 1
    BY <1>11
  <2>4. /\ Len(fs) > 0 => /\ fs[1].f = "clearBuffer" => ~st'.writing
                              /\ (st'.destroyed \/ st'.failed = <<>>)
                          /\ fs[1].f = "_write" => st'.sync /\ st'.expectWriteCb
                          /\ fs[1].f = "onwrite" => stack = <<>>
                              \/ (st'.sync /\ st'.expectWriteCb)
        /\ Len(fs) <= 1 \/ fs[1].f # "onwrite"
    BY <1>7, <2>2 DEF AtOnce
  <2> QED
    BY <1>2, <1>3, <1>4, <1>8, <2>1, <2>3, <2>4, CalmStep
<1>13. LoopsOK'
  <2>1. OnTop \notin LoopTops
    BY <1>1 DEF LoopTops, Loops
  <2> QED
    BY <1>0, <1>3, <1>8, <1>11, <2>1, LoopsStep
<1>14. ErrorsOK'
  <2>0. /\ Len(fs) \in Nat /\ Len(stack) \in Nat
        /\ DOMAIN stack' = 1 .. Len(stack') /\ DOMAIN stack = 1 .. Len(stack)
        /\ Len(stack') \in Nat
        /\ Len(stack') = Len(fs) + Len(stack) - 1 /\ OnTop = stack[1].f
        /\ \A i \in 1 .. Len(stack') :
             IF i <= Len(fs) THEN stack'[i] = fs[i]
             ELSE i - Len(fs) + 1 \in 2 .. Len(stack) /\ stack'[i] = stack[i - Len(fs) + 1]
    BY <1>0, <1>1, <1>8, Shift
  <2> DEFINE old(i) == i - Len(fs) + 1
  <2>1. \A i \in DOMAIN stack' : stack'[i].f \in Errors =>
          i > Len(fs) /\ old(i) \in 2 .. Len(stack) /\ old(i) \in DOMAIN stack
              /\ stack'[i] = stack[old(i)]
    BY <1>11, <2>0
  <2>2. \A i, j \in DOMAIN stack' : stack'[i].f \in Errors /\ stack'[j].f \in Errors => i = j
    <3> SUFFICES ASSUME NEW i \in DOMAIN stack', NEW j \in DOMAIN stack',
                        stack'[i].f \in Errors, stack'[j].f \in Errors
                 PROVE  i = j
      OBVIOUS
    <3>1. old(i) \in DOMAIN stack /\ old(j) \in DOMAIN stack /\ i \in Int /\ j \in Int
      BY <2>0, <2>1
    <3>2. stack[old(i)].f \in Errors /\ stack[old(j)].f \in Errors
      BY <2>1
    <3>3. old(i) = old(j)
      BY <1>0, <3>1, <3>2 DEF ErrorsOK
    <3> QED
      BY <2>0, <3>1, <3>3
  <2>3. ASSUME NEW i \in DOMAIN stack', stack'[i].f = "errorLoop" PROVE st'.failed # <<>>
    <3>1. old(i) \in 2 .. Len(stack) /\ old(i) \in DOMAIN stack /\ stack[old(i)].f = "errorLoop"
      BY <2>1, <2>3 DEF Errors
    <3> HIDE DEF old
    <3> QED
      BY <1>0, <1>3, <3>1 DEF ErrorsOK
  <2>4. ASSUME NEW i \in DOMAIN stack', stack'[i].f = "resetBuffer"
        PROVE  \/ i = 1 \/ st'.ending \/ st'.destroyed
               \/ i = 2 /\ stack'[1].f = "callbacks" /\ stack'[1].cb = <<>>
    <3>1. /\ old(i) \in 2 .. Len(stack) /\ old(i) \in DOMAIN stack
          /\ stack[old(i)].f = "resetBuffer"
          /\ i > Len(fs) /\ i \in Int
      BY <2>0, <2>1, <2>4 DEF Errors
    <3>2. \/ st.ending \/ st.destroyed
          \/ old(i) = 2 /\ OnTop = "callFinishedCallbacks"
          \/ old(i) = 2 /\ OnTop = "callbacks" /\ stack[1].cb = <<>>
      <4> HIDE DEF old
      <4> QED
        BY <1>0, <2>0, <3>1 DEF ErrorsOK
    <3>3. CASE old(i) = 2 /\ OnTop = "callbacks" /\ stack[1].cb = <<>>
      <4>1. cb = <<>>
        BY <1>0, <1>1, <3>3 DEF CoreTypes
      <4>2. Len(fs) = 0
        BY <1>7, <3>3, <4>1
      <4> QED
        BY <3>1, <3>3, <4>2
    <3>4. CASE old(i) = 2 /\ OnTop = "callFinishedCallbacks"
      <4>1. Len(fs) = 1 /\ fs[1] = b
        BY <1>7, <3>4
      <4>2. i = 2 /\ stack'[1] = b
        BY <2>0, <3>1, <3>4, <4>1
      <4>3. st.onFinished # 0 => st.ending
        BY <1>0 DEF FramesOK
      <4> QED
        BY <1>3, <1>6, <4>2, <4>3
    <3> QED
      BY <1>3, <3>2, <3>3, <3>4
  <2> QED
    BY <2>2, <2>3, <2>4 DEF ErrorsOK
<1>15. Waiting'
  BY <1>0, <1>1, <1>2, <1>3, WaitingStep
<1> QED
  BY <1>9, <1>12, <1>13, <1>14, <1>15 DEF SinkInv

\* Calm steps with a hand in the errors or the end of the stream.
LEMMA FailActions ==
  ASSUME SinkInv, ErrorBuffer \/ ErrorOrDestroy \/ Destroy \/ Finish PROVE SinkInv'
<1>0. /\ CoreTypes /\ FramesOK /\ PlacesOK /\ TopOK /\ LoopsOK /\ ErrorsOK /\ Waiting
      /\ BufferOrdered
  BY DEF SinkInv
<1>1. /\ OnTop \in {"errorBuffer", "errorOrDestroy", "destroy", "finish"} /\ stack # <<>>
      /\ OnTop = Head(stack).f /\ Top(OnTop)
  BY DEF ErrorBuffer, ErrorOrDestroy, Destroy, Finish, Top, OnTop
<1>2. /\ UNCHANGED <<buffer, io, given, sunk>>
      /\ DOMAIN st' = Fields

      /\ \A x \in Fields \ {"errored", "destroyed", "onDestroy", "destroyErr", "finished",
          "pendingcb"} :
           st'[x] = st[x]
      /\ st'.errored \in BOOLEAN /\ st'.destroyed \in BOOLEAN /\ st'.finished \in BOOLEAN
      /\ st.errored => st'.errored
      /\ st.destroyed => st'.destroyed
  <2>1. UNCHANGED <<buffer, io, given, sunk>>
    BY DEF ErrorBuffer, ErrorOrDestroy, Destroy, Finish, history
  <2>2. CASE ErrorBuffer
    BY <1>0, <2>1, <2>2 DEF ErrorBuffer, CoreTypes, Fields
  <2>3. CASE ErrorOrDestroy
    BY <1>0, <2>1, <2>3 DEF ErrorOrDestroy, CoreTypes, Fields
  <2>4. CASE Destroy
    <3>1. Head(stack).er \in BOOLEAN
      BY <1>0, <1>1, TopFrame
    <3> QED
      BY <1>0, <2>1, <2>4, <3>1 DEF Destroy, CoreTypes, Fields
  <2>5. CASE Finish
    BY <1>0, <2>1, <2>5 DEF Finish, CoreTypes, Fields
  <2> QED
    BY <2>2, <2>3, <2>4, <2>5
<1>3. /\ st'.ending = st.ending
      /\ st'.buffered = st.buffered /\ st'.failed = st.failed /\ st'.writing = st.writing
      /\ st'.expectWriteCb = st.expectWriteCb /\ st'.onFinished = st.onFinished
      /\ st'.constructed = st.constructed
      /\ st'.corked = st.corked /\ st'.bufferProcessing = st.bufferProcessing
      /\ st'.sync = st.sync
      /\ st'.writecb = st.writecb
  BY <1>2 DEF Fields
<1>4. StateTypes' /\ Calm
  BY <1>0, <1>2, <1>3 DEF StateTypes, CoreTypes, Calm
<1>5. OnTop = "finish" => Drained
  BY <1>0, <1>1, TopRelies DEF FrameOK
<1>6. st'.finished = st.finished \/ Drained
  <2>1. CASE Finish
    BY <1>5, <2>1 DEF Finish, Top, OnTop
  <2>2. CASE ~Finish
    BY <1>0, <1>2, <2>2 DEF ErrorBuffer, ErrorOrDestroy, Destroy, CoreTypes, Fields
  <2> QED
    BY <2>1, <2>2
<1>7. Ticked
  <2>1. PICK x \in PlainFrames, y \in Frames :
          x = F("emitErrorNT") /\ y = F("errorBuffer") /\ y.f = "errorBuffer"
    <3>1. F("emitErrorNT") \in PlainFrames
      BY Simple DEF PlainNames
    <3>2. F("errorBuffer") \in Frames
      <4>1. 0 \in Int /\ <<>> \in Seq(Kinds \cup {"end"}) /\ TRUE \in BOOLEAN
                /\ "errorBuffer" \in Functions
        BY DEF Functions
      <4> QED
        BY <4>1, FrameTypes
    <3> QED
      BY <3>1, <3>2, FrameNames
  <2>2. ticks' = ticks \/ Tick(x) \/ (Tick(y) /\ st'.destroyed)
    <3>1. CASE Destroy
      BY <1>0, <2>1, <3>1 DEF Destroy, Tick, CoreTypes, Fields
    <3>2. CASE ~Destroy
      BY <2>1, <3>2 DEF ErrorBuffer, ErrorOrDestroy, Finish
    <3> QED
      BY <3>1, <3>2
  <2>3. st'.destroyed => FrameOK(y)'
    BY <2>1 DEF FrameOK, Dead
  <2>4. "errorBuffer" \notin Direct \cup Constructing
    BY DEF Direct, AtOnce, Loops, Constructing
  <2> QED
    BY <1>0, <2>1, <2>2, <2>3, <2>4, TickNone, TickPlain, TickOne
<1>8. PICK fs \in Seq(Frames) :
        /\ Call(fs)
        /\ \/ Len(fs) = 0 /\ OnTop # "finish"
           \/ Len(fs) = 1 /\ fs[1].f = "errorLoop" /\ fs[1].n = 0 /\ OnTop = "errorBuffer"
               /\ ~st.writing
           \/ Len(fs) = 1 /\ fs[1] \in PlainFrames
               /\ fs[1].f \in {"destroy", "emitErrorNT", "_destroy"}
                /\ OnTop \in {"errorOrDestroy", "destroy"}
           \/ Len(fs) = 2 /\ fs[1].f = "callFinishedCallbacks" /\ fs[2] \in PlainFrames
               /\ OnTop = "finish"
        /\ OnTop = "errorOrDestroy" => st'.destroyed \/ st'.errored
            \/ (Len(fs) > 0 /\ fs[1].f = "destroy")
        /\ OnTop = "destroy" => st'.destroyed
  <2>1. Head(stack).er \in BOOLEAN /\ 0 \in Int /\ <<>> \in Seq(Kinds \cup {"end"})
            /\ TRUE \in BOOLEAN /\ FALSE \in BOOLEAN
    BY <1>0, <1>1, TopFrame
  <2>2. {"errorLoop", "callFinishedCallbacks"} \subseteq Functions
    BY DEF Functions
  <2>3. CASE ErrorBuffer
    <3>1. PICK x \in Frames : x = F("errorLoop") /\ x.f = "errorLoop" /\ x.n = 0
      <4>1. F("errorLoop") \in Frames
        BY <2>1, <2>2, FrameTypes
      <4>2. F("errorLoop").f = "errorLoop" /\ F("errorLoop").n = 0
        BY DEF F
      <4> QED
        BY <4>1, <4>2
    <3>2. OnTop = "errorBuffer" /\ (Call(<<>>) \/ (Call(<<x>>) /\ ~st.writing))
      BY <2>3, <3>1 DEF ErrorBuffer, Top, OnTop
    <3> QED
      BY <3>1, <3>2, Calls
  <2>4. CASE ErrorOrDestroy
    <3>1. PICK x \in Frames, y \in Frames :
            /\ x = Fe("destroy", TRUE) /\ x \in PlainFrames /\ x.f = "destroy"
            /\ y = F("emitErrorNT") /\ y \in PlainFrames /\ y.f = "emitErrorNT"
      <4>1. Fe("destroy", TRUE) \in PlainFrames /\ F("emitErrorNT") \in PlainFrames
        BY <2>1, PlainCalls DEF PlainNames
      <4> QED
        BY <4>1, FrameNames DEF PlainFrames
    <3>2. /\ OnTop = "errorOrDestroy"
          /\ \/ Call(<<>>) /\ (st'.destroyed \/ st'.errored)
             \/ Call(<<x>>)
             \/ Call(<<y>>) /\ st'.errored
      BY <1>0, <1>2, <2>4, <3>1 DEF ErrorOrDestroy, Top, OnTop, CoreTypes, Fields
    <3>3. CASE Call(<<>>) /\ (st'.destroyed \/ st'.errored)
      BY <3>2, <3>3, Calls
    <3>4. CASE Call(<<x>>)
      <4>1. PICK fs \in Seq(Frames) : Call(fs) /\ Len(fs) = 1 /\ fs[1] = x
        BY <3>4, Calls
      <4>2. fs[1] \in PlainFrames /\ fs[1].f = "destroy" /\ OnTop = "errorOrDestroy"
        BY <3>1, <3>2, <4>1
      <4> QED
        BY <4>1, <4>2
    <3>5. CASE Call(<<y>>) /\ st'.errored
      <4>1. PICK fs \in Seq(Frames) : Call(fs) /\ Len(fs) = 1 /\ fs[1] = y
        BY <3>5, Calls
      <4> QED
        BY <3>1, <3>2, <3>5, <4>1
    <3> QED
      BY <3>2, <3>3, <3>4, <3>5
  <2>5. CASE Destroy
    <3>1. PICK x \in Frames : x = Fe("_destroy", Head(stack).er) /\ x \in PlainFrames
              /\ x.f = "_destroy"
      <4>1. Fe("_destroy", Head(stack).er) \in PlainFrames
        BY <2>1, PlainCalls DEF PlainNames
      <4> QED
        BY <4>1, FrameNames DEF PlainFrames
    <3>2. OnTop = "destroy" /\ (Call(<<>>) \/ Call(<<x>>)) /\ st'.destroyed
      BY <1>0, <2>5, <3>1 DEF Destroy, Top, OnTop, CoreTypes, Fields
    <3> QED
      BY <3>1, <3>2, Calls
  <2>6. CASE Finish
    <3>1. PICK x \in Frames, y \in Frames :
            /\ x = Fe("callFinishedCallbacks", FALSE) /\ x.f = "callFinishedCallbacks"
            /\ y = F("emitFinish") /\ y \in PlainFrames
      <4>1. Fe("callFinishedCallbacks", FALSE) \in Frames /\ F("emitFinish") \in PlainFrames
        BY <2>1, <2>2, FrameTypes, Simple DEF PlainNames
      <4> QED
        BY <4>1, FrameNames DEF PlainFrames
    <3>2. OnTop = "finish" /\ Call(<<x, y>>)
      BY <2>6, <3>1 DEF Finish, Top, OnTop
    <3>3. PICK fs \in Seq(Frames) : Call(fs) /\ Len(fs) = 2 /\ fs[1] = x /\ fs[2] = y
      BY <3>2, Calls
    <3> QED
      BY <3>1, <3>2, <3>3
  <2> QED
    BY <2>3, <2>4, <2>5, <2>6
<1>9. Shifted(fs)
  BY <1>1, <1>8, Called
<1>10. CoreTypes'
  BY <1>0, <1>2, <1>4, <1>7, <1>9, TypesStep DEF Ticked
<1>11. \A i \in 1 .. Len(fs) :
         \/ fs[i] \in PlainFrames
         \/ i = 1 /\ fs[i].f = "callFinishedCallbacks"
         \/ i = 1 /\ fs[i].f = "errorLoop" /\ fs[i].n = 0 /\ OnTop = "errorBuffer" /\ ~st.writing
  <2>1. \A i \in 1 .. 2 : i = 1 \/ i = 2
    OBVIOUS
  <2> QED
    BY <1>8, <2>1
<1>12. \A fr : fr.f = "errorLoop" /\ fr.n = 0 /\ OnTop = "errorBuffer" /\ ~st.writing =>
           FrameOK(fr)'
  <2>1. OnTop = "errorBuffer" => Dead
    BY <1>0, <1>1, TopRelies DEF FrameOK
  <2>2. Dead => Dead'
    BY <1>4, CalmFrames
  <2>3. 0 <= Len(given') /\ \A i \in DOMAIN buffer' : 0 < buffer'[i]
    BY <1>0, <1>2 DEF CoreTypes, BufferOrdered
  <2> QED
    BY <1>3, <2>1, <2>2, <2>3 DEF FrameOK
<1>13. \A i \in 1 .. Len(fs) :

         /\ fs[i].f \notin Loops \cup Constructing \cup Bottoms \cup {"clearBuffer", "_write",
             "onwrite"}
         /\ fs[i].f \in AtOnce => i = 1
         /\ fs[i].f \in Errors => i = 1 /\ fs[i].f = "errorLoop" /\ OnTop = "errorBuffer"
         /\ FrameOK(fs[i])'
  <2> TAKE i \in 1 .. Len(fs)
  <2>1. CASE fs[i] \in PlainFrames
    BY <2>1, FreeFrame DEF PlainFrames, Special, AtOnce, Careful
  <2>2. CASE i = 1 /\ fs[i].f = "callFinishedCallbacks"
    BY <2>2, FreeFrame DEF Loops, Constructing, Bottoms, AtOnce, Errors, Careful
  <2>3. CASE i = 1 /\ fs[i].f = "errorLoop" /\ fs[i].n = 0 /\ OnTop = "errorBuffer" /\ ~st.writing
    BY <1>12, <2>3 DEF Loops, Constructing, Bottoms, AtOnce
  <2> QED
    BY <1>11, <2>1, <2>2, <2>3
<1>14. BufferOrdered' /\ AllThere' /\ FramesOK' /\ ConstructOnce' /\ TopOK' /\ PlacesOK'
  <2>1. /\ st'.expectWriteCb => st'.writing
        /\ st'.onFinished # 0 => st'.ending
    BY <1>0, <1>3 DEF TopOK, FramesOK
  <2>2. Len(fs) > 0 => fs[1].f \notin {"clearBuffer", "_write", "onwrite"}
    BY <1>13
  <2>3. /\ \A i \in 1 .. Len(fs) : fs[i].f \notin Constructing /\ FrameOK(fs[i])'
        /\ \A i \in 2 .. Len(fs) : fs[i].f \notin AtOnce
        /\ \A i \in 1 .. Len(fs) : fs[i].f \in Bottoms => i = Len(fs) /\ Len(stack) <= 1
    BY <1>13
  <2>4. /\ Len(fs) > 0 => /\ fs[1].f = "clearBuffer" => ~st'.writing
                              /\ (st'.destroyed \/ st'.failed = <<>>)
                          /\ fs[1].f = "_write" => st'.sync /\ st'.expectWriteCb
                          /\ fs[1].f = "onwrite" => stack = <<>>
                              \/ (st'.sync /\ st'.expectWriteCb)
        /\ Len(fs) <= 1 \/ fs[1].f # "onwrite"
    BY <1>8, <2>2
  <2> QED
    BY <1>2, <1>4, <1>6, <1>7, <1>9, <2>1, <2>3, <2>4, CalmStep
<1>15. LoopsOK'
  <2>1. OnTop \notin LoopTops
    BY <1>1 DEF LoopTops, Loops
  <2> QED
    BY <1>0, <1>3, <1>9, <1>13, <2>1, LoopsStep
<1>16. ErrorsOK'
  <2>1. CASE OnTop # "errorBuffer"
    <3>1. \A i \in 1 .. Len(fs) : fs[i].f \notin Errors
      BY <1>13, <2>1
    <3> QED
      BY <1>0, <1>1, <1>2, <1>3, <1>9, <3>1, ErrorsStep
  <2>2. CASE OnTop = "errorBuffer"
    <3>0. /\ Len(fs) \in Nat /\ Len(stack) \in Nat
          /\ DOMAIN stack' = 1 .. Len(stack') /\ DOMAIN stack = 1 .. Len(stack)
          /\ Len(stack') \in Nat
          /\ Len(stack') = Len(fs) + Len(stack) - 1 /\ OnTop = stack[1].f /\ Len(stack) >= 1
          /\ \A i \in 1 .. Len(stack') :
               IF i <= Len(fs) THEN stack'[i] = fs[i]
               ELSE i - Len(fs) + 1 \in 2 .. Len(stack) /\ stack'[i] = stack[i - Len(fs) + 1]
      BY <1>0, <1>1, <1>9, Shift
    <3>1. 1 \in DOMAIN stack /\ stack[1].f \in Errors
      BY <2>2, <3>0 DEF Errors
    <3>2. \A i \in 2 .. Len(stack) : stack[i].f \notin Errors
      BY <1>0, <3>0, <3>1 DEF ErrorsOK
    <3>3. \A i \in DOMAIN stack' : stack'[i].f \in Errors => i = 1 /\ stack'[i].f = "errorLoop"
      BY <1>13, <3>0, <3>2
    <3> QED
      BY <3>3 DEF ErrorsOK, Errors
  <2> QED
    BY <2>1, <2>2
<1>17. Waiting'
  <2>1. CASE OnTop \notin {"errorOrDestroy", "destroy"}
    BY <1>0, <1>1, <1>2, <1>3, <2>1, WaitingStep
  <2>2. CASE OnTop = "destroy"
    BY <1>8, <2>2 DEF Waiting
  <2>3. CASE OnTop = "errorOrDestroy" /\ Len(fs) > 0 /\ fs[1].f = "destroy"
    <3>1. stack' # <<>> /\ Head(stack') = fs[1]
      BY <1>0, <1>1, <1>9, <2>3, Shift
    <3> QED
      BY <2>3, <3>1 DEF Waiting
  <2> QED
    BY <1>8, <2>1, <2>2, <2>3 DEF Waiting
<1> QED
  BY <1>10, <1>14, <1>15, <1>16, <1>17 DEF SinkInv

\* The functions that clearBuffer() calls keep to their places above its loop.
Inner == {"_write", "onwrite", "onwriteSync", "finishMaybe"}
NoLoop == \A i \in 2 .. Len(stack) : stack[i].f \notin Loops
\* The frames above a loop of clearBuffer() after a function there was run.
LEMMA LoopsShift ==
  ASSUME CoreTypes, LoopsOK, NEW fs, Shifted(fs), OnTop \notin Loops, stack # <<>>,
         st'.bufferProcessing = st.bufferProcessing, st'.buffered = st.buffered,
         st'.constructed = st.constructed, st'.failed = st.failed, buffer' = buffer,
         \A i \in 1 .. Len(fs) : fs[i].f \notin Loops \cup {"errorLoop"},
         \/ Len(fs) = 0
         \/ Len(fs) = 1 /\ OnTop \in Inner /\ fs[1].f \in Inner
         \/ Len(fs) = 2 /\ OnTop \in Inner /\ fs[1].f = "clearBuffer" /\ fs[2].f = "onwriteSync"
         \/ NoLoop
  PROVE  LoopsOK'
<1>0. /\ Len(fs) \in Nat /\ Len(stack) \in Nat
      /\ DOMAIN stack' = 1 .. Len(stack') /\ DOMAIN stack = 1 .. Len(stack) /\ Len(stack') \in Nat
      /\ Len(stack') = Len(fs) + Len(stack) - 1 /\ OnTop = stack[1].f /\ Len(stack) >= 1
      /\ \A i \in 1 .. Len(stack') :
           IF i <= Len(fs) THEN stack'[i] = fs[i]
           ELSE i - Len(fs) + 1 \in 2 .. Len(stack) /\ stack'[i] = stack[i - Len(fs) + 1]
  BY Shift
<1>1. \A k \in 2 .. Len(stack) : /\ k - 1 + Len(fs) \in DOMAIN stack'
                                 /\ stack'[k - 1 + Len(fs)] = stack[k]
  <2> TAKE k \in 2 .. Len(stack)
  <2>1. k - 1 + Len(fs) \in 1 .. Len(stack') /\ ~(k - 1 + Len(fs) <= Len(fs))
        /\ k - 1 + Len(fs) - Len(fs) + 1 = k
    BY <1>0
  <2> QED
    BY <1>0, <2>1
<1>2. ASSUME NEW n \in DOMAIN stack', stack'[n].f \in Loops
      PROVE  LoopOK(n)'
  <2>1. PICK k \in 2 .. Len(stack) : n = k - 1 + Len(fs) /\ stack'[n] = stack[k]
    <3>1. ~(n <= Len(fs)) /\ n \in Int
      BY <1>0, <1>2
    <3>2. n - Len(fs) + 1 \in 2 .. Len(stack) /\ stack'[n] = stack[n - Len(fs) + 1]
      BY <1>0, <3>1
    <3>3. n = (n - Len(fs) + 1) - 1 + Len(fs)
      BY <1>0, <3>1
    <3> QED
      BY <3>2, <3>3
  <2>2. LoopOK(k) /\ k \in DOMAIN stack
    BY <1>0, <1>2, <2>1 DEF LoopsOK
  <2>3. ~NoLoop
    BY <1>2, <2>1 DEF NoLoop
  <2>4. \/ n = 1
        \/ n = 2 /\ stack'[1].f = "unsync"
        \/ n = 3 /\ stack'[2].f = "unsync" /\ stack'[1].f \in Inner
        \/ n = 4 /\ stack'[3].f = "unsync" /\ stack'[2].f = "onwriteSync"
            /\ stack'[1].f = "clearBuffer"
    <3>1. CASE k = 2
      <4>1. OnTop = "unsync"
        BY <1>0, <2>2, <3>1 DEF LoopOK
      <4>2. Len(fs) = 0
        BY <2>3, <4>1 DEF Inner
      <4> QED
        BY <2>1, <3>1, <4>2
    <3>2. CASE k = 3
      <4>1. stack[2].f = "unsync"
        BY <2>2, <3>2 DEF LoopOK
      <4>2. stack'[1 + Len(fs)] = stack[2]
        BY <1>0, <1>1, <2>1, <3>2
      <4>3. CASE Len(fs) = 0
        BY <2>1, <3>2, <4>1, <4>2, <4>3
      <4>4. CASE Len(fs) = 1 /\ fs[1].f \in Inner
        BY <1>0, <2>1, <3>2, <4>1, <4>2, <4>4
      <4>5. CASE Len(fs) = 2 /\ fs[1].f = "clearBuffer" /\ fs[2].f = "onwriteSync"
        BY <1>0, <2>1, <3>2, <4>1, <4>2, <4>5
      <4> QED
        BY <2>3, <4>3, <4>4, <4>5
    <3>3. CASE k = 4
      <4>1. stack[3].f = "unsync" /\ stack[2].f = "onwriteSync" /\ OnTop = "clearBuffer"
        BY <1>0, <2>2, <3>3 DEF LoopOK
      <4>2. Len(fs) = 0
        BY <2>3, <4>1 DEF Inner
      <4>3. stack'[1] = stack[2] /\ stack'[2] = stack[3]
        BY <1>0, <1>1, <2>1, <3>3, <4>2
      <4> QED
        BY <2>1, <3>3, <4>1, <4>2, <4>3 DEF Inner
    <3> QED
      BY <2>2, <2>1, <3>1, <3>2, <3>3 DEF LoopOK
  <2>5. stack'[n].f = "clearBufferEnd" => buffer' = <<>>
    <3>1. k # 1
      BY <2>1
    <3> QED
      BY <2>1, <2>2, <3>1 DEF LoopOK
  <2>6. \A j \in DOMAIN stack' : stack'[j].f # "errorLoop"
    <3> TAKE j \in DOMAIN stack'
    <3>1. CASE j <= Len(fs)
      BY <1>0, <3>1
    <3>2. CASE ~(j <= Len(fs))
      <4>1. j - Len(fs) + 1 \in DOMAIN stack /\ stack'[j] = stack[j - Len(fs) + 1]
        BY <1>0, <3>2
      <4>2. \A l \in DOMAIN stack : stack[l].f # "errorLoop"
        BY <2>2 DEF LoopOK
      <4> QED
        BY <4>1, <4>2
    <3> QED
      BY <3>1, <3>2
  <2>7. st'.bufferProcessing /\ st'.buffered /\ st'.constructed /\ st'.failed = <<>>
    BY <2>2 DEF LoopOK
  <2> QED
    BY <2>4, <2>5, <2>6, <2>7 DEF LoopOK, Inner
<1>3. st'.bufferProcessing => \E n \in DOMAIN stack' : stack'[n].f \in Loops
  <2> SUFFICES ASSUME st'.bufferProcessing PROVE \E n \in DOMAIN stack' : stack'[n].f \in Loops
    OBVIOUS
  <2>1. PICK k \in DOMAIN stack : stack[k].f \in Loops
    BY DEF LoopsOK
  <2>2. k \in 2 .. Len(stack)
    BY <1>0, <2>1
  <2> QED
    BY <1>1, <2>1, <2>2
<1> QED
  BY <1>2, <1>3 DEF LoopsOK

\* _write returns or calls back, and finishMaybe() is asked in between.
LEMMA InnerActions ==
  ASSUME SinkInv, ImplWrite \/ Unsync \/ FinishMaybe PROVE SinkInv'
<1>0. /\ CoreTypes /\ FramesOK /\ PlacesOK /\ TopOK /\ LoopsOK /\ ErrorsOK /\ Waiting
      /\ BufferOrdered
  BY DEF SinkInv
<1>1. /\ OnTop \in {"_write", "unsync", "finishMaybe"} /\ stack # <<>>
      /\ OnTop = Head(stack).f /\ Top(OnTop)
  BY DEF ImplWrite, Unsync, FinishMaybe, Top, OnTop
<1>2. /\ UNCHANGED <<buffer, ticks, given, sunk>> /\ Ticked
      /\ ("construct" \in io' <=> "construct" \in io)
      /\ DOMAIN st' = Fields /\ st'.sync \in BOOLEAN
      /\ \A x \in Fields \ {"sync"} : st'[x] = st[x]
      /\ OnTop = "_write" => st' = st
  BY <1>0, TickNone DEF ImplWrite, Unsync, FinishMaybe, history, CoreTypes, Fields, Top, OnTop
<1>3. /\ st'.ending = st.ending /\ st'.errored = st.errored /\ st'.destroyed = st.destroyed
      /\ st'.buffered = st.buffered /\ st'.failed = st.failed /\ st'.writing = st.writing
      /\ st'.expectWriteCb = st.expectWriteCb /\ st'.onFinished = st.onFinished
      /\ st'.constructed = st.constructed /\ st'.finished = st.finished
      /\ st'.corked = st.corked /\ st'.bufferProcessing = st.bufferProcessing
      /\ st'.writecb = st.writecb
  BY <1>2 DEF Fields
<1>4. StateTypes' /\ Calm
  BY <1>0, <1>2, <1>3 DEF StateTypes, CoreTypes, Calm
<1>5. PICK fs \in Seq(Frames) :
        /\ Call(fs)
        /\ \/ Len(fs) = 0
           \/ Len(fs) = 1 /\ fs[1].f = "onwrite" /\ OnTop = "_write"
           \/ Len(fs) = 2 /\ fs[1] \in PlainFrames /\ fs[2] \in PlainFrames
               /\ OnTop = "finishMaybe" /\ needFinish(st)
  <2>0. /\ 0 \in Int /\ <<>> \in Seq(Kinds \cup {"end"}) /\ TRUE \in BOOLEAN /\ FALSE \in BOOLEAN
        /\ Head(stack).n \in Int /\ "onwrite" \in Functions
    BY <1>0, <1>1, TopFrame DEF Functions
  <2>1. CASE ImplWrite
    <3>1. PICK x \in Frames, y \in Frames : /\ x = Fe("onwrite", TRUE) /\ x.f = "onwrite"
                                            /\ y = Fe("onwrite", FALSE) /\ y.f = "onwrite"
      <4>1. Fe("onwrite", TRUE) \in Frames /\ Fe("onwrite", FALSE) \in Frames
        BY <2>0, FrameTypes
      <4> QED
        BY <4>1, FrameNames
    <3>2. OnTop = "_write" /\ (Call(<<>>) \/ Call(<<x>>) \/ Call(<<y>>))
      BY <2>1, <3>1 DEF ImplWrite, Top, OnTop
    <3>3. CASE Call(<<>>)
      BY <3>3, Calls
    <3>4. CASE Call(<<x>>)
      <4>1. PICK fs \in Seq(Frames) : Call(fs) /\ Len(fs) = 1 /\ fs[1] = x
        BY <3>4, Calls
      <4> QED
        BY <3>1, <3>2, <4>1
    <3>5. CASE Call(<<y>>)
      <4>1. PICK fs \in Seq(Frames) : Call(fs) /\ Len(fs) = 1 /\ fs[1] = y
        BY <3>5, Calls
      <4> QED
        BY <3>1, <3>2, <4>1
    <3> QED
      BY <3>2, <3>3, <3>4, <3>5
  <2>2. CASE Unsync
    BY <2>2, Calls DEF Unsync
  <2>3. CASE FinishMaybe
    <3>1. PICK x \in Frames, y \in Frames :
            /\ x = F("prefinish") /\ x \in PlainFrames
            /\ y = Fn("finishMaybeCheck", Head(stack).n) /\ y \in PlainFrames
      <4>1. F("prefinish") \in PlainFrames
                /\ Fn("finishMaybeCheck", Head(stack).n) \in PlainFrames
        BY <2>0, PlainCalls DEF PlainNames
      <4> QED
        BY <4>1 DEF PlainFrames
    <3>2. OnTop = "finishMaybe" /\ (Call(<<>>) \/ (Call(<<x, y>>) /\ needFinish(st)))
      BY <2>3, <3>1 DEF FinishMaybe, Top, OnTop
    <3>3. CASE Call(<<>>)
      BY <3>3, Calls
    <3>4. CASE Call(<<x, y>>) /\ needFinish(st)
      <4>1. PICK fs \in Seq(Frames) : Call(fs) /\ Len(fs) = 2 /\ fs[1] = x /\ fs[2] = y
        BY <3>4, Calls
      <4> QED
        BY <3>1, <3>2, <3>4, <4>1
    <3> QED
      BY <3>2, <3>3, <3>4
  <2> QED
    BY <2>1, <2>2, <2>3
<1>6. Shifted(fs)
  BY <1>1, <1>5, Called
<1>7. CoreTypes'
  BY <1>0, <1>2, <1>4, <1>6, TypesStep DEF Ticked
<1>8. \A i \in 1 .. Len(fs) : /\ fs[i].f \notin Loops \cup Constructing \cup Bottoms
                                  \cup Errors \cup {"clearBuffer", "_write"}
                              /\ fs[i].f \in AtOnce => i = 1
                              /\ FrameOK(fs[i])'
  <2> TAKE i \in 1 .. Len(fs)
  <2>1. CASE fs[i] \in PlainFrames
    BY <2>1, FreeFrame DEF PlainFrames, Special, AtOnce, Careful
  <2>2. CASE i = 1 /\ fs[i].f = "onwrite"
    BY <2>2, FreeFrame DEF Loops, Constructing, Bottoms, AtOnce, Errors, Careful
  <2>3. i = 1 \/ i = 2
    <3>1. Len(fs) = 0 \/ Len(fs) = 1 \/ Len(fs) = 2
      BY <1>5
    <3>2. CASE Len(fs) = 0
      BY <3>2
    <3>3. CASE Len(fs) = 1
      BY <3>3
    <3>4. CASE Len(fs) = 2
      BY <3>4
    <3> QED
      BY <3>1, <3>2, <3>3, <3>4
  <2> QED
    BY <1>5, <2>1, <2>2, <2>3
<1>9. BufferOrdered' /\ AllThere' /\ FramesOK' /\ ConstructOnce' /\ TopOK' /\ PlacesOK'
  <2>1. /\ st'.expectWriteCb => st'.writing
        /\ st'.onFinished # 0 => st'.ending
    BY <1>0, <1>3 DEF TopOK, FramesOK
  <2>2. Len(fs) > 0 => fs[1].f \notin {"clearBuffer", "_write"}
    BY <1>8
  <2>3. /\ \A i \in 1 .. Len(fs) : fs[i].f \notin Constructing /\ FrameOK(fs[i])'
        /\ \A i \in 2 .. Len(fs) : fs[i].f \notin AtOnce
        /\ \A i \in 1 .. Len(fs) : fs[i].f \in Bottoms => i = Len(fs) /\ Len(stack) <= 1
    BY <1>8
  <2>4. (Len(fs) > 0 /\ fs[1].f = "onwrite") => st'.sync /\ st'.expectWriteCb /\ Len(fs) = 1
    <3>1. \A x \in PlainFrames : x.f # "onwrite"
      BY DEF PlainFrames, Special, AtOnce
    <3> QED
      BY <1>0, <1>1, <1>2, <1>5, <3>1 DEF TopOK
  <2>5. /\ Len(fs) > 0 => /\ fs[1].f = "clearBuffer" => ~st'.writing
                              /\ (st'.destroyed \/ st'.failed = <<>>)
                          /\ fs[1].f = "_write" => st'.sync /\ st'.expectWriteCb
                          /\ fs[1].f = "onwrite" => stack = <<>>
                              \/ (st'.sync /\ st'.expectWriteCb)
        /\ Len(fs) <= 1 \/ fs[1].f # "onwrite"
    <3>1. Len(fs) \in Nat
      BY <1>5
    <3>2. ASSUME Len(fs) > 1 PROVE fs[1].f # "onwrite"
      <4>1. \A x \in PlainFrames : x.f # "onwrite"
        BY DEF PlainFrames, Special, AtOnce
      <4>2. ~(Len(fs) = 0) /\ ~(Len(fs) = 1)
        <5>1. \A n \in Nat : n > 1 => ~(n = 0) /\ ~(n = 1)
          OBVIOUS
        <5> QED
          BY <3>1, <3>2, <5>1
      <4> QED
        BY <1>5, <4>1, <4>2
    <3> QED
      BY <2>2, <2>4, <3>1, <3>2
  <2> QED
    BY <1>2, <1>3, <1>4, <1>6, <2>1, <2>3, <2>5, CalmStep
<1>10. LoopsOK'
  <2>1. OnTop \notin Loops
    BY <1>1 DEF Loops
  <2>2. needFinish(st) => NoLoop
    <3>1. \A i \in 2 .. Len(stack) : i \in DOMAIN stack
      BY <1>0 DEF CoreTypes
    <3> QED
      BY <1>0, <3>1 DEF needFinish, NoLoop, LoopsOK, LoopOK
  <2>3. \A i \in 1 .. Len(fs) : fs[i].f \notin Loops \cup {"errorLoop"}
    BY <1>8 DEF Errors
  <2>4. \/ Len(fs) = 0
        \/ Len(fs) = 1 /\ OnTop \in Inner /\ fs[1].f \in Inner
        \/ NoLoop
    BY <1>5, <2>2 DEF Inner
  <2> QED
    BY <1>0, <1>1, <1>2, <1>3, <1>6, <2>1, <2>3, <2>4, LoopsShift
<1>11. ErrorsOK'
  BY <1>0, <1>1, <1>3, <1>6, <1>8, ErrorsStep
<1>12. Waiting'
  BY <1>0, <1>1, <1>2, <1>3, WaitingStep
<1> QED
  BY <1>7, <1>9, <1>10, <1>11, <1>12 DEF SinkInv

-----------------------------------------------------------------------------
(***************************************************************************)
(* The functions that move chunks                                          *)
(***************************************************************************)

\* Functions that run user code next to nothing: onwrite() after a _write that
\* called back at once, and onwrite() itself.
LEMMA OnwriteSyncAction ==
  ASSUME SinkInv, OnwriteSync PROVE SinkInv'
<1>0. /\ CoreTypes /\ FramesOK /\ PlacesOK /\ TopOK /\ LoopsOK /\ ErrorsOK /\ Waiting
      /\ BufferOrdered
  BY DEF SinkInv
<1>1. OnTop = "onwriteSync" /\ stack # <<>> /\ Top("onwriteSync")
  BY DEF OnwriteSync, Top, OnTop
<1>2. /\ UNCHANGED <<buffer, given, sunk>> /\ ("construct" \in io' <=> "construct" \in io)
      /\ DOMAIN st' = Fields

      /\ \A x \in Fields \ {"pendingcb", "afterWritePending", "afterWriteTickInfo"} :
          st'[x] = st[x]
  BY <1>0 DEF OnwriteSync, history, CoreTypes, Fields
<1>3. /\ st'.ending = st.ending /\ st'.errored = st.errored /\ st'.destroyed = st.destroyed
      /\ st'.buffered = st.buffered /\ st'.failed = st.failed /\ st'.writing = st.writing
      /\ st'.expectWriteCb = st.expectWriteCb /\ st'.onFinished = st.onFinished
      /\ st'.constructed = st.constructed /\ st'.finished = st.finished
      /\ st'.corked = st.corked /\ st'.bufferProcessing = st.bufferProcessing
      /\ st'.writecb = st.writecb /\ st'.sync = st.sync
  BY <1>2 DEF Fields
<1>4. StateTypes' /\ Calm
  BY <1>0, <1>2, <1>3 DEF StateTypes, CoreTypes, Calm
<1>5. Ticked
  <2> DEFINE cb == Head(stack).cb
  <2>1. cb \in Seq(Kinds \cup {"end"}) /\ 1 \in Int /\ TRUE \in BOOLEAN
    BY <1>0, <1>1, TopFrame
  <2>2. PICK x \in Frames, y \in Frames :
          /\ x = Fnc("afterWrite", 1, cb) /\ x.f \notin Direct \cup Constructing \cup Careful
          /\ y = Fnc("afterWriteTick", 1, cb) /\ y.f \notin Direct \cup Constructing \cup Careful
    <3>1. "afterWrite" \in Functions /\ "afterWriteTick" \in Functions
      BY DEF Functions
    <3>2. Fnc("afterWrite", 1, cb) \in Frames /\ Fnc("afterWriteTick", 1, cb) \in Frames
      BY <2>1, <3>1, FrameTypes
    <3> QED
      BY <3>2, FrameNames DEF Direct, AtOnce, Loops, Constructing, Careful, Errors
  <2>3. ticks' = ticks \/ Tick(x) \/ Tick(y) \/ ticks' = [ticks EXCEPT ![InfoTick].n = @ + 1]
    BY <2>2 DEF OnwriteSync
  <2>4. CASE ticks' = ticks
    BY <1>0, <2>4, TickNone
  <2>5. CASE Tick(x)
    BY <1>0, <2>2, <2>5, TickOne, FreeFrame
  <2>6. CASE Tick(y)
    BY <1>0, <2>2, <2>6, TickOne, FreeFrame
  <2>7. CASE ticks' = [ticks EXCEPT ![InfoTick].n = @ + 1]
    <3> DEFINE k == InfoTick
    <3> HIDE DEF k
    <3>1. ticks' = [ticks EXCEPT ![k] = [ticks[k] EXCEPT !.n = @ + 1]]
      BY <2>7 DEF k
    <3>2. ticks \in Seq(Frames)
      BY <1>0 DEF CoreTypes
    <3>3. \A i \in DOMAIN ticks : /\ [ticks[i] EXCEPT !.n = @ + 1] \in Frames
                                  /\ [ticks[i] EXCEPT !.n = @ + 1].f = ticks[i].f
      <4> TAKE i \in DOMAIN ticks
      <4>1. ticks[i] \in Frames
        BY <3>2
      <4> QED
        BY <4>1 DEF Frames
    <3>4. /\ DOMAIN ticks' = DOMAIN ticks
          /\ \A i \in DOMAIN ticks : ticks'[i] \in Frames /\ ticks'[i].f = ticks[i].f
      BY <3>1, <3>2, <3>3
    <3>5. ticks' \in Seq(Frames)
      <4>1. DOMAIN ticks' = 1 .. Len(ticks) /\ Len(ticks) \in Nat
        BY <3>2, <3>4
      <4>2. ticks' = [i \in 1 .. Len(ticks) |-> ticks'[i]]
        BY <3>1, <4>1
      <4>3. \A i \in 1 .. Len(ticks) : ticks'[i] \in Frames
        BY <3>4, <4>1
      <4> QED
        BY <4>1, <4>2, <4>3, SeqDef
    <3> QED
      BY <3>4, <3>5 DEF Ticked
  <2> QED
    BY <2>3, <2>4, <2>5, <2>6, <2>7
<1>6. PICK fs \in Seq(Frames) :
        Call(fs) /\ (Len(fs) = 0 \/ (Len(fs) = 1 /\ fs[1].f = "finishMaybe"))
  <2>1. Fn("finishMaybe", 1) \in Frames /\ Fn("finishMaybe", 1).f = "finishMaybe"
    <3>1. "finishMaybe" \in Functions /\ 1 \in Int /\ <<>> \in Seq(Kinds \cup {"end"})
              /\ TRUE \in BOOLEAN
      BY DEF Functions
    <3> QED
      BY <3>1, FrameTypes, FrameNames
  <2>2. PICK x \in Frames : x = Fn("finishMaybe", 1) /\ x.f = "finishMaybe"
    BY <2>1
  <2>3. Call(<<>>) \/ Call(<<x>>)
    BY <2>2 DEF OnwriteSync
  <2>4. CASE Call(<<>>)
    BY <2>4, Calls
  <2>5. CASE Call(<<x>>)
    <3>1. PICK fs \in Seq(Frames) : Call(fs) /\ Len(fs) = 1 /\ fs[1] = x
      BY <2>5, Calls
    <3> QED
      BY <2>2, <3>1
  <2> QED
    BY <2>3, <2>4, <2>5
<1>7. Shifted(fs)
  BY <1>1, <1>6, Called
<1>8. CoreTypes'
  BY <1>0, <1>2, <1>4, <1>5, <1>7, TypesStep DEF Ticked
<1>9. \A i \in 1 .. Len(fs) : i = 1 /\ fs[i].f = "finishMaybe" /\ FrameOK(fs[i])'
  <2>1. \A i \in 1 .. Len(fs) : i = 1 /\ fs[i].f = "finishMaybe"
    <3>1. CASE Len(fs) = 0
      BY <3>1
    <3>2. CASE Len(fs) = 1 /\ fs[1].f = "finishMaybe"
      BY <3>2
    <3> QED
      BY <1>6, <3>1, <3>2
  <2> QED
    BY <2>1, FreeFrame DEF Careful, Errors, Constructing
<1>10. \A i \in 1 .. Len(fs) : fs[i].f \notin Loops \cup Constructing \cup Bottoms
           \cup Errors \cup AtOnce
  BY <1>9 DEF Loops, Constructing, Bottoms, Errors, AtOnce
<1>11. BufferOrdered' /\ AllThere' /\ FramesOK' /\ ConstructOnce' /\ TopOK' /\ PlacesOK'
  <2>1. /\ st'.expectWriteCb => st'.writing
        /\ st'.onFinished # 0 => st'.ending
    BY <1>0, <1>3 DEF TopOK, FramesOK
  <2>2. Len(fs) > 0 => fs[1].f = "finishMaybe"
    BY <1>6
  <2>3. /\ Len(fs) > 0 => /\ fs[1].f = "clearBuffer" => ~st'.writing
                              /\ (st'.destroyed \/ st'.failed = <<>>)
                          /\ fs[1].f = "_write" => st'.sync /\ st'.expectWriteCb
                          /\ fs[1].f = "onwrite" => stack = <<>>
                              \/ (st'.sync /\ st'.expectWriteCb)
        /\ Len(fs) <= 1 \/ fs[1].f # "onwrite"
    BY <1>6, <2>2
  <2>4. /\ \A i \in 1 .. Len(fs) : fs[i].f \notin Constructing /\ FrameOK(fs[i])'
        /\ \A i \in 2 .. Len(fs) : fs[i].f \notin AtOnce
        /\ \A i \in 1 .. Len(fs) : fs[i].f \in Bottoms => i = Len(fs) /\ Len(stack) <= 1
    BY <1>6, <1>9, <1>10
  <2> QED
    BY <1>2, <1>3, <1>4, <1>5, <1>7, <2>1, <2>3, <2>4, CalmStep
<1>12. LoopsOK'
  <2>1. \A i \in 1 .. Len(fs) : fs[i].f \notin Loops \cup {"errorLoop"}
    BY <1>10 DEF Errors
  <2>2. OnTop \notin Loops
    BY <1>1 DEF Loops
  <2>3. \/ Len(fs) = 0
        \/ Len(fs) = 1 /\ OnTop \in Inner /\ fs[1].f \in Inner
    BY <1>1, <1>6 DEF Inner
  <2> QED
    BY <1>0, <1>1, <1>2, <1>3, <1>7, <2>1, <2>2, <2>3, LoopsShift
<1>13. ErrorsOK'
  BY <1>0, <1>1, <1>3, <1>7, <1>10, ErrorsStep
<1>14. Waiting'
  BY <1>0, <1>1, <1>2, <1>3, WaitingStep
<1> QED
  BY <1>8, <1>11, <1>12, <1>13, <1>14 DEF SinkInv

\* onwrite(): the callback of _write or _writev, called at once, late or twice.
LEMMA OnwriteAction ==
  ASSUME SinkInv, Onwrite PROVE SinkInv'
<1>0. /\ CoreTypes /\ FramesOK /\ PlacesOK /\ TopOK /\ LoopsOK /\ ErrorsOK /\ Waiting
      /\ BufferOrdered
  BY DEF SinkInv
<1>1. OnTop = "onwrite" /\ stack # <<>> /\ Top("onwrite")
  BY DEF Onwrite, Top, OnTop
<1>2. /\ UNCHANGED <<buffer, given, sunk>> /\ ("construct" \in io' <=> "construct" \in io)
      /\ DOMAIN st' = Fields

      /\ \A x \in Fields \ {"writecb", "writing", "expectWriteCb", "length", "writelen",
          "errored"} :
           st'[x] = st[x]
  BY <1>0 DEF Onwrite, history, CoreTypes, Fields
<1>3. /\ st'.ending = st.ending /\ st'.destroyed = st.destroyed
      /\ st'.buffered = st.buffered /\ st'.failed = st.failed
      /\ st'.onFinished = st.onFinished
      /\ st'.constructed = st.constructed /\ st'.finished = st.finished
      /\ st'.corked = st.corked /\ st'.bufferProcessing = st.bufferProcessing
      /\ st'.sync = st.sync
  BY <1>2 DEF Fields
<1>4. \/ ~st.expectWriteCb /\ st' = st
      \/ /\ st.expectWriteCb /\ ~st'.writing /\ ~st'.expectWriteCb /\ st'.writecb = <<>>
         /\ st'.writing = FALSE /\ st'.expectWriteCb = FALSE
         /\ st'.errored = st.errored \/ st'.errored = TRUE
  BY <1>0 DEF Onwrite, CoreTypes, Fields
<1>5. StateTypes' /\ Calm
  <2>1. CASE ~st.expectWriteCb /\ st' = st
    BY <1>0, <1>2, <2>1 DEF StateTypes, CoreTypes, Calm
  <2>2. CASE /\ st'.writing = FALSE /\ st'.expectWriteCb = FALSE /\ st'.writecb = <<>>
             /\ st'.errored = st.errored \/ st'.errored = TRUE
    <3>1. st'.errored \in BOOLEAN /\ (st.errored => st'.errored)
      <4>1. st.errored \in BOOLEAN
        BY <1>0 DEF CoreTypes
      <4>2. CASE st'.errored = st.errored
        BY <4>1, <4>2
      <4>3. CASE st'.errored = TRUE
        BY <4>3
      <4> QED
        BY <2>2, <4>2, <4>3
    <3>2. StateTypes'
      <4>1. <<>> \in Seq(Kinds)
        OBVIOUS
      <4> QED
        BY <1>0, <1>2, <1>3, <2>2, <3>1, <4>1 DEF StateTypes, CoreTypes
    <3> QED
      BY <1>2, <1>3, <2>2, <3>1, <3>2 DEF Calm
  <2> QED
    BY <1>4, <2>1, <2>2
<1>6. /\ st'.expectWriteCb => st'.writing
      /\ st'.onFinished # 0 => st'.ending
      /\ st.expectWriteCb => st.writing /\ st.constructed /\ st.failed = <<>>
      /\ ~(st.sync /\ st.expectWriteCb) => Len(stack) = 1
  BY <1>0, <1>1, <1>3, <1>4 DEF TopOK, FramesOK
<1> DEFINE cb == st.writecb
<1>7. cb \in Seq(Kinds \cup {"end"}) /\ 0 \in Int /\ 1 \in Int /\ TRUE \in BOOLEAN
      /\ <<>> \in Seq(Kinds \cup {"end"})
  BY <1>0 DEF CoreTypes
<1>8. PICK x \in Frames, e \in Frames, b \in Frames, w \in Frames, a \in Frames :
        /\ x = Fn("errorOrDestroy", 0) /\ x.f = "errorOrDestroy"
        /\ e = Fnc("onwriteError", 0, cb) /\ e.f = "onwriteError"
        /\ b = F("clearBuffer") /\ b.f = "clearBuffer"
        /\ w = Fnc("onwriteSync", 0, cb) /\ w.f = "onwriteSync"
        /\ a = Fnc("afterWrite", 1, cb) /\ a.f = "afterWrite"
  <2>1. /\ "errorOrDestroy" \in Functions /\ "onwriteError" \in Functions
        /\ "clearBuffer" \in Functions
        /\ "onwriteSync" \in Functions /\ "afterWrite" \in Functions
    BY DEF Functions
  <2> HIDE DEF cb
  <2>2. /\ Fn("errorOrDestroy", 0) \in Frames /\ Fnc("onwriteError", 0, cb) \in Frames
        /\ F("clearBuffer") \in Frames /\ Fnc("onwriteSync", 0, cb) \in Frames
        /\ Fnc("afterWrite", 1, cb) \in Frames
    BY <1>7, <2>1, FrameTypes
  <2> QED
    BY <2>2, FrameNames
<1>9. Ticked /\ \E fs \in Seq(Frames) :
        /\ Call(fs)
        /\ \/ Len(fs) = 1 /\ fs[1].f = "errorOrDestroy" /\ ~st.expectWriteCb
           \/ Len(fs) = 0 /\ st.expectWriteCb /\ st'.errored
           \/ Len(fs) = 1 /\ fs[1].f = "onwriteError" /\ st.expectWriteCb /\ st'.errored
               /\ Len(stack) = 1
           \/ Len(fs) = 2 /\ fs[1].f = "clearBuffer" /\ fs[2].f = "onwriteSync"
               /\ st.expectWriteCb
           \/ /\ Len(fs) = 2 /\ fs[1].f = "clearBuffer" /\ fs[2].f = "afterWrite"
                  /\ st.expectWriteCb
              /\ Len(stack) = 1
  <2>1. \/ Call(<<x>>) /\ ticks' = ticks /\ ~st.expectWriteCb
        \/ Tick(e) /\ Call(<<>>) /\ st.expectWriteCb /\ st'.errored
        \/ Call(<<e>>) /\ ticks' = ticks /\ st.expectWriteCb /\ st'.errored /\ ~st.sync
        \/ Call(<<b, w>>) /\ ticks' = ticks /\ st.expectWriteCb
        \/ Call(<<b, a>>) /\ ticks' = ticks /\ st.expectWriteCb /\ ~st.sync
    <3>1. CASE ~st.expectWriteCb
      BY <1>8, <3>1 DEF Onwrite
    <3>2. CASE st.expectWriteCb /\ Head(stack).er
      <4>1. st'.errored
        BY <1>0, <3>2 DEF Onwrite, CoreTypes, Fields
      <4> QED
        BY <1>8, <3>2, <4>1 DEF Onwrite
    <3>3. CASE st.expectWriteCb /\ ~Head(stack).er
      BY <1>8, <3>3 DEF Onwrite
    <3> QED
      BY <3>1, <3>2, <3>3
  <2>2. CASE Call(<<x>>) /\ ticks' = ticks /\ ~st.expectWriteCb
    <3>1. PICK fs \in Seq(Frames) : Call(fs) /\ Len(fs) = 1 /\ fs[1] = x
      BY <2>2, Calls
    <3> QED
      BY <1>0, <1>8, <2>2, <3>1, TickNone
  <2>3. CASE Tick(e) /\ Call(<<>>) /\ st.expectWriteCb /\ st'.errored
    <3>1. PICK fs \in Seq(Frames) : Call(fs) /\ Len(fs) = 0
      BY <2>3, Calls
    <3>2. FrameOK(e)'
      BY <1>3, <1>6, <1>8, <2>3 DEF FrameOK, Dead, Constructing
    <3>3. Ticked
      BY <1>0, <1>8, <2>3, <3>2, TickOne DEF Direct, AtOnce, Loops, Constructing
    <3> QED
      BY <2>3, <3>1, <3>3
  <2>4. CASE Call(<<e>>) /\ ticks' = ticks /\ st.expectWriteCb /\ st'.errored /\ ~st.sync
    <3>1. PICK fs \in Seq(Frames) : Call(fs) /\ Len(fs) = 1 /\ fs[1] = e
      BY <2>4, Calls
    <3> QED
      BY <1>0, <1>6, <1>8, <2>4, <3>1, TickNone
  <2>5. CASE Call(<<b, w>>) /\ ticks' = ticks /\ st.expectWriteCb
    <3>1. PICK fs \in Seq(Frames) : Call(fs) /\ Len(fs) = 2 /\ fs[1] = b /\ fs[2] = w
      BY <2>5, Calls
    <3> QED
      BY <1>0, <1>8, <2>5, <3>1, TickNone
  <2>6. CASE Call(<<b, a>>) /\ ticks' = ticks /\ st.expectWriteCb /\ ~st.sync
    <3>1. PICK fs \in Seq(Frames) : Call(fs) /\ Len(fs) = 2 /\ fs[1] = b /\ fs[2] = a
      BY <2>6, Calls
    <3> QED
      BY <1>0, <1>6, <1>8, <2>6, <3>1, TickNone
  <2> QED
    BY <2>1, <2>2, <2>3, <2>4, <2>5, <2>6
<1> HIDE DEF cb
<1>10. PICK fs \in Seq(Frames) :
        /\ Call(fs)
        /\ \/ Len(fs) = 1 /\ fs[1].f = "errorOrDestroy" /\ ~st.expectWriteCb
           \/ Len(fs) = 0 /\ st.expectWriteCb /\ st'.errored
           \/ Len(fs) = 1 /\ fs[1].f = "onwriteError" /\ st.expectWriteCb /\ st'.errored
               /\ Len(stack) = 1
           \/ Len(fs) = 2 /\ fs[1].f = "clearBuffer" /\ fs[2].f = "onwriteSync"
               /\ st.expectWriteCb
           \/ /\ Len(fs) = 2 /\ fs[1].f = "clearBuffer" /\ fs[2].f = "afterWrite"
                  /\ st.expectWriteCb
              /\ Len(stack) = 1
  BY <1>9
<1>11. Shifted(fs)
  BY <1>1, <1>10, Called
<1>12. CoreTypes'
  BY <1>0, <1>2, <1>5, <1>9, <1>11, TypesStep DEF Ticked
<1>13. \A i \in 1 .. Len(fs) :
         \/ i = 1 /\ fs[i].f = "errorOrDestroy"
         \/ i = 1 /\ fs[i].f = "onwriteError" /\ st.expectWriteCb /\ st'.errored
             /\ Len(stack) = 1 /\ Len(fs) = 1
         \/ i = 1 /\ fs[i].f = "clearBuffer" /\ st.expectWriteCb /\ Len(fs) = 2
         \/ i = 2 /\ fs[i].f = "onwriteSync"
         \/ i = 2 /\ fs[i].f = "afterWrite" /\ Len(stack) = 1 /\ Len(fs) = 2
  <2> TAKE i \in 1 .. Len(fs)
  <2>1. CASE Len(fs) = 0
    BY <2>1
  <2>2. CASE Len(fs) = 1
    <3>1. i = 1
      BY <2>2
    <3> QED
      BY <1>10, <2>2, <3>1
  <2>3. CASE Len(fs) = 2
    <3>1. i = 1 \/ i = 2
      BY <2>3
    <3> QED
      BY <1>10, <2>3, <3>1
  <2> QED
    BY <1>10, <2>1, <2>2, <2>3
<1>14. \A i \in 1 .. Len(fs) : FrameOK(fs[i])'
  <2> TAKE i \in 1 .. Len(fs)
  <2>1. CASE fs[i].f = "onwriteError" /\ st.expectWriteCb /\ st'.errored
    BY <1>3, <1>6, <2>1 DEF FrameOK, Dead, Constructing
  <2>2. CASE fs[i].f \in {"errorOrDestroy", "clearBuffer", "onwriteSync", "afterWrite"}
    BY <2>2, FreeFrame DEF Careful, Errors, Constructing
  <2> QED
    BY <1>13, <2>1, <2>2
<1>15. /\ \A i \in 1 .. Len(fs) : fs[i].f \notin Constructing
       /\ \A i \in 2 .. Len(fs) : fs[i].f \notin AtOnce
       /\ \A i \in 1 .. Len(fs) : fs[i].f \in Bottoms => i = Len(fs) /\ Len(stack) <= 1
       /\ \A i \in 1 .. Len(fs) : fs[i].f \notin Loops \cup {"errorLoop"}
       /\ \A i \in 1 .. Len(fs) : fs[i].f \in Errors => Len(stack) = 1 /\ Len(fs) = 1
           /\ fs[i].f = "onwriteError"
  <2>1. \A i \in 1 .. Len(fs) : fs[i].f \notin Constructing
            /\ fs[i].f \notin Loops \cup {"errorLoop"}
    BY <1>13 DEF Constructing, Loops
  <2>2. \A i \in 1 .. Len(fs) : fs[i].f \in Bottoms => i = Len(fs) /\ Len(stack) <= 1
    <3> SUFFICES ASSUME NEW i \in 1 .. Len(fs), fs[i].f \in Bottoms
                 PROVE  i = Len(fs) /\ Len(stack) = 1
      OBVIOUS
    <3> QED
      BY <1>13 DEF Bottoms
  <2>3. \A i \in 1 .. Len(fs) : fs[i].f \in Errors => Len(stack) = 1 /\ Len(fs) = 1
            /\ fs[i].f = "onwriteError"
    BY <1>13 DEF Errors
  <2>4. \A i \in 1 .. Len(fs) : fs[i].f \in AtOnce => i = 1
    BY <1>13 DEF AtOnce
  <2>5. \A i \in 2 .. Len(fs) : i \in 1 .. Len(fs) /\ i # 1
    BY <1>10
  <2> QED
    BY <2>1, <2>2, <2>3, <2>4, <2>5
<1>16. BufferOrdered' /\ AllThere' /\ FramesOK' /\ ConstructOnce' /\ TopOK' /\ PlacesOK'
  <2>1. /\ Len(fs) > 0 => /\ fs[1].f = "clearBuffer" => ~st'.writing
                              /\ (st'.destroyed \/ st'.failed = <<>>)
                          /\ fs[1].f = "_write" => st'.sync /\ st'.expectWriteCb
                          /\ fs[1].f = "onwrite" => stack = <<>>
                              \/ (st'.sync /\ st'.expectWriteCb)
        /\ Len(fs) <= 1 \/ fs[1].f # "onwrite"
    <3>1. CASE Len(fs) = 0
      BY <3>1
    <3>2. CASE Len(fs) # 0
      <4>1. 1 \in 1 .. Len(fs)
        BY <1>10, <3>2
      <4>2. fs[1].f \notin {"_write", "onwrite"} /\ (fs[1].f = "clearBuffer" => st.expectWriteCb)
        BY <1>13, <4>1
      <4> QED
        BY <1>3, <1>4, <1>6, <4>2
    <3> QED
      BY <3>1, <3>2
  <2>2. st'.finished = st.finished \/ Drained
    BY <1>3
  <2> QED
    BY <1>2, <1>5, <1>6, <1>9, <1>11, <1>14, <1>15, <2>1, <2>2, CalmStep
<1>17. LoopsOK'
  <2>1. OnTop \notin Loops
    BY <1>1 DEF Loops
  <2>2. \/ Len(fs) = 0
        \/ Len(fs) = 2 /\ OnTop \in Inner /\ fs[1].f = "clearBuffer" /\ fs[2].f = "onwriteSync"
        \/ NoLoop
    <3>1. Len(stack) = 1 => NoLoop
      BY DEF NoLoop
    <3> QED
      BY <1>1, <1>6, <1>10, <3>1 DEF Inner
  <2> QED
    BY <1>0, <1>1, <1>2, <1>3, <1>11, <1>15, <2>1, <2>2, LoopsShift
<1>18. ErrorsOK'
  <2>1. CASE \A i \in 1 .. Len(fs) : fs[i].f \notin Errors
    BY <1>0, <1>1, <1>3, <1>11, <2>1, ErrorsStep
  <2>2. CASE ~(\A i \in 1 .. Len(fs) : fs[i].f \notin Errors)
    <3>1. Len(stack) = 1 /\ Len(fs) = 1 /\ fs[1].f = "onwriteError"
      BY <1>15, <2>2
    <3>2. DOMAIN stack' = 1 .. 1 /\ stack'[1] = fs[1]
      BY <1>0, <1>1, <1>11, <3>1, Shift
    <3> QED
      BY <3>1, <3>2 DEF ErrorsOK
  <2> QED
    BY <2>1, <2>2
<1>19. Waiting'
  <2>1. CASE ~st.expectWriteCb
    <3>1. st' = st /\ buffer' = buffer
      BY <1>2, <1>4, <2>1
    <3> QED
      BY <1>0, <1>1, <3>1, WaitingStep
  <2>2. CASE st'.errored
    BY <2>2 DEF Waiting
  <2>3. CASE Len(fs) = 2 /\ fs[1].f = "clearBuffer"
    <3>1. stack' # <<>> /\ Head(stack') = fs[1]
      <4>1. Len(stack') # 0 /\ 1 \in 1 .. Len(stack') /\ 1 <= Len(fs)
        BY <1>0, <1>1, <1>11, <2>3, Shift
      <4>2. stack' # <<>> /\ stack'[1] = fs[1]
        BY <1>0, <1>11, <4>1, Shift
      <4> QED
        BY <1>0, <1>11, <4>2, Shift
    <3> QED
      BY <2>3, <3>1 DEF Waiting
  <2> QED
    BY <1>10, <2>1, <2>2, <2>3
<1> QED
  BY <1>12, <1>16, <1>17, <1>18, <1>19 DEF SinkInv

(***************************************************************************)
(* Steps that move chunks                                                  *)
(***************************************************************************)

\* What every such step has to show about the frames that stay.
LEMMA MoveStep ==
  ASSUME SinkInv, NEW fs, Shifted(fs), Ticked, st'.constructed = st.constructed,
         \A i \in 2 .. Len(stack) : \A fr : fr = stack[i] /\ FrameOK(fr) => FrameOK(fr)',
         \A fr : fr.f \notin Direct /\ FrameOK(fr) => FrameOK(fr)',
         \A i \in 1 .. Len(fs) : fs[i].f \notin Constructing /\ FrameOK(fs[i])',
         "construct" \in io' <=> "construct" \in io,
         st'.finished => Drained',
         st'.onFinished # 0 => st'.ending,
         \A i \in 2 .. Len(fs) : fs[i].f \notin AtOnce,
         Len(fs) > 0 =>
           /\ fs[1].f \notin {"clearBuffer", "onwrite"}
           /\ fs[1].f = "_write" => st'.sync /\ st'.expectWriteCb,
         \A i \in 1 .. Len(fs) : fs[i].f \notin Bottoms,
         st'.expectWriteCb => st'.writing,
         st'.writing => st'.constructed,
         st'.failed # <<>> => Dead' /\ ~st'.writing
  PROVE  FramesOK' /\ ConstructOnce' /\ TopOK' /\ PlacesOK'
<1>1. CoreTypes /\ FramesOK /\ ConstructOnce /\ TopOK /\ PlacesOK /\ Len(fs) \in Nat
  BY DEF SinkInv, Shifted
<1>2. \A i \in DOMAIN ticks' : \E fr : fr = ticks'[i] /\ FrameOK(fr)'
  <2> TAKE i \in DOMAIN ticks'
  <2>1. CASE i \in DOMAIN ticks /\ ticks'[i].f = ticks[i].f
    <3>1. FrameOK(ticks[i]) /\ ticks[i].f \notin Direct
      BY <1>1, <2>1 DEF FramesOK, PlacesOK
    <3>2. PICK fr : fr = ticks'[i]
      OBVIOUS
    <3>3. FrameOK(fr) /\ fr.f \notin Direct
      BY <2>1, <3>1, <3>2 DEF FrameOK, Direct
    <3> QED
      BY <3>2, <3>3
  <2> QED
    BY <2>1 DEF Ticked
<1>3. FramesOK'
  <2>1. "construct" \in io' => ~st'.constructed
    BY <1>1 DEF FramesOK
  <2> QED
    BY <1>1, <1>2, <2>1, FramesStep
<1>4. ConstructOnce'
  <2>1. \A i \in DOMAIN ticks' : IF i \in DOMAIN ticks THEN ticks'[i].f = ticks[i].f
                                 ELSE ticks'[i].f \notin Constructing
    BY DEF Ticked
  <2> QED
    BY <1>1, <2>1, ConstructStep DEF Ticked
<1>5. TopOK'
  <2>1. /\ Len(fs) > 0 => /\ fs[1].f = "clearBuffer" => ~st'.writing
                              /\ (st'.destroyed \/ st'.failed = <<>>)
                          /\ fs[1].f = "_write" => st'.sync /\ st'.expectWriteCb
                          /\ fs[1].f = "onwrite" => stack = <<>>
                              \/ (st'.sync /\ st'.expectWriteCb)
        /\ Len(fs) <= 1 \/ fs[1].f # "onwrite"
    <3>1. Len(fs) > 0 \/ Len(fs) <= 1
      BY <1>1
    <3> QED
      BY <3>1
  <2> QED
    BY <1>1, <2>1, TopStep
<1>6. PlacesOK'
  <2>1. \A i \in DOMAIN ticks' : ticks'[i].f \notin Direct
    BY <1>1 DEF Ticked, PlacesOK
  <2> QED
    BY <1>1, <2>1, PlacesStep
<1> QED
  BY <1>3, <1>4, <1>5, <1>6

\* The chunks that are queued, and those behind the first.
LEMMA BufferTail ==
  ASSUME CoreTypes, BufferOrdered, buffer # <<>>
  PROVE  /\ Tail(buffer) \in Seq(Nat) /\ Len(Tail(buffer)) = Len(buffer) - 1
         /\ Len(buffer) \in Nat
         /\ Len(buffer) >= 1 /\ DOMAIN Tail(buffer) = 1 .. Len(buffer) - 1 /\ 1 \in DOMAIN buffer
         /\ Head(buffer) = buffer[1] /\ buffer[1] \in 1 .. Len(given)
         /\ SubSeq(buffer, 2, Len(buffer)) = Tail(buffer)
         /\ SubSeq(buffer, 1, 1) = <<buffer[1]>>
         /\ \A i \in DOMAIN Tail(buffer) : /\ i + 1 \in DOMAIN buffer
                                               /\ Tail(buffer)[i] = buffer[i + 1]
                                           /\ buffer[1] < Tail(buffer)[i]
<1>1. buffer \in Seq(Nat) /\ given \in Seq(Kinds)
  BY DEF CoreTypes
<1>2. /\ Tail(buffer) \in Seq(Nat) /\ Len(Tail(buffer)) = Len(buffer) - 1 /\ Len(buffer) \in Nat
      /\ Len(buffer) >= 1 /\ DOMAIN Tail(buffer) = 1 .. Len(buffer) - 1
      /\ 1 \in DOMAIN buffer /\ Head(buffer) = buffer[1] /\ DOMAIN buffer = 1 .. Len(buffer)
      /\ \A i \in 1 .. Len(buffer) - 1 : Tail(buffer)[i] = buffer[i + 1]
  BY <1>1
<1>3. \A i \in 1 .. Len(buffer) - 1 : i + 1 \in DOMAIN buffer /\ 1 < i + 1
  BY <1>2
<1>4. SubSeq(buffer, 2, Len(buffer)) = Tail(buffer)
  <2> DEFINE s == SubSeq(buffer, 2, Len(buffer))
  <2>1. s \in Seq(Nat) /\ Len(s) = Len(buffer) - 1
        /\ \A i \in 1 .. Len(buffer) - 1 : s[i] = buffer[i + 1]
    BY <1>1, <1>2
  <2> HIDE DEF s
  <2>2. s = Tail(buffer)
    BY <1>2, <2>1, SeqEqual
  <2> QED
    BY <2>2 DEF s
<1>5. SubSeq(buffer, 1, 1) = <<buffer[1]>>
  <2> DEFINE s == SubSeq(buffer, 1, 1)  t == <<buffer[1]>>
  <2>1. s \in Seq(Nat) /\ Len(s) = 1 /\ s[1] = buffer[1]
    BY <1>1, <1>2
  <2>2. t \in Seq(Nat) /\ Len(t) = 1 /\ t[1] = buffer[1]
    BY <1>1, <1>2
  <2> HIDE DEF s, t
  <2>3. \A i \in 1 .. 1 : s[i] = t[i]
    BY <2>1, <2>2
  <2>4. s = t
    BY <2>1, <2>2, <2>3, SeqEqual
  <2> QED
    BY <2>4 DEF s, t
<1>6. buffer[1] \in 1 .. Len(given)
  BY <1>1, <1>2 DEF BufferOrdered
<1>7. \A i \in DOMAIN Tail(buffer) : buffer[1] < Tail(buffer)[i]
  BY <1>2, <1>3 DEF BufferOrdered
<1> QED
  BY <1>2, <1>3, <1>4, <1>5, <1>6, <1>7

\* errorBuffer() fails one chunk after the other: the oldest one.
LEMMA ErrorLoopDrops ==
  ASSUME SinkInv, ErrorLoop, buffer # <<>>
  PROVE  /\ buffer' = Tail(buffer) /\ sunk' = sunk /\ given' = given /\ ticks' = ticks
         /\ st' = [st EXCEPT !.length = @ - 1, !.failed = @ \o <<buffer[1]>>]
         /\ Call(<<Fc(Single(given[buffer[1]]), TRUE), Fn("errorLoop", buffer[1])>>)
         /\ Dead /\ ~st.writing /\ io' = io
<1>0. CoreTypes /\ FramesOK /\ BufferOrdered
  BY DEF SinkInv
<1>1. Top("errorLoop") /\ stack # <<>> /\ Head(stack).f = "errorLoop"
  BY DEF ErrorLoop, Top
<1>2. FrameOK(Head(stack))
  BY <1>0, <1>1, TopRelies
<1>3. Dead /\ ~st.writing /\ \A i \in DOMAIN buffer : Head(stack).n < buffer[i]
  BY <1>1, <1>2 DEF FrameOK
<1> DEFINE todo == {i \in DOMAIN buffer : buffer[i] > Head(stack).n}
           i == CHOOSE i \in todo : \A j \in todo : i <= j
<1>4. todo = DOMAIN buffer
  <2>1. Head(stack).n \in Int /\ \A j \in DOMAIN buffer : buffer[j] \in Nat
    BY <1>0, <1>1, TopFrame DEF CoreTypes
  <2> QED
    BY <1>3, <2>1
<1>5. DOMAIN buffer = 1 .. Len(buffer) /\ Len(buffer) \in Nat /\ Len(buffer) >= 1
  BY <1>0 DEF CoreTypes
<1>6. i = 1
  <2>1. 1 \in todo /\ \A j \in todo : 1 <= j
    BY <1>4, <1>5
  <2> HIDE DEF todo
  <2>2. i \in todo /\ \A j \in todo : i <= j
    BY <2>1
  <2>3. i \in Nat
    BY <1>4, <1>5, <2>2
  <2> HIDE DEF i
  <2> QED
    BY <2>1, <2>2, <2>3
<1>7. todo # {}
  BY <1>4, <1>5
<1>8. /\ st' = [st EXCEPT !.length = @ - 1, !.failed = @ \o SubSeq(buffer, 1, i)]
      /\ buffer' = SubSeq(buffer, i + 1, Len(buffer))
      /\ Call(<<Fc(Single(given[buffer[i]]), TRUE), Fn("errorLoop", buffer[i])>>)
      /\ UNCHANGED <<ticks, io, given, sunk>>
  BY <1>7 DEF ErrorLoop, history
<1> HIDE DEF i, todo
<1>9. /\ st' = [st EXCEPT !.length = @ - 1, !.failed = @ \o SubSeq(buffer, 1, 1)]
      /\ buffer' = SubSeq(buffer, 2, Len(buffer))
      /\ Call(<<Fc(Single(given[buffer[1]]), TRUE), Fn("errorLoop", buffer[1])>>)
  BY <1>6, <1>8
<1> QED
  BY <1>0, <1>3, <1>8, <1>9, BufferTail

\* The value of writecb for one chunk is a list of callbacks.
LEMMA SingleType ==
  ASSUME CoreTypes, NEW c \in 1 .. Len(given)
  PROVE  Single(given[c]) \in Seq(Kinds) /\ Single(given[c]) \in Seq(Kinds \cup {"end"})
<1>1. given[c] \in Kinds
  BY DEF CoreTypes
<1>2. <<>> \in Seq(Kinds) /\ <<given[c]>> \in Seq(Kinds)
      /\ <<>> \in Seq(Kinds \cup {"end"}) /\ <<given[c]>> \in Seq(Kinds \cup {"end"})
  BY <1>1
<1> QED
  BY <1>2 DEF Single

\* errorBuffer() fails the oldest chunk that waits and keeps the invariant.
LEMMA ErrorLoopAction ==
  ASSUME SinkInv, ErrorLoop, buffer # <<>> PROVE SinkInv'
<1>0. /\ CoreTypes /\ FramesOK /\ PlacesOK /\ TopOK /\ LoopsOK /\ ErrorsOK /\ BufferOrdered
      /\ AllThere
      /\ ConstructOnce
  BY DEF SinkInv
<1>1. OnTop = "errorLoop" /\ stack # <<>> /\ Top("errorLoop")
  BY DEF ErrorLoop, Top, OnTop
<1>2. /\ buffer' = Tail(buffer) /\ sunk' = sunk /\ given' = given /\ ticks' = ticks
      /\ st' = [st EXCEPT !.length = @ - 1, !.failed = @ \o <<buffer[1]>>]
      /\ Dead /\ ~st.writing /\ io' = io
  BY ErrorLoopDrops
<1>3. /\ Tail(buffer) \in Seq(Nat) /\ Len(buffer) \in Nat /\ Len(buffer) >= 1
      /\ DOMAIN Tail(buffer) = 1 .. Len(buffer) - 1 /\ buffer[1] \in 1 .. Len(given)
      /\ Len(given) \in Nat
      /\ \A i \in DOMAIN Tail(buffer) : /\ i + 1 \in DOMAIN buffer
                                            /\ Tail(buffer)[i] = buffer[i + 1]
                                        /\ buffer[1] < Tail(buffer)[i]
  BY <1>0, BufferTail DEF CoreTypes
<1>4. /\ DOMAIN st' = Fields /\ \A x \in Fields \ {"length", "failed"} : st'[x] = st[x]
      /\ st'.failed = st.failed \o <<buffer[1]>>
  BY <1>0, <1>2 DEF CoreTypes, Fields
<1>5. /\ st'.ending = st.ending /\ st'.errored = st.errored /\ st'.destroyed = st.destroyed
      /\ st'.buffered = st.buffered /\ st'.writing = st.writing
      /\ st'.expectWriteCb = st.expectWriteCb /\ st'.onFinished = st.onFinished
      /\ st'.constructed = st.constructed /\ st'.finished = st.finished
      /\ st'.corked = st.corked /\ st'.bufferProcessing = st.bufferProcessing
      /\ st'.writecb = st.writecb /\ st'.sync = st.sync
  BY <1>4 DEF Fields
<1>6. st'.failed \in Seq(Nat) /\ st'.failed # <<>>
  <2>1. st.failed \in Seq(Nat) /\ <<buffer[1]>> \in Seq(Nat) /\ Len(<<buffer[1]>>) = 1
    BY <1>0, <1>3 DEF CoreTypes
  <2>2. st'.failed \in Seq(Nat) /\ Len(st'.failed) = Len(st.failed) + 1
    BY <1>4, <2>1
  <2> QED
    BY <2>1, <2>2
<1>7. StateTypes'
  BY <1>0, <1>4, <1>5, <1>6 DEF StateTypes, CoreTypes
<1>8. PICK x \in PlainFrames, y \in Frames :
        /\ x = Fc(Single(given[buffer[1]]), TRUE)
        /\ y = Fn("errorLoop", buffer[1]) /\ y.f = "errorLoop" /\ y.n = buffer[1]
  <2>1. Single(given[buffer[1]]) \in Seq(Kinds \cup {"end"})
    BY <1>0, <1>3, SingleType
  <2>2. Fc(Single(given[buffer[1]]), TRUE) \in PlainFrames
    BY <2>1, CallbackFrame
  <2>3. "errorLoop" \in Functions /\ buffer[1] \in Int /\ <<>> \in Seq(Kinds \cup {"end"})
            /\ TRUE \in BOOLEAN
    BY <1>3 DEF Functions
  <2>4. Fn("errorLoop", buffer[1]) \in Frames
    BY <2>3, FrameTypes
  <2>5. Fn("errorLoop", buffer[1]).f = "errorLoop" /\ Fn("errorLoop", buffer[1]).n = buffer[1]
    BY FrameParts
  <2> QED
    BY <2>2, <2>4, <2>5
<1>9. PICK fs \in Seq(Frames) : Call(fs) /\ Len(fs) = 2 /\ fs[1] = x /\ fs[2] = y
  <2>1. Call(<<x, y>>) /\ x \in Frames
    BY <1>8, ErrorLoopDrops DEF PlainFrames
  <2> QED
    BY <2>1, Calls
<1>10. Shifted(fs) /\ Ticked
  BY <1>0, <1>1, <1>2, <1>9, Called, TickNone
<1>11. CoreTypes'
  <2>1. stack' \in Seq(Frames) /\ ticks' \in Seq(Frames)
    BY <1>0, <1>10, Shift DEF Ticked
  <2> QED
    BY <1>0, <1>2, <1>3, <1>7, <2>1 DEF CoreTypes, StateTypes
<1>12. BufferOrdered'
  <2>1. /\ DOMAIN buffer' = 1 .. Len(buffer) - 1
        /\ \A i \in DOMAIN buffer' : i + 1 \in DOMAIN buffer /\ buffer'[i] = buffer[i + 1]
            /\ i \in Int
    BY <1>2, <1>3
  <2>2. \A i \in DOMAIN buffer' : 1 <= buffer'[i] /\ buffer'[i] <= Len(given')
    BY <1>0, <1>2, <2>1 DEF BufferOrdered
  <2>3. \A i, j \in DOMAIN buffer' : i < j => buffer'[i] < buffer'[j]
    <3> SUFFICES ASSUME NEW i \in DOMAIN buffer', NEW j \in DOMAIN buffer', i < j
                 PROVE  buffer'[i] < buffer'[j]
      OBVIOUS
    <3>1. i + 1 < j + 1
      BY <2>1
    <3> QED
      BY <1>0, <2>1, <3>1 DEF BufferOrdered
  <2>4. st'.buffered
    BY <1>0, <1>5 DEF BufferOrdered
  <2> QED
    BY <2>2, <2>3, <2>4 DEF BufferOrdered
<1>13. AllThere'
  BY <1>2, <1>5 DEF AllThere, Dead
<1>14. \A fr : FrameOK(fr) => FrameOK(fr)'
  <2> SUFFICES ASSUME NEW fr, FrameOK(fr) PROVE FrameOK(fr)'
    OBVIOUS
  <2>1. ~Drained /\ Dead'
    BY <1>2, <1>5 DEF Drained, Dead
  <2>2. ASSUME fr.f = "errorLoop"
        PROVE  fr.n <= Len(given') /\ \A i \in DOMAIN buffer' : fr.n < buffer'[i]
    BY <1>2, <1>3, <2>2 DEF FrameOK
  <2> QED
    BY <1>2, <1>5, <2>1, <2>2 DEF FrameOK
<1>15. FramesOK' /\ ConstructOnce' /\ TopOK' /\ PlacesOK'
  <2>1. \A i \in 1 .. Len(fs) : i = 1 \/ i = 2
    BY <1>9
  <2>2. FrameOK(y)'
    BY <1>2, <1>3, <1>5, <1>8 DEF FrameOK, Dead, Constructing
  <2>3. x.f \notin Special /\ FrameOK(x)'
    BY FreeFrame DEF PlainFrames, Special
  <2>4. \A i \in 1 .. Len(fs) : fs[i].f \notin Constructing /\ FrameOK(fs[i])'
    BY <1>8, <1>9, <2>1, <2>2, <2>3 DEF Special, Careful, Constructing
  <2>5. \A i \in 1 .. Len(fs) : fs[i].f \notin AtOnce /\ fs[i].f \notin Bottoms
    BY <1>8, <1>9, <2>1, <2>3 DEF Special, AtOnce, Bottoms
  <2>6. \A i \in 2 .. Len(fs) : i \in 1 .. Len(fs)
    BY <1>9
  <2>7. Len(fs) > 0 => /\ fs[1].f \notin {"clearBuffer", "onwrite"}
                       /\ fs[1].f = "_write" => st'.sync /\ st'.expectWriteCb
    BY <1>9, <2>3 DEF Special, AtOnce
  <2>8. /\ st'.finished => Drained'
        /\ st'.onFinished # 0 => st'.ending
        /\ st'.expectWriteCb => st'.writing
        /\ st'.writing => st'.constructed
        /\ st'.failed # <<>> => Dead' /\ ~st'.writing
    BY <1>0, <1>2, <1>5 DEF FramesOK, TopOK, Drained, Dead
  <2> QED
    BY <1>2, <1>5, <1>10, <1>14, <2>4, <2>5, <2>6, <2>7, <2>8, MoveStep
<1>16. LoopsOK'
  <2>1. \A i \in 1 .. Len(fs) : fs[i].f \notin Loops
    <3>1. \A i \in 1 .. Len(fs) : i = 1 \/ i = 2
      BY <1>9
    <3> QED
      BY <1>8, <1>9, <3>1 DEF PlainFrames, Special, Loops
  <2> QED
    BY <1>0, <1>1, <1>5, <1>10, <2>1, LoopsStep DEF LoopTops, Loops
<1>17. ErrorsOK'
  <2>1. /\ Len(stack) \in Nat /\ DOMAIN stack' = 1 .. Len(stack')
        /\ DOMAIN stack = 1 .. Len(stack)
        /\ Len(stack') \in Nat /\ OnTop = stack[1].f /\ Len(stack) >= 1
        /\ \A i \in 1 .. Len(stack') :
             IF i <= Len(fs) THEN stack'[i] = fs[i]
             ELSE i - Len(fs) + 1 \in 2 .. Len(stack) /\ stack'[i] = stack[i - Len(fs) + 1]
    BY <1>0, <1>1, <1>10, Shift
  <2>2. \A k \in 2 .. Len(stack) : stack[k].f \notin Errors
    BY <1>0, <1>1, <2>1 DEF ErrorsOK, Errors
  <2>3. \A i \in DOMAIN stack' : stack'[i].f \in Errors => i = 2 /\ stack'[i].f = "errorLoop"
    <3> SUFFICES ASSUME NEW i \in DOMAIN stack', stack'[i].f \in Errors
                 PROVE  i = 2 /\ stack'[i].f = "errorLoop"
      OBVIOUS
    <3>1. i <= Len(fs) /\ stack'[i] = fs[i] /\ i \in 1 .. Len(stack')
      BY <2>1, <2>2
    <3>2. i = 1 \/ i = 2
      BY <1>9, <3>1
    <3>3. fs[1].f \notin Errors
      BY <1>8, <1>9 DEF PlainFrames, Special, Careful
    <3>4. i = 2
      BY <3>1, <3>2, <3>3
    <3> QED
      BY <1>8, <1>9, <3>1, <3>4
  <2> QED
    BY <1>6, <2>3 DEF ErrorsOK, Errors
<1>18. Waiting'
  BY <1>2, <1>5 DEF Waiting, Dead
<1> QED
  BY <1>11, <1>12, <1>13, <1>15, <1>16, <1>17, <1>18 DEF SinkInv

\* It ends with the callbacks of end(), and resets the array after them.
LEMMA ErrorLoopEnds ==
  ASSUME SinkInv, ErrorLoop, buffer = <<>> PROVE SinkInv'
<1>0. /\ CoreTypes /\ FramesOK /\ PlacesOK /\ TopOK /\ LoopsOK /\ ErrorsOK /\ BufferOrdered
  BY DEF SinkInv
<1>1. OnTop = "errorLoop" /\ stack # <<>> /\ Top("errorLoop") /\ Head(stack).f = "errorLoop"
  BY DEF ErrorLoop, Top, OnTop
<1>2. Dead
  <2>1. FrameOK(Head(stack))
    BY <1>0, <1>1, TopRelies
  <2> QED
    BY <1>1, <2>1 DEF FrameOK
<1>3. /\ Call(<<Fe("callFinishedCallbacks", TRUE), F("resetBuffer")>>)
      /\ st' = st /\ buffer' = buffer /\ ticks' = ticks /\ io' = io /\ given' = given
      /\ sunk' = sunk
  <2>1. {i \in DOMAIN buffer : buffer[i] > Head(stack).n} = {}
    OBVIOUS
  <2> QED
    BY <2>1 DEF ErrorLoop, history
<1>4. PICK x \in Frames, y \in Frames :
        /\ x = Fe("callFinishedCallbacks", TRUE) /\ x.f = "callFinishedCallbacks"
        /\ y = F("resetBuffer") /\ y.f = "resetBuffer"
  <2>1. /\ "callFinishedCallbacks" \in Functions /\ "resetBuffer" \in Functions
        /\ TRUE \in BOOLEAN
        /\ 0 \in Int /\ <<>> \in Seq(Kinds \cup {"end"})
    BY DEF Functions
  <2>2. Fe("callFinishedCallbacks", TRUE) \in Frames /\ F("resetBuffer") \in Frames
    BY <2>1, FrameTypes
  <2> QED
    BY <2>2, FrameNames
<1>5. PICK fs \in Seq(Frames) : Call(fs) /\ Len(fs) = 2 /\ fs[1] = x /\ fs[2] = y
  <2>1. Call(<<x, y>>)
    BY <1>3, <1>4
  <2> QED
    BY <2>1, Calls
<1>6. Shifted(fs) /\ Ticked
  BY <1>0, <1>1, <1>3, <1>5, Called, TickNone
<1>7. Calm /\ StateTypes'
  <2>1. Calm
    BY <1>3 DEF Calm
  <2>2. StateTypes
    BY <1>0 DEF StateTypes, CoreTypes
  <2>3. StateTypes'
    BY <1>3, <2>2 DEF StateTypes
  <2> QED
    BY <2>1, <2>3
<1>8. CoreTypes'
  BY <1>0, <1>3, <1>6, <1>7, TypesStep DEF Ticked
<1>9. \A i \in 1 .. Len(fs) : \/ (i = 1 /\ fs[i].f = "callFinishedCallbacks")
                               \/ (i = 2 /\ fs[i].f = "resetBuffer")
  <2>1. \A i \in 1 .. Len(fs) : i = 1 \/ i = 2
    BY <1>5
  <2> QED
    BY <1>4, <1>5, <2>1
<1>10. BufferOrdered' /\ AllThere' /\ FramesOK' /\ ConstructOnce' /\ TopOK' /\ PlacesOK'
  <2>1. \A i \in 1 .. Len(fs) : FrameOK(fs[i])'
    BY <1>3, <1>9 DEF FrameOK, Constructing
  <2>2. \A i \in 1 .. Len(fs) : fs[i].f \notin Constructing /\ fs[i].f \notin Bottoms
    BY <1>9 DEF Constructing, Bottoms
  <2>3. \A i \in 2 .. Len(fs) : fs[i].f \notin AtOnce
    <3>1. \A i \in 2 .. Len(fs) : i \in 1 .. Len(fs) /\ i # 1
      BY <1>5
    <3> QED
      BY <1>9, <3>1 DEF AtOnce
  <2>4. fs[1].f = "callFinishedCallbacks"
    BY <1>4, <1>5
  <2>5. /\ st'.onFinished # 0 => st'.ending
        /\ st'.expectWriteCb => st'.writing
        /\ st'.finished = st.finished
    BY <1>0, <1>3 DEF FramesOK, TopOK
  <2> QED
    BY <1>3, <1>6, <1>7, <2>1, <2>2, <2>3, <2>4, <2>5, CalmStep
<1>11. LoopsOK'
  <2>1. \A i \in 1 .. Len(fs) : fs[i].f \notin Loops
    BY <1>9 DEF Loops
  <2> QED
    BY <1>0, <1>1, <1>3, <1>6, <2>1, LoopsStep DEF LoopTops, Loops
<1>12. ErrorsOK'
  <2>1. /\ Len(stack) \in Nat /\ DOMAIN stack' = 1 .. Len(stack')
        /\ DOMAIN stack = 1 .. Len(stack)
        /\ Len(stack') \in Nat /\ OnTop = stack[1].f /\ Len(stack) >= 1
        /\ Len(stack') = Len(fs) + Len(stack) - 1
        /\ \A i \in 1 .. Len(stack') :
             IF i <= Len(fs) THEN stack'[i] = fs[i]
             ELSE i - Len(fs) + 1 \in 2 .. Len(stack) /\ stack'[i] = stack[i - Len(fs) + 1]
    BY <1>0, <1>1, <1>6, Shift
  <2>2. \A k \in 2 .. Len(stack) : stack[k].f \notin Errors
    BY <1>0, <1>1, <2>1 DEF ErrorsOK, Errors
  <2>3. stack'[1].f = "callFinishedCallbacks"
    <3>1. 1 \in 1 .. Len(stack') /\ 1 <= Len(fs)
      BY <1>5, <2>1
    <3>2. stack'[1] = fs[1]
      BY <2>1, <3>1
    <3> QED
      BY <1>4, <1>5, <3>2
  <2>4. \A i \in DOMAIN stack' : stack'[i].f \in Errors => i = 2 /\ stack'[i].f = "resetBuffer"
    <3> SUFFICES ASSUME NEW i \in DOMAIN stack', stack'[i].f \in Errors
                 PROVE  i = 2 /\ stack'[i].f = "resetBuffer"
      OBVIOUS
    <3>1. i <= Len(fs) /\ stack'[i] = fs[i] /\ i \in 1 .. Len(fs)
      BY <2>1, <2>2
    <3> QED
      BY <1>9, <3>1 DEF Errors
  <2> QED
    BY <2>3, <2>4 DEF ErrorsOK, Errors
<1>13. Waiting'
  BY <1>3 DEF Waiting
<1> QED
  BY <1>8, <1>10, <1>11, <1>12, <1>13 DEF SinkInv

\* resetBuffer() at the end of errorBuffer().
LEMMA ResetBufferAction ==
  ASSUME SinkInv, ResetBuffer PROVE SinkInv'
<1>0. /\ CoreTypes /\ FramesOK /\ PlacesOK /\ TopOK /\ LoopsOK /\ ErrorsOK /\ BufferOrdered
      /\ AllThere
  BY DEF SinkInv
<1>1. OnTop = "resetBuffer" /\ stack # <<>> /\ Top("resetBuffer") /\ Head(stack).f = "resetBuffer"
  BY DEF ResetBuffer, Top, OnTop
<1>2. buffer = <<>>
  <2>1. FrameOK(Head(stack))
    BY <1>0, <1>1, TopRelies
  <2> QED
    BY <1>1, <2>1 DEF FrameOK
<1>3. buffer' = <<>> /\ ticks' = ticks /\ io' = io /\ given' = given /\ sunk' = sunk
  BY DEF ResetBuffer, history
<1>4. /\ DOMAIN st' = Fields /\ \A x \in Fields \ {"buffered", "failed"} : st'[x] = st[x]
      /\ st'.failed = <<>> /\ st'.buffered = FALSE
  BY <1>0 DEF ResetBuffer, ResetBits, CoreTypes, Fields
<1>5. /\ st'.ending = st.ending /\ st'.errored = st.errored /\ st'.destroyed = st.destroyed
      /\ st'.writing = st.writing
      /\ st'.expectWriteCb = st.expectWriteCb /\ st'.onFinished = st.onFinished
      /\ st'.constructed = st.constructed /\ st'.finished = st.finished
      /\ st'.corked = st.corked /\ st'.bufferProcessing = st.bufferProcessing
      /\ st'.writecb = st.writecb /\ st'.sync = st.sync
  BY <1>4 DEF Fields
<1>6. PICK fs \in Seq(Frames) : Call(fs) /\ Len(fs) = 0
  BY Calls DEF ResetBuffer
<1>7. Shifted(fs) /\ Ticked
  BY <1>0, <1>1, <1>3, <1>6, Called, TickNone
<1>8. CoreTypes'
  <2>1. StateTypes'
    <3>1. <<>> \in Seq(Nat)
      OBVIOUS
    <3> QED
      BY <1>0, <1>4, <1>5, <3>1 DEF StateTypes, CoreTypes
  <2> QED
    BY <1>0, <1>2, <1>3, <1>7, <2>1, TypesStep DEF Ticked
<1>9. BufferOrdered' /\ AllThere'
  BY <1>0, <1>2, <1>3, <1>5 DEF BufferOrdered, AllThere
<1>10. FramesOK' /\ ConstructOnce' /\ TopOK' /\ PlacesOK'
  <2>1. \A fr : FrameOK(fr) => FrameOK(fr)'
    BY <1>2, <1>3, <1>4, <1>5 DEF FrameOK, Drained, Dead
  <2>2. \A i \in 1 .. Len(fs) : /\ fs[i].f \notin Constructing /\ FrameOK(fs[i])'
                                /\ fs[i].f \notin Bottoms
    BY <1>6
  <2>3. /\ st'.finished => Drained'
        /\ st'.onFinished # 0 => st'.ending
        /\ st'.expectWriteCb => st'.writing
        /\ st'.writing => st'.constructed
        /\ st'.failed # <<>> => Dead' /\ ~st'.writing
    BY <1>0, <1>2, <1>3, <1>4, <1>5 DEF FramesOK, TopOK, Drained
  <2>4. /\ \A i \in 2 .. Len(fs) : fs[i].f \notin AtOnce
        /\ Len(fs) > 0 => /\ fs[1].f \notin {"clearBuffer", "onwrite"}
                          /\ fs[1].f = "_write" => st'.sync /\ st'.expectWriteCb
    BY <1>6
  <2> QED
    BY <1>3, <1>5, <1>7, <2>1, <2>2, <2>3, <2>4, MoveStep
<1>11. LoopsOK'
  <2>1. \A i \in 1 .. Len(fs) : fs[i].f \notin Loops
    BY <1>6
  <2> QED
    BY <1>0, <1>1, <1>5, <1>7, <2>1, LoopsStep DEF LoopTops, Loops
<1>12. ErrorsOK'
  <2>1. /\ Len(stack) \in Nat /\ DOMAIN stack' = 1 .. Len(stack')
        /\ DOMAIN stack = 1 .. Len(stack)
        /\ Len(stack') \in Nat /\ OnTop = stack[1].f /\ Len(stack) >= 1
        /\ \A i \in 1 .. Len(stack') :
             IF i <= Len(fs) THEN stack'[i] = fs[i]
             ELSE i - Len(fs) + 1 \in 2 .. Len(stack) /\ stack'[i] = stack[i - Len(fs) + 1]
    BY <1>0, <1>1, <1>7, Shift
  <2>2. \A k \in 2 .. Len(stack) : stack[k].f \notin Errors
    BY <1>0, <1>1, <2>1 DEF ErrorsOK, Errors
  <2>3. \A i \in DOMAIN stack' : stack'[i].f \notin Errors
    BY <1>6, <2>1, <2>2
  <2> QED
    BY <2>3 DEF ErrorsOK, Errors
<1>13. Waiting'
  BY <1>3 DEF Waiting
<1> QED
  BY <1>8, <1>9, <1>10, <1>11, <1>12, <1>13 DEF SinkInv

\* clearBuffer() has nothing to do, ...
LEMMA ClearBufferSkips ==
  ASSUME SinkInv, ClearBuffer,
         \/ st.destroyed \/ st.bufferProcessing \/ st.corked > 0 \/ ~st.buffered
         \/ ~st.constructed \/ Array = <<>>
  PROVE  SinkInv'
<1>0. /\ CoreTypes /\ FramesOK /\ PlacesOK /\ TopOK /\ LoopsOK /\ ErrorsOK /\ BufferOrdered
  BY DEF SinkInv
<1>1. OnTop = "clearBuffer" /\ stack # <<>> /\ Top("clearBuffer")
  BY DEF ClearBuffer, Top, OnTop
<1>2. /\ Call(<<>>) /\ st' = st /\ buffer' = buffer /\ ticks' = ticks /\ io' = io
      /\ given' = given
      /\ sunk' = sunk
  BY DEF ClearBuffer
<1>3. PICK fs \in Seq(Frames) : Call(fs) /\ Len(fs) = 0
  BY <1>2, Calls
<1>4. Shifted(fs) /\ Ticked
  BY <1>0, <1>1, <1>2, <1>3, Called, TickNone
<1>5. Calm /\ StateTypes'
  <2>1. Calm
    BY <1>2 DEF Calm
  <2>2. StateTypes
    BY <1>0 DEF StateTypes, CoreTypes
  <2>3. StateTypes'
    BY <1>2, <2>2 DEF StateTypes
  <2> QED
    BY <2>1, <2>3
<1>6. CoreTypes'
  BY <1>0, <1>2, <1>4, <1>5, TypesStep DEF Ticked
<1>7. BufferOrdered' /\ AllThere' /\ FramesOK' /\ ConstructOnce' /\ TopOK' /\ PlacesOK'
  <2>1. /\ \A i \in 1 .. Len(fs) : fs[i].f \notin Constructing /\ FrameOK(fs[i])'
        /\ \A i \in 2 .. Len(fs) : fs[i].f \notin AtOnce
        /\ \A i \in 1 .. Len(fs) : fs[i].f \in Bottoms => i = Len(fs) /\ Len(stack) <= 1
        /\ Len(fs) > 0 =>
             /\ fs[1].f = "clearBuffer" => ~st'.writing /\ (st'.destroyed \/ st'.failed = <<>>)
             /\ fs[1].f = "_write" => st'.sync /\ st'.expectWriteCb
             /\ fs[1].f = "onwrite" => stack = <<>> \/ (st'.sync /\ st'.expectWriteCb)
        /\ Len(fs) <= 1 \/ fs[1].f # "onwrite"
    BY <1>3
  <2>2. /\ st'.onFinished # 0 => st'.ending
        /\ st'.expectWriteCb => st'.writing
        /\ st'.finished = st.finished
    BY <1>0, <1>2 DEF FramesOK, TopOK
  <2> QED
    BY <1>2, <1>4, <1>5, <2>1, <2>2, CalmStep
<1>8. LoopsOK'
  <2>1. \A i \in 1 .. Len(fs) : fs[i].f \notin Loops \cup {"errorLoop"}
    BY <1>3
  <2>2. OnTop \notin Loops
    BY <1>1 DEF Loops
  <2> QED
    BY <1>0, <1>1, <1>2, <1>3, <1>4, <2>1, <2>2, LoopsShift
<1>9. ErrorsOK'
  <2>1. \A i \in 1 .. Len(fs) : fs[i].f \notin Errors
    BY <1>3
  <2> QED
    BY <1>0, <1>1, <1>2, <1>4, <2>1, ErrorsStep
<1>10. Waiting'
  <2> SUFFICES ASSUME buffer # <<>>
               PROVE  \/ st.destroyed \/ st.corked > 0 \/ ~st.constructed \/ st.bufferProcessing
    BY <1>2 DEF Waiting
  <2>1. st.buffered
    BY <1>0 DEF BufferOrdered
  <2>2. Array # <<>>
    <3>1. st.failed \in Seq(Nat) /\ buffer \in Seq(Nat)
      BY <1>0 DEF CoreTypes
    <3>2. Len(Array) = Len(st.failed) + Len(buffer) /\ Len(buffer) # 0 /\ Len(buffer) \in Nat
          /\ Len(st.failed) \in Nat
      BY <3>1 DEF Array
    <3> QED
      BY <3>2
  <2> QED
    BY <2>1, <2>2
<1> QED
  BY <1>6, <1>7, <1>8, <1>9, <1>10 DEF SinkInv

\* ... or it starts on the chunks that wait, which are all of the array, with no
\* other loop of it and none of errorBuffer() on the stack.
ClearReady ==
  /\ ~st.destroyed /\ ~st.bufferProcessing /\ st.corked = 0 /\ st.buffered
  /\ st.constructed /\ Array # <<>>
\* What clearBuffer() finds when it starts on the chunks that wait.
LEMMA ClearBufferReady ==
  ASSUME SinkInv, ClearBuffer, ClearReady
  PROVE  /\ st.failed = <<>> /\ Array = buffer /\ buffer # <<>> /\ ~st.writing
         /\ \A i \in DOMAIN stack : stack[i].f \notin Loops \cup {"errorLoop"}
         /\ OnTop = "clearBuffer" /\ stack # <<>> /\ Top("clearBuffer")
<1>0. CoreTypes /\ TopOK /\ LoopsOK /\ ErrorsOK
  BY DEF SinkInv
<1>1. OnTop = "clearBuffer" /\ stack # <<>> /\ Top("clearBuffer") /\ Head(stack).f = "clearBuffer"
  BY DEF ClearBuffer, Top, OnTop
<1>2. st.failed = <<>> /\ ~st.writing
  BY <1>0, <1>1 DEF TopOK, ClearReady
<1>3. Array = buffer
  <2>1. \A s \in Seq(Nat) : <<>> \o s = s
    OBVIOUS
  <2> QED
    BY <1>0, <1>2, <2>1 DEF Array, CoreTypes
<1>4. \A i \in DOMAIN stack : stack[i].f \notin Loops
  BY <1>0 DEF LoopsOK, LoopOK, ClearReady
<1>5. \A i \in DOMAIN stack : stack[i].f # "errorLoop"
  <2>1. stack[1].f = "clearBuffer"
    BY <1>0, <1>1 DEF CoreTypes
  <2> QED
    BY <1>0, <1>2, <2>1 DEF ErrorsOK
<1> QED
  BY <1>1, <1>2, <1>3, <1>4, <1>5 DEF ClearReady

\* The stack after a loop was put on top of it: the only one.
LEMMA LoopsOnly ==
  ASSUME CoreTypes, NEW fs, Shifted(fs), stack # <<>>, fs # <<>>,
         \A i \in 2 .. Len(stack) : stack[i].f \notin Loops \cup {"errorLoop"},
         \A i \in 1 .. Len(fs) : fs[i].f # "errorLoop",
         \A i \in 1 .. Len(fs) : fs[i].f \in Loops => i = Len(fs),
         \/ Len(fs) = 1
         \/ Len(fs) = 3 /\ fs[2].f = "unsync" /\ fs[1].f = "_write",
         fs[Len(fs)].f \in Loops,
         fs[Len(fs)].f = "clearBufferEnd" => buffer' = <<>> \/ (Len(fs) = 1 /\ st'.writing),
         st'.bufferProcessing, st'.buffered, st'.constructed, st'.failed = <<>>
  PROVE  LoopsOK'
<1>0. /\ Len(fs) \in Nat /\ Len(stack) \in Nat /\ Len(stack) >= 1
      /\ DOMAIN stack' = 1 .. Len(stack') /\ DOMAIN stack = 1 .. Len(stack) /\ Len(stack') \in Nat
      /\ Len(stack') = Len(fs) + Len(stack) - 1
      /\ \A i \in 1 .. Len(stack') :
           IF i <= Len(fs) THEN stack'[i] = fs[i]
           ELSE i - Len(fs) + 1 \in 2 .. Len(stack) /\ stack'[i] = stack[i - Len(fs) + 1]
  BY Shift
<1>1. ASSUME NEW i \in DOMAIN stack'
      PROVE  /\ stack'[i].f # "errorLoop"
             /\ stack'[i].f \in Loops => i = Len(fs) /\ stack'[i] = fs[i]
  <2>1. CASE i <= Len(fs)
    BY <1>0, <2>1
  <2>2. CASE ~(i <= Len(fs))
    BY <1>0, <2>2
  <2> QED
    BY <2>1, <2>2
<1>2. \A i \in 1 .. Len(fs) : i \in DOMAIN stack' /\ stack'[i] = fs[i]
  <2> TAKE i \in 1 .. Len(fs)
  <2>1. i \in 1 .. Len(stack') /\ i <= Len(fs)
    BY <1>0
  <2> QED
    BY <1>0, <2>1
<1>3. ASSUME NEW i \in DOMAIN stack', stack'[i].f \in Loops PROVE LoopOK(i)'
  <2>1. i = Len(fs) /\ stack'[i] = fs[i]
    BY <1>1, <1>3
  <2>2. i = 1 \/ (i = 3 /\ stack'[2].f = "unsync" /\ stack'[1].f = "_write")
    <3>1. CASE Len(fs) = 1
      BY <2>1, <3>1
    <3>2. CASE Len(fs) = 3 /\ fs[2].f = "unsync" /\ fs[1].f = "_write"
      <4>1. 1 \in 1 .. Len(fs) /\ 2 \in 1 .. Len(fs)
        BY <3>2
      <4> QED
        BY <1>2, <2>1, <3>2, <4>1
    <3> QED
      BY <3>1, <3>2
  <2>3. stack'[i].f = "clearBufferEnd" => buffer' = <<>> \/ (i = 1 /\ st'.writing)
    BY <2>1
  <2> QED
    BY <1>1, <2>2, <2>3 DEF LoopOK
<1>4. \E i \in DOMAIN stack' : stack'[i].f \in Loops
  <2>1. Len(fs) \in 1 .. Len(fs)
    BY <1>0
  <2> QED
    BY <1>2, <2>1
<1> QED
  BY <1>3, <1>4 DEF LoopsOK

\* A batch goes to the sink: what is left to show is where the chunks are.
LEMMA SinkStep ==
  ASSUME SinkInv, stack # <<>>, OnTop \in {"clearBuffer", "clearBufferLoop"},
         NEW fs \in Seq(Frames), Call(fs), Len(fs) = 3, fs[1].f = "_write", fs[2].f = "unsync",
         fs[3].f \in Loops, fs[3].f = "clearBufferEnd" => buffer' = <<>>,
         ~st.writing, st.buffered, st.constructed, st.failed = <<>>, buffer # <<>>,
         \A i \in 2 .. Len(stack) : stack[i].f \notin Loops \cup {"errorLoop"},
         StateTypes', buffer' \in Seq(Nat), sunk' \in Seq(Nat), BufferOrdered', AllThere',
         ticks' = ticks, io' = io, given' = given,
         st'.ending = st.ending, st'.errored = st.errored, st'.destroyed = st.destroyed,
         st'.constructed = st.constructed, st'.finished = st.finished, st'.buffered = st.buffered,
         st'.onFinished = st.onFinished, st'.failed = <<>>,
         st'.writing, st'.sync, st'.expectWriteCb, st'.bufferProcessing
  PROVE  SinkInv'
<1>0. /\ CoreTypes /\ FramesOK /\ PlacesOK /\ TopOK /\ LoopsOK /\ ErrorsOK
  BY DEF SinkInv
<1>1. Shifted(fs)
  BY DEF Call, Shifted, Under
<1>2. Ticked
  BY <1>0, TickNone
<1>3. CoreTypes'
  <2>1. stack' \in Seq(Frames) /\ ticks' \in Seq(Frames)
    BY <1>0, <1>1, <1>2, Shift DEF Ticked
  <2> QED
    BY <1>0, <2>1 DEF CoreTypes, StateTypes
<1>4. \A i \in 1 .. Len(fs) : \/ (i = 1 /\ fs[i].f = "_write")
                               \/ (i = 2 /\ fs[i].f = "unsync")
                               \/ (i = 3 /\ fs[i].f \in Loops)
  <2>1. \A i \in 1 .. Len(fs) : i = 1 \/ i = 2 \/ i = 3
    OBVIOUS
  <2> QED
    BY <2>1
<1>5. FramesOK' /\ ConstructOnce' /\ TopOK' /\ PlacesOK'
  <2>1. ASSUME NEW fr, FrameOK(fr), fr.f # "errorLoop" PROVE FrameOK(fr)'
    <3>1. ~Drained /\ fr.f # "resetBuffer" /\ (Dead => Dead')
      BY <2>1 DEF Drained, Dead, FrameOK
    <3> QED
      BY <2>1, <3>1 DEF FrameOK
  <2>2. \A i \in 2 .. Len(stack) : \A fr : fr = stack[i] /\ FrameOK(fr) => FrameOK(fr)'
    BY <2>1
  <2>3. \A fr : fr.f \notin Direct /\ FrameOK(fr) => FrameOK(fr)'
    BY <2>1 DEF Direct
  <2>4. \A i \in 1 .. Len(fs) : fs[i].f \notin Careful \cup Constructing \cup Bottoms
    BY <1>4 DEF Careful, Errors, Constructing, Bottoms, Loops
  <2>5. \A i \in 1 .. Len(fs) : fs[i].f \notin Constructing /\ FrameOK(fs[i])'
    BY <2>4, FreeFrame
  <2>6. /\ \A i \in 2 .. Len(fs) : fs[i].f \notin AtOnce
        /\ Len(fs) > 0 => /\ fs[1].f \notin {"clearBuffer", "onwrite"}
                          /\ fs[1].f = "_write" => st'.sync /\ st'.expectWriteCb
    <3>1. \A i \in 2 .. Len(fs) : i \in 1 .. Len(fs) /\ i # 1
      OBVIOUS
    <3> QED
      BY <1>4, <3>1 DEF AtOnce, Loops
  <2>7. /\ st'.finished => Drained'
        /\ st'.onFinished # 0 => st'.ending
        /\ st'.expectWriteCb => st'.writing
        /\ st'.writing => st'.constructed
        /\ st'.failed # <<>> => Dead' /\ ~st'.writing
    BY <1>0 DEF FramesOK, Drained
  <2> QED
    BY <1>1, <1>2, <2>2, <2>3, <2>4, <2>5, <2>6, <2>7, MoveStep
<1>6. LoopsOK'
  <2>1. fs # <<>> /\ fs[Len(fs)].f \in Loops
    <3>1. fs = <<>> => Len(fs) = 0
      OBVIOUS
    <3>2. Len(fs) # 0
      OBVIOUS
    <3> QED
      BY <3>1, <3>2
  <2>2. /\ \A i \in 1 .. Len(fs) : fs[i].f # "errorLoop"
        /\ \A i \in 1 .. Len(fs) : fs[i].f \in Loops => i = Len(fs)
    BY <1>4 DEF Loops
  <2>3. fs[Len(fs)].f = "clearBufferEnd" => buffer' = <<>>
    OBVIOUS
  <2> QED
    BY <1>0, <1>1, <2>1, <2>2, <2>3, LoopsOnly
<1>7. ErrorsOK'
  <2>1. \A i \in 1 .. Len(fs) : fs[i].f \notin Errors
    BY <1>4 DEF Errors, Loops
  <2> QED
    BY <1>0, <1>1, <2>1, ErrorsStep
<1>8. Waiting'
  BY DEF Waiting
<1> QED
  BY <1>3, <1>5, <1>6, <1>7, <1>8 DEF SinkInv

\* The three frames that a call of _write or _writev leaves.
LEMMA WriteFrames ==
  ASSUME NEW f \in Loops \cup {"writeReturn"}
  PROVE  \E x, y, z \in Frames : /\ x = F("_write") /\ x.f = "_write" /\ y = F("unsync")
                                     /\ y.f = "unsync"
                                 /\ z = F(f) /\ z.f = f
<1>1. "_write" \in Functions /\ "unsync" \in Functions /\ f \in Functions
  BY DEF Functions, Loops
<1>2. 0 \in Int /\ <<>> \in Seq(Kinds \cup {"end"}) /\ TRUE \in BOOLEAN
  OBVIOUS
<1>3. F("_write") \in Frames /\ F("unsync") \in Frames /\ F(f) \in Frames
  BY <1>1, <1>2, FrameTypes
<1>4. F("_write").f = "_write" /\ F("unsync").f = "unsync" /\ F(f).f = f
  BY FrameNames
<1> QED
  BY <1>3, <1>4

\* clearBuffer() gives all chunks to _writev at once.
LEMMA ClearBufferWritev ==
  ASSUME SinkInv, ClearBuffer, ClearReady, Len(Array) > 1 /\ opt.writev PROVE SinkInv'
<1>0. /\ CoreTypes /\ BufferOrdered /\ AllThere
  BY DEF SinkInv
<1>1. /\ st.failed = <<>> /\ Array = buffer /\ buffer # <<>> /\ ~st.writing
      /\ \A i \in DOMAIN stack : stack[i].f \notin Loops \cup {"errorLoop"}
      /\ OnTop = "clearBuffer" /\ stack # <<>> /\ Top("clearBuffer")
  BY ClearBufferReady
<1> DEFINE ks == [i \in DOMAIN Array |-> given[Array[i]]]
           cb == IF \A i \in DOMAIN ks : ks[i] = "nop" THEN <<>> ELSE ks
           s == [st EXCEPT !.bufferProcessing = TRUE, !.failed = <<>>]
<1>2. /\ st' = StartWrite([s EXCEPT !.pendingcb = @ - (Len(Array) - 1)], st.length, cb)
      /\ sunk' = sunk \o Array
      /\ buffer' = <<>>
      /\ Call(<<F("_write"), F("unsync"), F("clearBufferEnd")>>)
      /\ ticks' = ticks /\ io' = io /\ given' = given
  BY DEF ClearBuffer, ClearReady
<1>3. cb \in Seq(Kinds)
  <2>1. /\ buffer \in Seq(Nat) /\ given \in Seq(Kinds) /\ DOMAIN buffer = 1 .. Len(buffer)
        /\ Len(buffer) \in Nat
        /\ \A i \in DOMAIN buffer : buffer[i] \in 1 .. Len(given)
    BY <1>0 DEF CoreTypes, BufferOrdered
  <2>2. \A i \in DOMAIN buffer : given[buffer[i]] \in Kinds
    BY <2>1
  <2>3. ks \in [1 .. Len(buffer) -> Kinds]
    BY <1>1, <2>1, <2>2
  <2>4. ks \in Seq(Kinds) /\ <<>> \in Seq(Kinds)
    BY <2>1, <2>3, SeqDef
  <2> QED
    BY <2>4
<1> HIDE DEF cb
<1>4. /\ DOMAIN st' = Fields

      /\ \A x \in Fields \ {"bufferProcessing", "failed", "pendingcb", "writelen", "writecb",
          "writing",
                            "sync", "expectWriteCb"} : st'[x] = st[x]
      /\ st'.bufferProcessing = TRUE /\ st'.failed = <<>> /\ st'.writecb = cb
      /\ st'.writing = TRUE /\ st'.sync = TRUE /\ st'.expectWriteCb = TRUE
  BY <1>0, <1>2 DEF StartWrite, CoreTypes, Fields
<1>5. /\ st'.ending = st.ending /\ st'.errored = st.errored /\ st'.destroyed = st.destroyed
      /\ st'.buffered = st.buffered /\ st'.onFinished = st.onFinished
      /\ st'.constructed = st.constructed /\ st'.finished = st.finished
      /\ st'.corked = st.corked
  BY <1>4 DEF Fields
<1>6. StateTypes'
  <2>1. <<>> \in Seq(Nat)
    OBVIOUS
  <2> QED
    BY <1>0, <1>3, <1>4, <1>5, <2>1 DEF StateTypes, CoreTypes
<1>7. PICK fs \in Seq(Frames) :
        /\ Call(fs) /\ Len(fs) = 3 /\ fs[1].f = "_write" /\ fs[2].f = "unsync"
        /\ fs[3].f = "clearBufferEnd"
  <2>1. PICK x \in Frames, y \in Frames, z \in Frames :
          /\ x = F("_write") /\ x.f = "_write" /\ y = F("unsync") /\ y.f = "unsync"
          /\ z = F("clearBufferEnd") /\ z.f = "clearBufferEnd"
    BY WriteFrames DEF Loops
  <2>2. Call(<<x, y, z>>)
    BY <1>2, <2>1
  <2>3. PICK fs \in Seq(Frames) : Call(fs) /\ Len(fs) = 3 /\ fs[1] = x /\ fs[2] = y /\ fs[3] = z
    BY <2>2, Calls
  <2> QED
    BY <2>1, <2>3
<1>8. sunk' \in Seq(Nat) /\ buffer' \in Seq(Nat) /\ BufferOrdered'
  BY <1>0, <1>1, <1>2 DEF CoreTypes, BufferOrdered
<1>9. AllThere'
  <2>1. sunk \in Seq(Nat) /\ buffer \in Seq(Nat) /\ sunk' = sunk \o buffer
    BY <1>0, <1>1, <1>2 DEF CoreTypes
  <2>2. /\ Len(sunk') = Len(sunk) + Len(buffer) /\ DOMAIN sunk' = 1 .. Len(sunk) + Len(buffer)
        /\ Len(sunk) \in Nat /\ Len(buffer) \in Nat
        /\ \A i \in 1 .. Len(sunk) : sunk'[i] = sunk[i]
        /\ \A i \in 1 .. Len(buffer) : sunk'[Len(sunk) + i] = buffer[i]
    BY <2>1, Above
  <2>3. ASSUME ~(st.errored \/ st.destroyed)
        PROVE  Len(sunk') = Len(given) /\ \A i \in DOMAIN sunk' : sunk'[i] = i
    <3>1. /\ Len(sunk) + Len(buffer) = Len(given)
          /\ \A i \in 1 .. Len(sunk) : sunk[i] = i
          /\ \A i \in 1 .. Len(buffer) : buffer[i] = Len(sunk) + i
      BY <1>0, <2>1, <2>3 DEF AllThere
    <3>2. ASSUME NEW i \in DOMAIN sunk' PROVE sunk'[i] = i
      <4>1. CASE i <= Len(sunk)
        BY <2>2, <3>1, <4>1
      <4>2. CASE ~(i <= Len(sunk))
        <5>1. i - Len(sunk) \in 1 .. Len(buffer) /\ Len(sunk) + (i - Len(sunk)) = i
          BY <2>2, <4>2
        <5> QED
          BY <2>2, <3>1, <5>1
      <4> QED
        BY <4>1, <4>2
    <3> QED
      BY <2>2, <3>1, <3>2
  <2>4. Len(buffer') = 0 /\ \A i \in DOMAIN buffer' : FALSE
    BY <1>2
  <2>5. Len(given) \in Nat
    BY <1>0 DEF CoreTypes
  <2> QED
    BY <1>2, <1>5, <2>3, <2>4, <2>5 DEF AllThere
<1>10. \A i \in 2 .. Len(stack) : stack[i].f \notin Loops \cup {"errorLoop"}
  <2>1. \A i \in 2 .. Len(stack) : i \in DOMAIN stack
    BY <1>0 DEF CoreTypes
  <2> QED
    BY <1>1, <2>1
<1>11. fs[3].f \in Loops /\ buffer' = <<>> /\ st.buffered /\ st.constructed
  BY <1>2, <1>7 DEF Loops, ClearReady
<1> QED
  BY <1>1, <1>2, <1>4, <1>5, <1>6, <1>7, <1>8, <1>9, <1>10, <1>11, SinkStep

\* Without _writev, clearBuffer() starts a loop over the chunks.
LEMMA ClearBufferStarts ==
  ASSUME SinkInv, ClearBuffer, ClearReady, ~(Len(Array) > 1 /\ opt.writev) PROVE SinkInv'
<1>0. /\ CoreTypes /\ FramesOK /\ PlacesOK /\ TopOK /\ LoopsOK /\ ErrorsOK /\ BufferOrdered
  BY DEF SinkInv
<1>1. /\ st.failed = <<>> /\ Array = buffer /\ buffer # <<>> /\ ~st.writing
      /\ \A i \in DOMAIN stack : stack[i].f \notin Loops \cup {"errorLoop"}
      /\ OnTop = "clearBuffer" /\ stack # <<>> /\ Top("clearBuffer")
  BY ClearBufferReady
<1>2. /\ st' = [st EXCEPT !.bufferProcessing = TRUE, !.failed = <<>>]
      /\ buffer' = Array /\ sunk' = sunk
      /\ Call(<<F("clearBufferLoop")>>)
      /\ ticks' = ticks /\ io' = io /\ given' = given
  BY DEF ClearBuffer, ClearReady
<1>3. /\ DOMAIN st' = Fields
      /\ \A x \in Fields \ {"bufferProcessing", "failed"} : st'[x] = st[x]
      /\ st'.bufferProcessing = TRUE /\ st'.failed = <<>>
  BY <1>0, <1>2 DEF CoreTypes, Fields
<1>4. /\ st'.ending = st.ending /\ st'.errored = st.errored /\ st'.destroyed = st.destroyed
      /\ st'.buffered = st.buffered /\ st'.writing = st.writing
      /\ st'.expectWriteCb = st.expectWriteCb /\ st'.onFinished = st.onFinished
      /\ st'.constructed = st.constructed /\ st'.finished = st.finished
      /\ st'.corked = st.corked
      /\ st'.writecb = st.writecb /\ st'.sync = st.sync
  BY <1>3 DEF Fields
<1>5. StateTypes' /\ Calm
  <2>1. <<>> \in Seq(Nat)
    OBVIOUS
  <2>2. StateTypes'
    BY <1>0, <1>3, <1>4, <2>1 DEF StateTypes, CoreTypes
  <2> QED
    BY <1>1, <1>2, <1>3, <1>4, <2>2 DEF Calm
<1>6. PICK fs \in Seq(Frames) : Call(fs) /\ Len(fs) = 1 /\ fs[1].f = "clearBufferLoop"
  <2>1. PICK z \in Frames : z = F("clearBufferLoop") /\ z.f = "clearBufferLoop"
    <3>1. "clearBufferLoop" \in Loops \cup {"writeReturn"}
      BY DEF Loops
    <3> QED
      BY <3>1, WriteFrames
  <2>2. Call(<<z>>)
    BY <1>2, <2>1
  <2>3. PICK fs \in Seq(Frames) : Call(fs) /\ Len(fs) = 1 /\ fs[1] = z
    BY <2>2, Calls
  <2> QED
    BY <2>1, <2>3
<1>7. Shifted(fs) /\ Ticked
  BY <1>0, <1>1, <1>2, <1>6, Called, TickNone
<1>8. CoreTypes'
  BY <1>0, <1>1, <1>2, <1>5, <1>7, TypesStep DEF Ticked
<1>9. \A i \in 1 .. Len(fs) : i = 1 /\ fs[i].f = "clearBufferLoop"
  <2>1. \A i \in 1 .. Len(fs) : i = 1
    BY <1>6
  <2> QED
    BY <1>6, <2>1
<1>10. BufferOrdered' /\ AllThere' /\ FramesOK' /\ ConstructOnce' /\ TopOK' /\ PlacesOK'
  <2>1. \A i \in 1 .. Len(fs) : fs[i].f \notin Careful \cup Constructing \cup Bottoms \cup AtOnce
    BY <1>9 DEF Careful, Errors, Constructing, Bottoms, AtOnce
  <2>2. /\ \A i \in 1 .. Len(fs) : fs[i].f \notin Constructing /\ FrameOK(fs[i])'
        /\ \A i \in 1 .. Len(fs) : fs[i].f \in Bottoms => i = Len(fs) /\ Len(stack) <= 1
    BY <2>1, FreeFrame
  <2>3. /\ Len(fs) > 0 =>
             /\ fs[1].f = "clearBuffer" => ~st'.writing /\ (st'.destroyed \/ st'.failed = <<>>)
             /\ fs[1].f = "_write" => st'.sync /\ st'.expectWriteCb
             /\ fs[1].f = "onwrite" => stack = <<>> \/ (st'.sync /\ st'.expectWriteCb)
        /\ Len(fs) <= 1 \/ fs[1].f # "onwrite"
        /\ \A i \in 2 .. Len(fs) : fs[i].f \notin AtOnce
    BY <1>6
  <2>4. /\ st'.onFinished # 0 => st'.ending
        /\ st'.expectWriteCb => st'.writing
        /\ st'.finished = st.finished
    BY <1>0, <1>4 DEF FramesOK, TopOK
  <2> QED
    BY <1>2, <1>5, <1>7, <2>2, <2>3, <2>4, CalmStep
<1>11. LoopsOK'
  <2>1. fs # <<>> /\ fs[Len(fs)].f = "clearBufferLoop"
    BY <1>6
  <2>2. /\ \A i \in 1 .. Len(fs) : fs[i].f # "errorLoop"
        /\ \A i \in 1 .. Len(fs) : fs[i].f \in Loops => i = Len(fs)
    BY <1>6, <1>9
  <2>3. \A i \in 2 .. Len(stack) : stack[i].f \notin Loops \cup {"errorLoop"}
    <3>1. \A i \in 2 .. Len(stack) : i \in DOMAIN stack
      BY <1>0 DEF CoreTypes
    <3> QED
      BY <1>1, <3>1
  <2>4. st'.bufferProcessing /\ st'.buffered /\ st'.constructed /\ st'.failed = <<>>
    BY <1>3, <1>4 DEF ClearReady
  <2> QED
    BY <1>0, <1>1, <1>6, <1>7, <2>1, <2>2, <2>3, <2>4, LoopsOnly DEF Loops
<1>12. ErrorsOK'
  <2>1. \A i \in 1 .. Len(fs) : fs[i].f \notin Errors
    BY <1>9 DEF Errors
  <2> QED
    BY <1>0, <1>1, <1>3, <1>4, <1>7, <2>1, ErrorsStep
<1>13. Waiting'
  BY <1>3 DEF Waiting
<1> QED
  BY <1>8, <1>10, <1>11, <1>12, <1>13 DEF SinkInv

\* The loop of clearBuffer() is alone on the stack.
LEMMA LoopAlone ==
  ASSUME SinkInv, stack # <<>>, OnTop \in Loops
  PROVE  /\ st.bufferProcessing /\ st.buffered /\ st.constructed /\ st.failed = <<>>
         /\ OnTop = "clearBufferEnd" => buffer = <<>> \/ st.writing
         /\ \A i \in 2 .. Len(stack) : stack[i].f \notin Loops \cup {"errorLoop"}
<1>0. CoreTypes /\ LoopsOK
  BY DEF SinkInv
<1>1. /\ DOMAIN stack = 1 .. Len(stack) /\ Len(stack) \in Nat /\ 1 \in DOMAIN stack
      /\ OnTop = stack[1].f
  BY <1>0 DEF CoreTypes, OnTop
<1>2. LoopOK(1)
  BY <1>0, <1>1 DEF LoopsOK
<1>3. ASSUME NEW i \in 2 .. Len(stack), stack[i].f \in Loops PROVE FALSE
  <2>1. LoopOK(i) /\ i # 1
    BY <1>0, <1>1, <1>3 DEF LoopsOK
  <2>2. stack[1].f \in {"unsync", "_write", "onwrite", "onwriteSync", "finishMaybe",
            "clearBuffer"}
    BY <2>1 DEF LoopOK
  <2> QED
    BY <1>1, <2>2 DEF Loops
<1> QED
  BY <1>1, <1>2, <1>3 DEF LoopOK

\* It gives the next chunk to _write, ...
LEMMA ClearBufferNext ==
  ASSUME SinkInv, ClearBufferLoop, buffer # <<>>, ~st.writing PROVE SinkInv'
<1>0. /\ CoreTypes /\ BufferOrdered /\ AllThere
  BY DEF SinkInv
<1>1. OnTop = "clearBufferLoop" /\ stack # <<>> /\ Top("clearBufferLoop") /\ OnTop \in Loops
  BY DEF ClearBufferLoop, Top, OnTop, Loops
<1>2. /\ st.bufferProcessing /\ st.buffered /\ st.constructed /\ st.failed = <<>>
      /\ \A i \in 2 .. Len(stack) : stack[i].f \notin Loops \cup {"errorLoop"}
  BY <1>1, LoopAlone
<1>3. /\ Tail(buffer) \in Seq(Nat) /\ Len(Tail(buffer)) = Len(buffer) - 1 /\ Len(buffer) \in Nat
      /\ Len(buffer) >= 1 /\ DOMAIN Tail(buffer) = 1 .. Len(buffer) - 1 /\ 1 \in DOMAIN buffer
      /\ Head(buffer) = buffer[1] /\ buffer[1] \in 1 .. Len(given) /\ Len(given) \in Nat
      /\ \A i \in DOMAIN Tail(buffer) : i + 1 \in DOMAIN buffer /\ Tail(buffer)[i] = buffer[i + 1]
  BY <1>0, BufferTail DEF CoreTypes
<1>4. /\ st' = StartWrite(st, 1, Single(given[Head(buffer)]))
      /\ sunk' = Append(sunk, Head(buffer)) /\ buffer' = Tail(buffer)
      /\ Call(<<F("_write"), F("unsync"), F("clearBufferLoop")>>)
      /\ ticks' = ticks /\ io' = io /\ given' = given
  BY DEF ClearBufferLoop
<1>5. Single(given[Head(buffer)]) \in Seq(Kinds)
  BY <1>0, <1>3, SingleType
<1> DEFINE cb == Single(given[Head(buffer)])
<1> HIDE DEF cb
<1>6. st' = StartWrite(st, 1, cb) /\ cb \in Seq(Kinds)
  BY <1>4, <1>5 DEF cb
<1>7. /\ DOMAIN st' = Fields

      /\ \A x \in Fields \ {"writelen", "writecb", "writing", "sync", "expectWriteCb"} :
          st'[x] = st[x]
      /\ st'.writecb = cb
      /\ st'.writing = TRUE /\ st'.sync = TRUE /\ st'.expectWriteCb = TRUE
  BY <1>0, <1>6 DEF StartWrite, CoreTypes, Fields
<1>8. /\ st'.ending = st.ending /\ st'.errored = st.errored /\ st'.destroyed = st.destroyed
      /\ st'.buffered = st.buffered /\ st'.onFinished = st.onFinished
      /\ st'.constructed = st.constructed /\ st'.finished = st.finished
      /\ st'.corked = st.corked /\ st'.bufferProcessing = st.bufferProcessing
      /\ st'.failed = st.failed
  BY <1>7 DEF Fields
<1>9. StateTypes'
  BY <1>0, <1>6, <1>7, <1>8 DEF StateTypes, CoreTypes
<1>10. PICK fs \in Seq(Frames) :
        /\ Call(fs) /\ Len(fs) = 3 /\ fs[1].f = "_write" /\ fs[2].f = "unsync"
        /\ fs[3].f = "clearBufferLoop"
  <2>1. PICK x \in Frames, y \in Frames, z \in Frames :
          /\ x = F("_write") /\ x.f = "_write" /\ y = F("unsync") /\ y.f = "unsync"
          /\ z = F("clearBufferLoop") /\ z.f = "clearBufferLoop"
    BY WriteFrames DEF Loops
  <2>2. Call(<<x, y, z>>)
    BY <1>4, <2>1
  <2>3. PICK fs \in Seq(Frames) : Call(fs) /\ Len(fs) = 3 /\ fs[1] = x /\ fs[2] = y /\ fs[3] = z
    BY <2>2, Calls
  <2> QED
    BY <2>1, <2>3
<1>11. sunk' \in Seq(Nat) /\ buffer' \in Seq(Nat)
  BY <1>0, <1>3, <1>4 DEF CoreTypes
<1>12. BufferOrdered'
  <2>1. /\ DOMAIN buffer' = 1 .. Len(buffer) - 1
        /\ \A i \in DOMAIN buffer' : i + 1 \in DOMAIN buffer /\ buffer'[i] = buffer[i + 1]
            /\ i \in Int
    BY <1>3, <1>4
  <2>2. \A i \in DOMAIN buffer' : 1 <= buffer'[i] /\ buffer'[i] <= Len(given')
    BY <1>0, <1>4, <2>1 DEF BufferOrdered
  <2>3. \A i, j \in DOMAIN buffer' : i < j => buffer'[i] < buffer'[j]
    <3> SUFFICES ASSUME NEW i \in DOMAIN buffer', NEW j \in DOMAIN buffer', i < j
                 PROVE  buffer'[i] < buffer'[j]
      OBVIOUS
    <3>1. i + 1 < j + 1
      BY <2>1
    <3> QED
      BY <1>0, <2>1, <3>1 DEF BufferOrdered
  <2> QED
    BY <1>2, <1>8, <2>2, <2>3 DEF BufferOrdered
<1>13. AllThere'
  <2> SUFFICES ASSUME ~(st.errored \/ st.destroyed)
               PROVE  /\ Len(sunk') + Len(buffer') = Len(given')
                      /\ \A i \in DOMAIN sunk' : sunk'[i] = i
                      /\ \A i \in DOMAIN buffer' : buffer'[i] = Len(sunk') + i
    BY <1>8 DEF AllThere
  <2>1. /\ sunk \in Seq(Nat) /\ Len(sunk) \in Nat /\ DOMAIN sunk = 1 .. Len(sunk)
        /\ Len(sunk) + Len(buffer) = Len(given)
        /\ \A i \in DOMAIN sunk : sunk[i] = i
        /\ \A i \in DOMAIN buffer : buffer[i] = Len(sunk) + i
    BY <1>0 DEF AllThere, CoreTypes
  <2>2. /\ Len(sunk') = Len(sunk) + 1 /\ DOMAIN sunk' = 1 .. Len(sunk) + 1
        /\ sunk'[Len(sunk) + 1] = Len(sunk) + 1
        /\ \A i \in 1 .. Len(sunk) : sunk'[i] = i
    <3>1. sunk' = Append(sunk, buffer[1]) /\ buffer[1] \in Nat /\ buffer[1] = Len(sunk) + 1
      <4>1. buffer[1] \in Nat
        BY <1>3
      <4>2. buffer[1] = Len(sunk) + 1
        BY <1>3, <2>1
      <4>3. sunk' = Append(sunk, buffer[1])
        BY <1>3, <1>4
      <4> QED
        BY <4>1, <4>2, <4>3
    <3>2. \A n \in Nat : /\ Len(Append(sunk, n)) = Len(sunk) + 1
                          /\ DOMAIN Append(sunk, n) = 1 .. Len(sunk) + 1
                          /\ Append(sunk, n)[Len(sunk) + 1] = n
                          /\ \A i \in 1 .. Len(sunk) : Append(sunk, n)[i] = sunk[i]
      BY <2>1
    <3> QED
      BY <2>1, <3>1, <3>2
  <2>3. \A i \in DOMAIN sunk' : sunk'[i] = i
    BY <2>1, <2>2
  <2>4. \A i \in DOMAIN buffer' : buffer'[i] = Len(sunk') + i
    <3> TAKE i \in DOMAIN buffer'
    <3>1. buffer'[i] = Len(sunk) + (i + 1) /\ i \in Int
      BY <1>3, <1>4, <2>1
    <3> QED
      BY <2>1, <2>2, <3>1
  <2>5. Len(sunk') + Len(buffer') = Len(given')
    BY <1>3, <1>4, <2>1, <2>2
  <2> QED
    BY <2>3, <2>4, <2>5
<1>14. fs[3].f \in Loops /\ fs[3].f # "clearBufferEnd"
  BY <1>10 DEF Loops
<1> QED
  BY <1>1, <1>2, <1>4, <1>7, <1>8, <1>9, <1>10, <1>11, <1>12, <1>13, <1>14, SinkStep

\* ... and ends when none is left or a write is in progress.
LEMMA ClearBufferLeaves ==
  ASSUME SinkInv, ClearBufferLoop, buffer = <<>> \/ st.writing PROVE SinkInv'
<1>0. /\ CoreTypes /\ FramesOK /\ PlacesOK /\ TopOK /\ LoopsOK /\ ErrorsOK /\ BufferOrdered
  BY DEF SinkInv
<1>1. OnTop = "clearBufferLoop" /\ stack # <<>> /\ Top("clearBufferLoop") /\ OnTop \in Loops
  BY DEF ClearBufferLoop, Top, OnTop, Loops
<1>2. /\ st.bufferProcessing /\ st.buffered /\ st.constructed /\ st.failed = <<>>
      /\ \A i \in 2 .. Len(stack) : stack[i].f \notin Loops \cup {"errorLoop"}
  BY <1>1, LoopAlone
<1>3. /\ st' = st /\ buffer' = buffer /\ sunk' = sunk
      /\ Call(<<F("clearBufferEnd")>>)
      /\ ticks' = ticks /\ io' = io /\ given' = given
  BY DEF ClearBufferLoop
<1>4. StateTypes' /\ Calm
  <2>1. Calm
    BY <1>3 DEF Calm
  <2>2. StateTypes
    BY <1>0 DEF StateTypes, CoreTypes
  <2>3. StateTypes'
    BY <1>3, <2>2 DEF StateTypes
  <2> QED
    BY <2>1, <2>3
<1>5. PICK fs \in Seq(Frames) : Call(fs) /\ Len(fs) = 1 /\ fs[1].f = "clearBufferEnd"
  <2>1. PICK z \in Frames : z = F("clearBufferEnd") /\ z.f = "clearBufferEnd"
    <3>1. "clearBufferEnd" \in Loops \cup {"writeReturn"}
      BY DEF Loops
    <3> QED
      BY <3>1, WriteFrames
  <2>2. Call(<<z>>)
    BY <1>3, <2>1
  <2>3. PICK fs \in Seq(Frames) : Call(fs) /\ Len(fs) = 1 /\ fs[1] = z
    BY <2>2, Calls
  <2> QED
    BY <2>1, <2>3
<1>6. Shifted(fs) /\ Ticked
  BY <1>0, <1>1, <1>3, <1>5, Called, TickNone
<1>7. CoreTypes'
  BY <1>0, <1>3, <1>4, <1>6, TypesStep DEF Ticked
<1>8. \A i \in 1 .. Len(fs) : i = 1 /\ fs[i].f = "clearBufferEnd"
  <2>1. \A i \in 1 .. Len(fs) : i = 1
    BY <1>5
  <2> QED
    BY <1>5, <2>1
<1>9. BufferOrdered' /\ AllThere' /\ FramesOK' /\ ConstructOnce' /\ TopOK' /\ PlacesOK'
  <2>1. \A i \in 1 .. Len(fs) : fs[i].f \notin Careful \cup Constructing \cup Bottoms \cup AtOnce
    BY <1>8 DEF Careful, Errors, Constructing, Bottoms, AtOnce
  <2>2. /\ \A i \in 1 .. Len(fs) : fs[i].f \notin Constructing /\ FrameOK(fs[i])'
        /\ \A i \in 1 .. Len(fs) : fs[i].f \in Bottoms => i = Len(fs) /\ Len(stack) <= 1
    BY <2>1, FreeFrame
  <2>3. /\ Len(fs) > 0 =>
             /\ fs[1].f = "clearBuffer" => ~st'.writing /\ (st'.destroyed \/ st'.failed = <<>>)
             /\ fs[1].f = "_write" => st'.sync /\ st'.expectWriteCb
             /\ fs[1].f = "onwrite" => stack = <<>> \/ (st'.sync /\ st'.expectWriteCb)
        /\ Len(fs) <= 1 \/ fs[1].f # "onwrite"
        /\ \A i \in 2 .. Len(fs) : fs[i].f \notin AtOnce
    BY <1>5
  <2>4. /\ st'.onFinished # 0 => st'.ending
        /\ st'.expectWriteCb => st'.writing
        /\ st'.finished = st.finished
    BY <1>0, <1>3 DEF FramesOK, TopOK
  <2> QED
    BY <1>3, <1>4, <1>6, <2>2, <2>3, <2>4, CalmStep
<1>10. LoopsOK'
  <2>1. /\ fs # <<>> /\ fs[Len(fs)].f = "clearBufferEnd"
        /\ buffer' = <<>> \/ (Len(fs) = 1 /\ st'.writing)
    <3>1. fs = <<>> => Len(fs) = 0
      OBVIOUS
    <3>2. fs[Len(fs)].f = "clearBufferEnd"
      BY <1>5
    <3>3. buffer' = <<>> \/ (Len(fs) = 1 /\ st'.writing)
      <4>1. CASE buffer = <<>>
        BY <1>3, <4>1
      <4>2. CASE st.writing
        BY <1>3, <1>5, <4>2
      <4> QED
        BY <4>1, <4>2
    <3> QED
      BY <1>5, <3>1, <3>2, <3>3
  <2>2. /\ \A i \in 1 .. Len(fs) : fs[i].f # "errorLoop"
        /\ \A i \in 1 .. Len(fs) : fs[i].f \in Loops => i = Len(fs)
    BY <1>5, <1>8
  <2>3. st'.bufferProcessing /\ st'.buffered /\ st'.constructed /\ st'.failed = <<>>
    BY <1>2, <1>3
  <2> QED
    BY <1>0, <1>1, <1>2, <1>5, <1>6, <2>1, <2>2, <2>3, LoopsOnly DEF Loops
<1>11. ErrorsOK'
  <2>1. \A i \in 1 .. Len(fs) : fs[i].f \notin Errors
    BY <1>8 DEF Errors
  <2> QED
    BY <1>0, <1>1, <1>3, <1>6, <2>1, ErrorsStep
<1>12. Waiting'
  BY <1>2, <1>3 DEF Waiting
<1> QED
  BY <1>7, <1>9, <1>10, <1>11, <1>12 DEF SinkInv

\* The end of clearBuffer() resets an empty array.
LEMMA ClearBufferEndAction ==
  ASSUME SinkInv, ClearBufferEnd PROVE SinkInv'
<1>0. /\ CoreTypes /\ FramesOK /\ PlacesOK /\ TopOK /\ LoopsOK /\ ErrorsOK /\ BufferOrdered
      /\ AllThere
  BY DEF SinkInv
<1>1. OnTop = "clearBufferEnd" /\ stack # <<>> /\ Top("clearBufferEnd") /\ OnTop \in Loops
  BY DEF ClearBufferEnd, Top, OnTop, Loops
<1>2. /\ st.bufferProcessing /\ st.buffered /\ st.constructed /\ st.failed = <<>>
      /\ \A i \in 2 .. Len(stack) : stack[i].f \notin Loops \cup {"errorLoop"}
      /\ buffer = <<>> \/ st.writing
  BY <1>1, LoopAlone
<1>3. /\ buffer' = buffer /\ sunk' = sunk /\ ticks' = ticks /\ io' = io /\ given' = given
  BY DEF ClearBufferEnd, history
<1>4. /\ DOMAIN st' = Fields
      /\ \A x \in Fields \ {"bufferProcessing", "buffered", "failed"} : st'[x] = st[x]
      /\ st'.bufferProcessing = FALSE
      /\ \/ buffer = <<>> /\ st'.buffered = FALSE /\ st'.failed = <<>>
         \/ st'.buffered = st.buffered /\ st'.failed = st.failed
  <2>1. CASE buffer = <<>>
    BY <1>0, <2>1 DEF ClearBufferEnd, ResetBits, CoreTypes, Fields
  <2>2. CASE buffer # <<>>
    BY <1>0, <2>2 DEF ClearBufferEnd, CoreTypes, Fields
  <2> QED
    BY <2>1, <2>2
<1>5. /\ st'.ending = st.ending /\ st'.errored = st.errored /\ st'.destroyed = st.destroyed
      /\ st'.writing = st.writing
      /\ st'.expectWriteCb = st.expectWriteCb /\ st'.onFinished = st.onFinished
      /\ st'.constructed = st.constructed /\ st'.finished = st.finished
      /\ st'.corked = st.corked
      /\ st'.writecb = st.writecb /\ st'.sync = st.sync
  BY <1>4 DEF Fields
<1>6. PICK fs \in Seq(Frames) : Call(fs) /\ Len(fs) = 0
  BY Calls DEF ClearBufferEnd
<1>7. Shifted(fs) /\ Ticked
  BY <1>0, <1>1, <1>3, <1>6, Called, TickNone
<1>8. st'.failed = <<>> /\ st'.buffered \in BOOLEAN
  BY <1>0, <1>2, <1>4 DEF CoreTypes
<1>9. CoreTypes'
  <2>1. StateTypes'
    <3>1. <<>> \in Seq(Nat)
      OBVIOUS
    <3> QED
      BY <1>0, <1>4, <1>5, <1>8, <3>1 DEF StateTypes, CoreTypes
  <2> QED
    BY <1>0, <1>3, <1>7, <2>1, TypesStep DEF Ticked
<1>10. BufferOrdered' /\ AllThere'
  <2>1. AllThere'
    BY <1>0, <1>3, <1>5 DEF AllThere
  <2>2. buffer' # <<>> => st'.buffered
    BY <1>2, <1>3, <1>4
  <2> QED
    BY <1>0, <1>3, <2>1, <2>2 DEF BufferOrdered
<1>11. FramesOK' /\ ConstructOnce' /\ TopOK' /\ PlacesOK'
  <2>0. ~Drained
    BY <1>2 DEF Drained
  <2>1. \A fr : FrameOK(fr) => FrameOK(fr)'
    BY <1>3, <1>5, <2>0 DEF FrameOK, Dead
  <2>2. \A i \in 1 .. Len(fs) : /\ fs[i].f \notin Constructing /\ FrameOK(fs[i])'
                                /\ fs[i].f \notin Bottoms
    BY <1>6
  <2>3. /\ st'.finished => Drained'
        /\ st'.onFinished # 0 => st'.ending
        /\ st'.expectWriteCb => st'.writing
        /\ st'.writing => st'.constructed
        /\ st'.failed # <<>> => Dead' /\ ~st'.writing
    BY <1>0, <1>5, <1>8, <2>0 DEF FramesOK, TopOK
  <2>4. /\ \A i \in 2 .. Len(fs) : fs[i].f \notin AtOnce
        /\ Len(fs) > 0 => /\ fs[1].f \notin {"clearBuffer", "onwrite"}
                          /\ fs[1].f = "_write" => st'.sync /\ st'.expectWriteCb
    BY <1>6
  <2> QED
    BY <1>3, <1>5, <1>7, <2>1, <2>2, <2>3, <2>4, MoveStep
<1>12. LoopsOK'
  <2>1. /\ Len(stack) \in Nat /\ DOMAIN stack' = 1 .. Len(stack')
        /\ \A i \in 1 .. Len(stack') :
             IF i <= Len(fs) THEN stack'[i] = fs[i]
             ELSE i - Len(fs) + 1 \in 2 .. Len(stack) /\ stack'[i] = stack[i - Len(fs) + 1]
    BY <1>0, <1>7, Shift
  <2>2. \A i \in DOMAIN stack' : stack'[i].f \notin Loops
    BY <1>2, <1>6, <2>1
  <2> QED
    BY <1>4, <2>2 DEF LoopsOK
<1>13. ErrorsOK'
  <2>1. \A i \in 1 .. Len(fs) : fs[i].f \notin Errors
    BY <1>6
  <2> QED
    BY <1>0, <1>1, <1>2, <1>5, <1>7, <1>8, <2>1, ErrorsStep
<1>14. Waiting'
  BY <1>2, <1>3, <1>5 DEF Waiting
<1> QED
  BY <1>9, <1>10, <1>11, <1>12, <1>13, <1>14 DEF SinkInv

\* write() after end() or destroy() is refused.
LEMMA WriteRefused ==
  ASSUME SinkInv, NEW k \in Kinds, InUser, writeRefused(k), io' = io PROVE SinkInv'
<1>0. CoreTypes
  BY DEF SinkInv
<1>1. /\ Tick(Fc(Single(k), TRUE)) /\ Push(<<Fn("errorOrDestroy", 1)>>)
      /\ st' = st /\ buffer' = buffer /\ given' = given /\ sunk' = sunk
  BY DEF writeRefused
<1>2. PICK x \in PlainFrames : x = Fn("errorOrDestroy", 1)
  <2>1. /\ "errorOrDestroy" \in PlainNames /\ 1 \in Int /\ TRUE \in BOOLEAN
        /\ <<>> \in Seq(Kinds \cup {"end"})
    BY DEF PlainNames
  <2> QED
    BY <2>1, PlainCalls
<1>3. PICK gs \in Seq(Frames) : gs = <<x>> /\ Len(gs) = 1 /\ gs[1] = x
  BY ListOfOne DEF PlainFrames
<1>4. Push(gs)
  BY <1>1, <1>2, <1>3
<1>5. Ticked
  <2>1. Single(k) \in Seq(Kinds \cup {"end"}) /\ TRUE \in BOOLEAN
    <3>1. <<>> \in Seq(Kinds \cup {"end"}) /\ <<k>> \in Seq(Kinds \cup {"end"})
      OBVIOUS
    <3> QED
      BY <3>1 DEF Single
  <2>2. PICK y \in PlainFrames : y = Fc(Single(k), TRUE)
    BY <2>1, CallbackFrame
  <2> QED
    BY <1>0, <1>1, <2>2, TickPlain
<1>6. Calm /\ StateTypes'
  <2>1. Calm
    BY <1>1 DEF Calm
  <2>2. StateTypes
    BY <1>0 DEF StateTypes, CoreTypes
  <2>3. StateTypes'
    BY <1>1, <2>2 DEF StateTypes
  <2> QED
    BY <2>1, <2>3
<1>7. \A i \in 1 .. Len(gs) : gs[i] \in PlainFrames
  <2>1. \A i \in 1 .. Len(gs) : i = 1
    BY <1>3
  <2> QED
    BY <1>3, <2>1
<1> QED
  BY <1>1, <1>4, <1>5, <1>6, <1>7, UserStep

\* Where the user may call: neither a loop of clearBuffer() runs, nor the end of
\* errorBuffer() on a stream that takes chunks.
LEMMA UserQuiet ==
  ASSUME SinkInv, InUser, ~st.ending, ~st.destroyed
  PROVE  /\ ~st.bufferProcessing
         /\ \A i \in DOMAIN stack : stack[i].f \notin Loops \cup {"resetBuffer"}
         /\ stack # <<>> => Head(stack).f \notin {"clearBuffer", "errorOrDestroy", "destroy"}
<1>0. CoreTypes /\ LoopsOK /\ ErrorsOK
  BY DEF SinkInv
<1>1. OnTop \in {"none", "user"}
  BY DEF InUser, OnTop, Top
<1>2. ~st.bufferProcessing /\ \A i \in DOMAIN stack : stack[i].f \notin Loops
  BY <1>0, <1>1, NoLoops DEF LoopTops, Loops
<1>3. ASSUME NEW i \in DOMAIN stack, stack[i].f = "resetBuffer" PROVE FALSE
  <2>1. stack # <<>> /\ Head(stack) = stack[1]
    BY <1>0, <1>3 DEF CoreTypes
  <2>2. stack[1].f = "user"
    BY <2>1 DEF InUser, Top
  <2> QED
    BY <1>0, <1>1, <1>3, <2>2 DEF ErrorsOK
<1> QED
  BY <1>1, <1>2, <1>3 DEF OnTop

\* A chunk that has to wait goes behind the others.
LEMMA WriteQueues ==
  ASSUME SinkInv, NEW k \in Kinds, InUser, writeOrBuffer(k), MustBuffer, io' = io PROVE SinkInv'
<1>0. /\ CoreTypes /\ FramesOK /\ PlacesOK /\ TopOK /\ LoopsOK /\ ErrorsOK /\ BufferOrdered
      /\ AllThere
  BY DEF SinkInv
<1>1. ~st.ending /\ ~st.destroyed
  BY DEF writeOrBuffer
<1>2. /\ ~st.bufferProcessing
      /\ \A i \in DOMAIN stack : stack[i].f \notin Loops \cup {"resetBuffer"}
  BY <1>1, UserQuiet
<1>3. /\ given' = Append(given, k) /\ buffer' = Append(buffer, Len(given) + 1) /\ sunk' = sunk
      /\ Push(<<F("writeReturn")>>) /\ ticks' = ticks
      /\ st' = [[st EXCEPT !.pendingcb = @ + 1, !.length = @ + 1] EXCEPT !.buffered = TRUE]
  BY DEF writeOrBuffer
<1>4. /\ DOMAIN st' = Fields
      /\ \A x \in Fields \ {"pendingcb", "length", "buffered"} : st'[x] = st[x]
      /\ st'.buffered = TRUE
  BY <1>0, <1>3 DEF CoreTypes, Fields
<1>5. /\ st'.ending = st.ending /\ st'.errored = st.errored /\ st'.destroyed = st.destroyed
      /\ st'.writing = st.writing /\ st'.failed = st.failed
      /\ st'.expectWriteCb = st.expectWriteCb /\ st'.onFinished = st.onFinished
      /\ st'.constructed = st.constructed /\ st'.finished = st.finished
      /\ st'.corked = st.corked /\ st'.bufferProcessing = st.bufferProcessing
      /\ st'.writecb = st.writecb /\ st'.sync = st.sync
  BY <1>4 DEF Fields
<1>6. PICK x \in PlainFrames : x = F("writeReturn")
  <2>1. "writeReturn" \in PlainNames
    BY DEF PlainNames
  <2> QED
    BY <2>1, Simple
<1>7. PICK gs \in Seq(Frames) : gs = <<x>> /\ Len(gs) = 1 /\ gs[1] = x
  BY ListOfOne DEF PlainFrames
<1>8. Push(gs)
  BY <1>3, <1>6, <1>7
<1>9. PICK fs \in Seq(Frames) : Shifted(fs) /\ Len(fs) = 2 /\ fs[1] \in PlainFrames
          /\ fs[2] \in PlainFrames
  <2>0. PICK fs \in Seq(Frames) : PushedAs(gs, fs)
    BY <1>8, PushedList
  <2>1. /\ Shifted(fs) /\ Len(fs) = Len(gs) + 1
        /\ \A i \in 1 .. Len(gs) : fs[i] = gs[i]
        /\ fs[Len(gs) + 1] \in PlainFrames
    BY <2>0 DEF PushedAs
  <2>2. Len(fs) = 2 /\ fs[1] = gs[1] /\ fs[2] \in PlainFrames
    BY <1>7, <2>1
  <2> QED
    BY <1>7, <2>1, <2>2
<1>10. OnTop \in {"none", "user"}
  BY <1>8, PushedList
<1>11. Ticked
  BY <1>0, <1>3, TickNone
<1>12. /\ given \in Seq(Kinds) /\ Len(given) \in Nat /\ given' \in Seq(Kinds)
       /\ Len(given') = Len(given) + 1
       /\ buffer \in Seq(Nat) /\ Len(buffer) \in Nat /\ buffer' \in Seq(Nat)
       /\ Len(buffer') = Len(buffer) + 1
       /\ DOMAIN buffer = 1 .. Len(buffer) /\ DOMAIN buffer' = 1 .. Len(buffer) + 1
       /\ buffer'[Len(buffer) + 1] = Len(given) + 1
       /\ \A i \in 1 .. Len(buffer) : buffer'[i] = buffer[i]
       /\ sunk \in Seq(Nat) /\ Len(sunk) \in Nat /\ DOMAIN sunk = 1 .. Len(sunk)
  BY <1>0, <1>3 DEF CoreTypes
<1>13. CoreTypes'
  <2>1. StateTypes'
    BY <1>0, <1>4, <1>5 DEF StateTypes, CoreTypes
  <2>2. stack' \in Seq(Frames) /\ ticks' \in Seq(Frames)
    BY <1>0, <1>9, <1>11, Shift DEF Ticked
  <2> QED
    BY <1>3, <1>12, <2>1, <2>2 DEF CoreTypes, StateTypes
<1>14. BufferOrdered'
  <2>1. \A i \in 1 .. Len(buffer) : 1 <= buffer[i] /\ buffer[i] <= Len(given) /\ buffer[i] \in Nat
    <3>1. \A i \in 1 .. Len(buffer) : buffer[i] \in Nat /\ i \in DOMAIN buffer
      BY <1>12
    <3> QED
      BY <1>0, <3>1 DEF BufferOrdered
  <2>2. \A i \in DOMAIN buffer' : 1 <= buffer'[i] /\ buffer'[i] <= Len(given')
    <3> TAKE i \in DOMAIN buffer'
    <3>1. CASE i \in 1 .. Len(buffer)
      BY <1>12, <2>1, <3>1
    <3>2. CASE i = Len(buffer) + 1
      BY <1>12, <3>2
    <3> QED
      BY <1>12, <3>1, <3>2
  <2>3. ASSUME NEW i \in DOMAIN buffer', NEW j \in DOMAIN buffer', i < j
            PROVE buffer'[i] < buffer'[j]
    <3>1. i \in 1 .. Len(buffer)
      BY <1>12, <2>3
    <3>2. CASE j \in 1 .. Len(buffer)
      BY <1>0, <1>12, <2>3, <3>1, <3>2 DEF BufferOrdered
    <3>3. CASE j = Len(buffer) + 1
      BY <1>12, <2>1, <3>1, <3>3
    <3> QED
      BY <1>12, <3>2, <3>3
  <2> QED
    BY <1>4, <2>2, <2>3 DEF BufferOrdered
<1>15. AllThere'
  <2> SUFFICES ASSUME ~(st.errored \/ st.destroyed)
               PROVE  /\ Len(sunk') + Len(buffer') = Len(given')
                      /\ \A i \in DOMAIN sunk' : sunk'[i] = i
                      /\ \A i \in DOMAIN buffer' : buffer'[i] = Len(sunk') + i
    BY <1>5 DEF AllThere
  <2>1. /\ Len(sunk) + Len(buffer) = Len(given)
        /\ \A i \in DOMAIN sunk : sunk[i] = i
        /\ \A i \in DOMAIN buffer : buffer[i] = Len(sunk) + i
    BY <1>0 DEF AllThere
  <2>2. \A i \in DOMAIN buffer' : buffer'[i] = Len(sunk') + i
    <3> TAKE i \in DOMAIN buffer'
    <3>1. CASE i \in 1 .. Len(buffer)
      BY <1>3, <1>12, <2>1, <3>1
    <3>2. CASE i = Len(buffer) + 1
      BY <1>3, <1>12, <2>1, <3>2
    <3> QED
      BY <1>12, <3>1, <3>2
  <2>3. Len(sunk') + Len(buffer') = Len(given')
    BY <1>3, <1>12, <2>1
  <2> QED
    BY <1>3, <2>1, <2>2, <2>3
<1>16. \A i \in 1 .. Len(fs) : fs[i] \in PlainFrames
  <2>1. \A i \in 1 .. Len(fs) : i = 1 \/ i = 2
    BY <1>9
  <2> QED
    BY <1>9, <2>1
<1>17. \A i \in 1 .. Len(fs) : fs[i].f \notin Special
  BY <1>16 DEF PlainFrames
<1>18. FramesOK' /\ ConstructOnce' /\ TopOK' /\ PlacesOK'
  <2>0. ~Drained
    BY <1>1 DEF Drained
  <2>1. ASSUME NEW fr, FrameOK(fr), fr.f # "resetBuffer", fr.f # "errorLoop" PROVE FrameOK(fr)'
    BY <1>5, <2>0, <2>1 DEF FrameOK, Dead
  <2>2. \A i \in 2 .. Len(stack) : \A fr : fr = stack[i] /\ FrameOK(fr) => FrameOK(fr)'
    <3> SUFFICES ASSUME NEW i \in 2 .. Len(stack), NEW fr, fr = stack[i], FrameOK(fr)
                 PROVE  FrameOK(fr)'
      OBVIOUS
    <3>1. i \in DOMAIN stack /\ fr \in Frames
      BY <1>0 DEF CoreTypes
    <3>2. CASE fr.f = "errorLoop"
      <4>1. /\ fr.n \in Int /\ fr.n <= Len(given) /\ \A j \in DOMAIN buffer : fr.n < buffer[j]
            /\ Dead /\ ~st.writing
        BY <3>1, <3>2 DEF FrameOK, Frames
      <4>2. ASSUME NEW j \in DOMAIN buffer' PROVE fr.n < buffer'[j]
        <5>1. CASE j \in 1 .. Len(buffer)
          BY <1>12, <4>1, <5>1
        <5>2. CASE j = Len(buffer) + 1
          BY <1>12, <4>1, <5>2
        <5> QED
          BY <1>12, <5>1, <5>2
      <4>3. fr.n <= Len(given')
        BY <1>12, <4>1
      <4> QED
        BY <1>5, <3>2, <4>1, <4>2, <4>3 DEF FrameOK, Dead, Constructing
    <3>3. CASE fr.f # "errorLoop"
      BY <1>2, <2>1, <3>1, <3>3
    <3> QED
      BY <3>2, <3>3
  <2>3. \A fr : fr.f \notin Direct /\ FrameOK(fr) => FrameOK(fr)'
    BY <2>1 DEF Direct
  <2>4. \A i \in 1 .. Len(fs) : /\ fs[i].f \notin Constructing /\ FrameOK(fs[i])'
                                /\ fs[i].f \notin Bottoms
    BY <1>17, FreeFrame DEF Special, Careful
  <2>5. /\ \A i \in 2 .. Len(fs) : fs[i].f \notin AtOnce
        /\ Len(fs) > 0 => /\ fs[1].f \notin {"clearBuffer", "onwrite"}
                          /\ fs[1].f = "_write" => st'.sync /\ st'.expectWriteCb
    <3>1. 1 \in 1 .. Len(fs) /\ \A i \in 2 .. Len(fs) : i \in 1 .. Len(fs)
      BY <1>9
    <3> QED
      BY <1>17, <3>1 DEF Special, AtOnce
  <2>6. /\ st'.finished => Drained'
        /\ st'.onFinished # 0 => st'.ending
        /\ st'.expectWriteCb => st'.writing
        /\ st'.writing => st'.constructed
        /\ st'.failed # <<>> => Dead' /\ ~st'.writing
    BY <1>0, <1>5, <2>0 DEF FramesOK, TopOK, Dead
  <2> QED
    BY <1>5, <1>9, <1>11, <2>2, <2>3, <2>4, <2>5, <2>6, MoveStep
<1>19. LoopsOK'
  <2>1. \A i \in 1 .. Len(fs) : fs[i].f \notin Loops
    BY <1>17 DEF Special
  <2> QED
    BY <1>0, <1>5, <1>9, <1>10, <2>1, LoopsStep DEF LoopTops, Loops
<1>20. ErrorsOK'
  <2>1. \A i \in 1 .. Len(fs) : fs[i].f \notin Errors
    BY <1>17 DEF Special, Careful
  <2> QED
    BY <1>0, <1>5, <1>9, <1>10, <2>1, ErrorsStep
<1>21. Waiting'
  <2>1. st.corked > 0 => st'.corked > 0
    BY <1>5
  <2> QED
    BY <1>5, <2>1 DEF Waiting, MustBuffer
<1> QED
  BY <1>13, <1>14, <1>15, <1>18, <1>19, <1>20, <1>21 DEF SinkInv

\* A chunk passes straight to an idle sink when none waits.
LEMMA WritePasses ==
  ASSUME SinkInv, NEW k \in Kinds, InUser, writeOrBuffer(k), ~MustBuffer, io' = io
  PROVE  SinkInv' /\ buffer = <<>>
<1>0. /\ CoreTypes /\ FramesOK /\ PlacesOK /\ TopOK /\ LoopsOK /\ ErrorsOK /\ BufferOrdered
      /\ AllThere
      /\ Waiting
  BY DEF SinkInv
<1>1. ~st.ending /\ ~st.destroyed /\ ~st.writing /\ ~st.errored /\ ~(st.corked > 0)
          /\ st.constructed
  BY DEF writeOrBuffer, MustBuffer
<1>2. /\ ~st.bufferProcessing
      /\ \A i \in DOMAIN stack : stack[i].f \notin Loops \cup {"resetBuffer"}
      /\ stack # <<>> => Head(stack).f \notin {"clearBuffer", "errorOrDestroy", "destroy"}
  BY <1>1, UserQuiet
<1>3. buffer = <<>>
  BY <1>0, <1>1, <1>2 DEF Waiting
<1> DEFINE s == [st EXCEPT !.pendingcb = @ + 1, !.length = @ + 1]
<1>4. /\ given' = Append(given, k) /\ buffer' = buffer /\ sunk' = Append(sunk, Len(given) + 1)
      /\ Push(<<F("_write"), F("unsync"), F("writeReturn")>>) /\ ticks' = ticks
      /\ st' = StartWrite(s, 1, Single(k))
  BY DEF writeOrBuffer
<1> DEFINE cb == Single(k)
<1>5. cb \in Seq(Kinds)
  <2>1. <<>> \in Seq(Kinds) /\ <<k>> \in Seq(Kinds)
    OBVIOUS
  <2> QED
    BY <2>1 DEF Single
<1> HIDE DEF cb
<1>6. st' = StartWrite(s, 1, cb)
  BY <1>4 DEF cb
<1>7. /\ DOMAIN st' = Fields

      /\ \A x \in Fields \ {"pendingcb", "length", "writelen", "writecb", "writing", "sync",
          "expectWriteCb"} :
           st'[x] = st[x]
      /\ st'.writecb = cb
      /\ st'.writing = TRUE /\ st'.sync = TRUE /\ st'.expectWriteCb = TRUE
  BY <1>0, <1>6 DEF StartWrite, CoreTypes, Fields
<1>8. /\ st'.ending = st.ending /\ st'.errored = st.errored /\ st'.destroyed = st.destroyed
      /\ st'.buffered = st.buffered /\ st'.onFinished = st.onFinished
      /\ st'.constructed = st.constructed /\ st'.finished = st.finished
      /\ st'.corked = st.corked /\ st'.bufferProcessing = st.bufferProcessing
      /\ st'.failed = st.failed
  BY <1>7 DEF Fields
<1>9. PICK x \in Frames, y \in Frames, z \in Frames :
        /\ x = F("_write") /\ x.f = "_write" /\ y = F("unsync") /\ y.f = "unsync"
        /\ z = F("writeReturn") /\ z.f = "writeReturn"
  BY WriteFrames
<1>10. PICK gs \in Seq(Frames) : gs = <<x, y, z>> /\ Len(gs) = 3 /\ gs[1] = x /\ gs[2] = y
           /\ gs[3] = z
  BY ListOfThree
<1>11. Push(gs)
  BY <1>4, <1>9, <1>10
<1>12. PICK fs \in Seq(Frames) :
         /\ Shifted(fs) /\ Len(fs) = 4 /\ fs[1].f = "_write" /\ fs[2].f = "unsync"
         /\ fs[3].f = "writeReturn"
         /\ fs[4] \in PlainFrames
  <2>0. PICK fs \in Seq(Frames) : PushedAs(gs, fs)
    BY <1>11, PushedList
  <2>1. /\ Shifted(fs) /\ Len(fs) = Len(gs) + 1
        /\ \A i \in 1 .. Len(gs) : fs[i] = gs[i]
        /\ fs[Len(gs) + 1] \in PlainFrames
    BY <2>0 DEF PushedAs
  <2>2. Len(fs) = 4 /\ fs[1] = gs[1] /\ fs[2] = gs[2] /\ fs[3] = gs[3] /\ fs[4] \in PlainFrames
    BY <1>10, <2>1
  <2> QED
    BY <1>9, <1>10, <2>1, <2>2
<1>13. OnTop \in {"none", "user"}
  BY <1>11, PushedList
<1>14. Ticked
  BY <1>0, <1>4, TickNone
<1>15. /\ given \in Seq(Kinds) /\ Len(given) \in Nat /\ given' \in Seq(Kinds)
       /\ Len(given') = Len(given) + 1
       /\ sunk \in Seq(Nat) /\ Len(sunk) \in Nat /\ sunk' \in Seq(Nat)
       /\ Len(sunk') = Len(sunk) + 1
       /\ DOMAIN sunk = 1 .. Len(sunk) /\ DOMAIN sunk' = 1 .. Len(sunk) + 1
       /\ sunk'[Len(sunk) + 1] = Len(given) + 1
       /\ \A i \in 1 .. Len(sunk) : sunk'[i] = sunk[i]
       /\ buffer' \in Seq(Nat) /\ Len(buffer') = 0 /\ Len(buffer) = 0
  BY <1>0, <1>3, <1>4 DEF CoreTypes
<1>16. CoreTypes'
  <2>1. StateTypes'
    BY <1>0, <1>5, <1>7, <1>8 DEF StateTypes, CoreTypes
  <2>2. stack' \in Seq(Frames) /\ ticks' \in Seq(Frames)
    BY <1>0, <1>12, <1>14, Shift DEF Ticked
  <2> QED
    BY <1>15, <2>1, <2>2 DEF CoreTypes, StateTypes
<1>17. BufferOrdered'
  BY <1>3, <1>4 DEF BufferOrdered
<1>18. AllThere'
  <2>1. /\ Len(sunk) + Len(buffer) = Len(given)
        /\ \A i \in DOMAIN sunk : sunk[i] = i
    BY <1>0, <1>1 DEF AllThere
  <2>2. \A i \in DOMAIN sunk' : sunk'[i] = i
    <3> TAKE i \in DOMAIN sunk'
    <3>1. CASE i \in 1 .. Len(sunk)
      BY <1>15, <2>1, <3>1
    <3>2. CASE i = Len(sunk) + 1
      BY <1>15, <2>1, <3>2
    <3> QED
      BY <1>15, <3>1, <3>2
  <2>3. Len(sunk') + Len(buffer') = Len(given')
    BY <1>15, <2>1
  <2>4. \A i \in DOMAIN buffer' : FALSE
    BY <1>3, <1>4
  <2> QED
    BY <2>2, <2>3, <2>4 DEF AllThere
<1>19. \A i \in 1 .. Len(fs) :
         \/ i = 1 /\ fs[i].f = "_write"
         \/ fs[i].f \notin Special
  <2>1. \A i \in 1 .. Len(fs) : i = 1 \/ i = 2 \/ i = 3 \/ i = 4
    BY <1>12
  <2>2. "unsync" \notin Special /\ "writeReturn" \notin Special /\ fs[4].f \notin Special
    BY <1>12 DEF Special, AtOnce, Loops, Careful, Errors, Constructing, Bottoms, PlainFrames
  <2> QED
    BY <1>12, <2>1, <2>2
<1>20. \A i \in 1 .. Len(fs) : fs[i].f \notin Careful \cup Bottoms \cup Loops
  BY <1>19 DEF Special, Careful, Errors, Constructing, Bottoms, Loops
<1>21. FramesOK' /\ ConstructOnce' /\ TopOK' /\ PlacesOK'
  <2>0. ~Drained /\ ~Dead
    BY <1>1 DEF Drained, Dead
  <2>1. ASSUME NEW fr, FrameOK(fr) PROVE FrameOK(fr)'
    <3>1. fr.f \notin Errors \/ fr.f = "resetBuffer"
      BY <2>0, <2>1 DEF FrameOK, Errors
    <3>2. fr.f # "errorLoop" /\ fr.f # "onwriteError" /\ fr.f # "errorBuffer"
      BY <3>1 DEF Errors
    <3> QED
      BY <1>3, <1>4, <1>8, <2>0, <2>1, <3>2 DEF FrameOK
  <2>4. \A i \in 1 .. Len(fs) : /\ fs[i].f \notin Constructing /\ FrameOK(fs[i])'
                                /\ fs[i].f \notin Bottoms
    BY <1>20, FreeFrame DEF Careful
  <2>5. /\ \A i \in 2 .. Len(fs) : fs[i].f \notin AtOnce
        /\ Len(fs) > 0 => /\ fs[1].f \notin {"clearBuffer", "onwrite"}
                          /\ fs[1].f = "_write" => st'.sync /\ st'.expectWriteCb
    <3>1. \A i \in 2 .. Len(fs) : i \in 1 .. Len(fs) /\ i # 1
      BY <1>12
    <3> QED
      BY <1>7, <1>12, <1>19, <3>1 DEF Special, AtOnce
  <2>6. /\ st'.finished => Drained'
        /\ st'.onFinished # 0 => st'.ending
        /\ st'.expectWriteCb => st'.writing
        /\ st'.writing => st'.constructed
        /\ st'.failed # <<>> => Dead' /\ ~st'.writing
    BY <1>0, <1>1, <1>7, <1>8, <2>0 DEF FramesOK, TopOK
  <2> QED
    BY <1>8, <1>12, <1>14, <2>1, <2>4, <2>5, <2>6, MoveStep
<1>22. LoopsOK'
  BY <1>0, <1>8, <1>12, <1>13, <1>20, LoopsStep DEF LoopTops, Loops
<1>23. ErrorsOK'
  <2>1. \A i \in 1 .. Len(fs) : fs[i].f \notin Errors
    BY <1>20 DEF Careful
  <2> QED
    BY <1>0, <1>8, <1>12, <1>13, <2>1, ErrorsStep
<1>24. Waiting'
  BY <1>3, <1>4 DEF Waiting
<1> QED
  BY <1>3, <1>16, <1>17, <1>18, <1>21, <1>22, <1>23, <1>24 DEF SinkInv

\* write(): refused, queued or passed to _write at once.
LEMMA WriteAction ==
  ASSUME SinkInv, NEW k \in Kinds, Write(k) PROVE SinkInv'
<1>1. InUser /\ io' = io /\ (writeRefused(k) \/ writeOrBuffer(k))
  BY DEF Write, UserCalls
<1> QED
  BY <1>1, WriteRefused, WriteQueues, WritePasses

-----------------------------------------------------------------------------
(***************************************************************************)
(* Every step keeps the invariant                                          *)
(***************************************************************************)

\* clearBuffer(): nothing to do, one _writev, or the first of many _write.
LEMMA ClearBufferAction ==
  ASSUME SinkInv, ClearBuffer PROVE SinkInv'
<1>1. CASE ClearReady /\ Len(Array) > 1 /\ opt.writev
  BY <1>1, ClearBufferWritev
<1>2. CASE ClearReady /\ ~(Len(Array) > 1 /\ opt.writev)
  BY <1>2, ClearBufferStarts
<1>3. CASE ~ClearReady
  <2>1. st.destroyed \in BOOLEAN /\ st.corked \in Nat
    BY DEF SinkInv, CoreTypes
  <2>2. \/ st.destroyed \/ st.bufferProcessing \/ st.corked > 0 \/ ~st.buffered
        \/ ~st.constructed \/ Array = <<>>
    BY <1>3, <2>1 DEF ClearReady
  <2> QED
    BY <2>2, ClearBufferSkips
<1> QED
  BY <1>1, <1>2, <1>3

\* What is run on the stack, function by function.
LEMMA RunAction ==
  ASSUME SinkInv, Run PROVE SinkInv'
<1>1. CASE \/ UserReturn \/ WriteReturn \/ Prefinish \/ ImplFinal \/ OnFinishError
           \/ EmitFinish \/ ImplDestroy \/ OnDestroy \/ EmitErrorCloseNT \/ EmitErrorNT
           \/ EmitCloseNT
  BY <1>1, PlainActions
<1>2. CASE EndSetEnding \/ EndCallback
  BY <1>2, EndActions
<1>3. CASE FinishMaybeCheck \/ FinishNT \/ OnFinish \/ OnFinishTick
  BY <1>3, FinishActions
<1>4. CASE AfterWriteTick \/ AfterWrite \/ AfterWriteLoop \/ OnwriteError
  BY <1>4, AfterWriteActions
<1>5. CASE RunTick
  BY <1>5, TickStarts
<1>6. CASE ConstructNT
  <2>1. TRUE \in BOOLEAN
    OBVIOUS
  <2> QED
    BY <1>6, <2>1, ConstructActions
<1>7. CASE OnConstruct
  BY <1>7, Constructed
<1>8. CASE RunCallbacks \/ CallFinishedCallbacks
  BY <1>8, CallbackActions
<1>9. CASE ErrorBuffer \/ ErrorOrDestroy \/ Destroy \/ Finish
  BY <1>9, FailActions
<1>10. CASE ImplWrite \/ Unsync \/ FinishMaybe
  BY <1>10, InnerActions
<1>11. CASE OnwriteSync
  BY <1>11, OnwriteSyncAction
<1>12. CASE Onwrite
  BY <1>12, OnwriteAction
<1>13. CASE ErrorLoop
  BY <1>13, ErrorLoopAction, ErrorLoopEnds
<1>14. CASE ResetBuffer
  BY <1>14, ResetBufferAction
<1>15. CASE ClearBuffer
  BY <1>15, ClearBufferAction
<1>16. CASE ClearBufferLoop
  BY <1>16, ClearBufferNext, ClearBufferLeaves
<1>17. CASE ClearBufferEnd
  BY <1>17, ClearBufferEndAction
<1> QED
  BY <1>1, <1>2, <1>3, <1>4, <1>5, <1>6, <1>7, <1>8, <1>9, <1>10, <1>11, <1>12, <1>13, <1>14,
     <1>15, <1>16, <1>17 DEF Run

\* The user calls, the implementation calls back, or a function on the stack
\* runs: the invariant holds again, unless the user uncorks inside errorBuffer().
LEMMA SinkNext ==
  ASSUME ~LateUncork, SinkInv, [Next]_vars PROVE SinkInv'
<1>1. CASE UserCall
  <2>1. ASSUME NEW k \in Kinds, Write(k) PROVE SinkInv'
    BY <2>1, WriteAction
  <2>2. ASSUME Cork \/ Uncork PROVE SinkInv'
    <3>1. 0 \in 0 .. 1 /\ TRUE \in BOOLEAN
      OBVIOUS
    <3> QED
      BY <2>2, <3>1, UserActions
  <2>3. ASSUME NEW n \in 0 .. 1, End(n) PROVE SinkInv'
    <3>1. TRUE \in BOOLEAN
      OBVIOUS
    <3> QED
      BY <2>3, <3>1, UserActions
  <2>4. ASSUME NEW er \in BOOLEAN, UserDestroy(er) PROVE SinkInv'
    <3>1. 0 \in 0 .. 1
      OBVIOUS
    <3> QED
      BY <2>4, <3>1, UserActions
  <2> QED
    BY <1>1, <2>1, <2>2, <2>3, <2>4 DEF UserCall
<1>2. CASE Implementation
  <2>1. PICK er \in BOOLEAN :
          \/ ImplWriteLater(er) \/ ImplFinalLater(er) \/ ImplDestroyLater(er)
          \/ ImplConstruct(er)
    BY <1>2 DEF Implementation
  <2> QED
    BY <2>1, LaterActions, ConstructActions
<1>3. CASE Run
  BY <1>3, RunAction
<1>4. CASE UNCHANGED vars
  <2>1. /\ UNCHANGED <<opt, st, buffer, stack, ticks, io, given, sunk>>
    BY <1>4 DEF vars
  <2>2. CoreTypes' /\ BufferOrdered' /\ AllThere'
    BY <2>1 DEF SinkInv, CoreTypes, BufferOrdered, AllThere
  <2>5. ConstructOnce'
    BY <2>1 DEF SinkInv, ConstructOnce
  <2>6. TopOK'
    BY <2>1 DEF SinkInv, TopOK, Top, Dead
  <2>3. FramesOK'
    BY <2>1 DEF SinkInv, FramesOK, FrameOK, Drained, Dead
  <2>4. LoopsOK' /\ ErrorsOK' /\ PlacesOK' /\ Waiting'
    BY <2>1 DEF SinkInv, LoopsOK, LoopOK, ErrorsOK, PlacesOK, Waiting
  <2> QED
    BY <2>2, <2>3, <2>4, <2>5, <2>6 DEF SinkInv
<1> QED
  BY <1>1, <1>2, <1>3, <1>4 DEF Next

\* A stream as its constructor leaves it.
LEMMA SinkInit == Init => SinkInv
<1> SUFFICES ASSUME Init PROVE SinkInv
  OBVIOUS
<1>1. /\ st = InitState /\ buffer = <<>> /\ stack = <<>> /\ io = {}
      /\ given = <<>> /\ sunk = <<>>
      /\ ticks = IF opt.construct THEN <<F("constructNT")>> ELSE <<>>
  BY DEF Init
<1>2. opt.construct \in BOOLEAN
  BY WritableAssumption DEF Init
<1>3. /\ DOMAIN st = Fields /\ st.constructed = ~opt.construct
      /\ \A x \in {"destroyed", "errored", "ending", "finished", "writing", "expectWriteCb",
                   "bufferProcessing", "buffered"} : st[x] = FALSE
      /\ st.sync = TRUE /\ st.corked = 0 /\ st.onFinished = 0 /\ st.failed = <<>>
      /\ st.writecb = <<>>
  BY <1>1 DEF InitState, Fields
<1>4. PICK x \in Frames : x = F("constructNT") /\ x.f = "constructNT"
  <2>1. "constructNT" \in Functions /\ 0 \in Int /\ TRUE \in BOOLEAN
    BY DEF Functions
  <2>2. <<>> \in Seq(Kinds \cup {"end"})
    OBVIOUS
  <2>3. F("constructNT") \in Frames
    BY <2>1, <2>2, FrameTypes
  <2>4. F("constructNT").f = "constructNT"
    BY FrameNames
  <2> QED
    BY <2>3, <2>4
<1>5. /\ ticks \in Seq(Frames)
      /\ \A i \in DOMAIN ticks : i = 1 /\ ticks[i] = x /\ ~st.constructed
  <2>1. CASE opt.construct
    <3>1. ticks = <<x>>
      BY <1>1, <1>4, <2>1
    <3>2. ticks \in Seq(Frames) /\ DOMAIN ticks = {1} /\ ticks[1] = x
      BY <1>4, <3>1
    <3> QED
      BY <1>3, <2>1, <3>2
  <2>2. CASE ~opt.construct
    <3>1. ticks = <<>>
      BY <1>1, <2>2
    <3> QED
      BY <3>1
  <2> QED
    BY <2>1, <2>2
<1>6. CoreTypes
  <2>1. \A x1 \in {"destroyed", "errored", "ending", "finished", "writing", "expectWriteCb",
                   "bufferProcessing", "buffered"} : st[x1] \in BOOLEAN
    BY <1>3
  <2>2. st.constructed \in BOOLEAN /\ st.sync \in BOOLEAN
    BY <1>2, <1>3
  <2>3. st.failed \in Seq(Nat) /\ st.writecb \in Seq(Kinds) /\ given \in Seq(Kinds)
    BY <1>1, <1>3
  <2>4. sunk \in Seq(Nat) /\ buffer \in Seq(Nat) /\ stack \in Seq(Frames)
    BY <1>1
  <2> QED
    BY <1>3, <1>5, <2>1, <2>2, <2>3, <2>4 DEF CoreTypes
<1>7. BufferOrdered /\ AllThere /\ Waiting
  <2>1. DOMAIN buffer = {} /\ DOMAIN sunk = {} /\ Len(sunk) = 0 /\ Len(buffer) = 0
        /\ Len(given) = 0
    BY <1>1
  <2> QED
    BY <1>1, <2>1 DEF BufferOrdered, AllThere, Waiting
<1>8. DOMAIN stack = {} /\ ~Top("clearBuffer") /\ ~Top("_write") /\ ~Top("onwrite")
  BY <1>1 DEF Top
<1>9. FramesOK
  <2>1. \A i \in DOMAIN ticks : FrameOK(ticks[i])
    BY <1>4, <1>5 DEF FrameOK
  <2> QED
    BY <1>1, <1>3, <1>5, <1>8, <2>1 DEF FramesOK
<1>10. ConstructOnce
  BY <1>1, <1>5, <1>8 DEF ConstructOnce
<1>11. TopOK /\ LoopsOK /\ ErrorsOK
  BY <1>3, <1>8 DEF TopOK, LoopsOK, ErrorsOK
<1>12. PlacesOK
  BY <1>4, <1>5, <1>8 DEF PlacesOK, Direct, AtOnce, Loops
<1> QED
  BY <1>6, <1>7, <1>9, <1>10, <1>11, <1>12 DEF SinkInv

\* SinkInv holds in every state.
LEMMA SinkAlways ==
  ASSUME ~LateUncork PROVE Spec => []SinkInv
<1>1. SinkInv /\ [Next]_vars => SinkInv'
  BY SinkNext
<1> QED
  BY <1>1, SinkInit, PTL DEF Spec
=============================================================================
