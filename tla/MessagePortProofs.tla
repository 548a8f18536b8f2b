------------------------- MODULE MessagePortProofs -------------------------
(***************************************************************************)
(* Proofs about MessagePort, for every set of threads, ports and bounds:   *)
(* types, the raw pointer from a Data to its wrap (AttachedIsOwner), the   *)
(* groups (GroupIsOpenPorts) and the wakeups (NoLostWakeup).  The clone of *)
(* a payload may run JavaScript or not.                                    *)
(***************************************************************************)
EXTENDS MessagePort, SequenceTheorems, TLAPS

(***************************************************************************)
(* The call stack                                                          *)
(***************************************************************************)

\* Popping and replacing the running frame leave the frames below it alone.
LEMMA StackOps ==
  ASSUME NEW S, NEW s \in Seq(S), NEW f \in S, NEW g \in S
  PROVE  /\ Append(s, f) \in Seq(S) /\ Append(s, f) # << >>
         /\ s # << >> => /\ Append(s, f)[1] = s[1]
                         /\ s[Len(s)] \in S
                         /\ Pop(s) \in Seq(S)
                         /\ Goto(s, f) \in Seq(S)
                         /\ Append(Goto(s, f), g) \in Seq(S)
                         /\ Goto(s, f) # << >> /\ Append(Goto(s, f), g) # << >>
         /\ s # << >> /\ Len(s) > 1 => /\ Pop(s) # << >> /\ Pop(s)[1] = s[1]
                                       /\ Goto(s, f)[1] = s[1]
                                       /\ Append(Goto(s, f), g)[1] = s[1]
         /\ s # << >> /\ Len(s) = 1 => /\ Pop(s) = << >>
                                       /\ Goto(s, f)[1] = f
                                       /\ Append(Goto(s, f), g)[1] = f
<1> DEFINE p == SubSeq(s, 1, Len(s) - 1)
<1>1. CASE s = << >>
  BY <1>1
<1>2. CASE s # << >>
  <2>1. Len(s) \in Nat /\ Len(s) >= 1 /\ s[1] \in S /\ s[Len(s)] \in S
    BY <1>2
  <2>2. p \in Seq(S) /\ Len(p) = Len(s) - 1 /\ \A i \in 1..Len(s)-1 : p[i] = s[i]
    <3>1. (\A i \in 1..Len(s)-1 : s[i] \in S) /\ 1 \in Int /\ Len(s) - 1 \in Int
      BY <2>1
    <3>2. /\ p \in Seq(S)
          /\ Len(p) = IF 1 <= Len(s) - 1 THEN Len(s) - 1 - 1 + 1 ELSE 0
          /\ \A i \in 1..Len(s) - 1 - 1 + 1 : p[i] = s[1 + i - 1]
      BY <3>1, SubSeqProperties
    <3> HIDE DEF p
    <3>3. \A i \in 1..Len(s)-1 : i \in 1..Len(s)-1-1+1 /\ 1+i-1 = i
      BY <2>1
    <3>5. \A n \in Nat : n >= 1 => (IF 1 <= n - 1 THEN n - 1 - 1 + 1 ELSE 0) = n - 1
      OBVIOUS
    <3>4. Len(p) = Len(s) - 1
      BY <2>1, <3>2, <3>5, Zenon
    <3> QED BY <2>1, <3>2, <3>3, <3>4
  <2> HIDE DEF p
  <2>3. Append(p, f) \in Seq(S) /\ Len(Append(p, f)) = Len(s)
        /\ (\A i \in 1..Len(s)-1 : Append(p, f)[i] = s[i]) /\ Append(p, f)[Len(s)] = f
    BY <2>1, <2>2
  <2>4. Append(Append(p, f), g) \in Seq(S) /\ Len(Append(Append(p, f), g)) = Len(s) + 1
        /\ \A i \in 1..Len(s) : Append(Append(p, f), g)[i] = Append(p, f)[i]
    BY <2>1, <2>2, <2>3
  <2>5. Append(s, f) \in Seq(S) /\ Append(s, f)[1] = s[1]
    BY <2>1
  <2>6. Len(s) = 1 => p = << >>
    BY <2>2
  <2>7. p = Pop(s) BY DEF p, Pop
  <2> QED BY <2>1, <2>2, <2>3, <2>4, <2>5, <2>6, <2>7 DEF Goto
<1> QED BY <1>1, <1>2

StackType == stack \in [Threads -> Seq(Frame)]

\* The running frame has the type of its operation.
LEMMA TopType ==
  ASSUME StackType, NEW t \in Threads, stack[t] # << >>
  PROVE  /\ Top(t) \in Frame
         /\ Top(t).op = "post"    => Top(t) \in PostFrame
         /\ Top(t).op = "enqueue" => Top(t) \in EnqueueFrame
         /\ Top(t).op = "join"    => Top(t) \in JoinFrame
         /\ Top(t).op = "close"   => Top(t) \in CloseFrame
         /\ Top(t).op = "pump"    => Top(t) \in PumpFrame
<1>1. Top(t) \in Frame
  BY StackOps DEF StackType, Top
<1>2. /\ Top(t) \in PostFrame    => Top(t).op = "post"
      /\ Top(t) \in EnqueueFrame => Top(t).op = "enqueue"
      /\ Top(t) \in JoinFrame    => Top(t).op = "join"
      /\ Top(t) \in CloseFrame   => Top(t).op = "close"
      /\ Top(t) \in PumpFrame    => Top(t).op = "pump"
  BY DEF PostFrame, EnqueueFrame, JoinFrame, CloseFrame, PumpFrame
<1> QED BY <1>1, <1>2 DEF Frame

\* The stack stays a stack of frames.
LEMMA StackStep ==
  ASSUME StackType, NEW t \in Threads, NEW f \in Frame, NEW g \in Frame
  PROVE  /\ Push(t, f) => StackType'
         /\ stack[t] # << >> /\ Return(t) => StackType'
         /\ stack[t] # << >> /\ Continue(t, f) => StackType'
         /\ stack[t] # << >> /\ Call(t, f, g) => StackType'
<1>1. stack[t] \in Seq(Frame)
  BY DEF StackType
<1>2. /\ Append(stack[t], f) \in Seq(Frame)
      /\ stack[t] # << >> => /\ Pop(stack[t]) \in Seq(Frame)
                             /\ Goto(stack[t], f) \in Seq(Frame)
                             /\ Append(Goto(stack[t], f), g) \in Seq(Frame)
  BY <1>1, StackOps
<1>3. \A s \in Seq(Frame) : [stack EXCEPT ![t] = s] \in [Threads -> Seq(Frame)]
  BY DEF StackType
<1> QED BY <1>2, <1>3 DEF StackType, Push, Return, Continue, Call

\* The types of the shared objects, the wraps and the environments.
DataTypes ==
  /\ queue \in [Datas -> Seq(Message)]
  /\ closeEnq \in [Datas -> BOOLEAN]
  /\ closed \in [Datas -> BOOLEAN]
  /\ sibling \in [Datas -> Datas \cup {None}]
  /\ attached \in [Datas -> Wraps \cup {None}]
  /\ group \in [Datas -> Groups \cup {None}]
  /\ born \subseteq Datas
  /\ members \in [Groups -> SUBSET Datas]
WrapTypes ==
  /\ state \in [Wraps -> WrapStates]
  /\ thread \in [Wraps -> Threads]
  /\ data \in [Wraps -> Datas \cup {None}]
  /\ receiving \in [Wraps -> BOOLEAN]
  /\ async \in [Wraps -> BOOLEAN]
EnvTypes ==
  /\ running \in [Threads -> BOOLEAN]
  /\ cleanup \in [Threads -> BOOLEAN]
  /\ envData \in [Threads -> Datas \cup {None}]
  /\ envPort \in [Threads -> BOOLEAN]
  /\ posts \in 0..MaxPosts
VarTypes == DataTypes /\ WrapTypes /\ EnvTypes

\* The pieces the handlers share keep the types.
LEMMA BeginCloseType ==
  ASSUME VarTypes, NEW w \in Wraps
  PROVE  BeginClosePort(w) \in [Wraps -> WrapStates]
BY DEF BeginClosePort, VarTypes, WrapTypes, WrapStates

\* The pieces of the handlers keep the types: a close message is taken,
LEMMA TakeCloseType ==
  ASSUME VarTypes, NEW w \in Wraps, data[w] \in Datas, queue[data[w]] # << >>, TakeClose(w)
  PROVE  /\ queue' \in [Datas -> Seq(Message)]
         /\ closeEnq' \in [Datas -> BOOLEAN]
         /\ state' \in [Wraps -> WrapStates]
<1>1. Tail(queue[data[w]]) \in Seq(Message)
  BY DEF VarTypes, DataTypes
<1>2. queue' \in [Datas -> Seq(Message)]
  BY <1>1 DEF VarTypes, DataTypes, TakeClose
<1>3. closeEnq' \in [Datas -> BOOLEAN]
  BY DEF VarTypes, DataTypes, TakeClose
<1> QED BY <1>2, <1>3, BeginCloseType DEF TakeClose

\* a port is made,
LEMMA ReceivePortType ==
  ASSUME VarTypes, NEW t \in Threads, NEW w \in Wraps, NEW p \in Datas, ReceivePort(t, w, p)
  PROVE  /\ attached' \in [Datas -> Wraps \cup {None}]
         /\ closed' \in [Datas -> BOOLEAN]
         /\ thread' \in [Wraps -> Threads]
         /\ data' \in [Wraps -> Datas \cup {None}]
         /\ async' \in [Wraps -> BOOLEAN]
         /\ state' \in [Wraps -> WrapStates]
BY DEF ReceivePort, WakeNew, VarTypes, DataTypes, WrapTypes, WrapStates

\* a message is taken.
LEMMA TakeMessageType ==
  ASSUME VarTypes, NEW t \in Threads, NEW d \in Datas, queue[d] # << >>,
         NEW r \in BOOLEAN, TakeMessage(t, d, r)
  PROVE  /\ queue' \in [Datas -> Seq(Message)]
         /\ attached' \in [Datas -> Wraps \cup {None}]
         /\ closed' \in [Datas -> BOOLEAN]
         /\ thread' \in [Wraps -> Threads]
         /\ data' \in [Wraps -> Datas \cup {None}]
         /\ async' \in [Wraps -> BOOLEAN]
         /\ state' \in [Wraps -> WrapStates]
<1>1. Tail(queue[d]) \in Seq(Message) /\ Head(queue[d]) \in Message
  BY DEF VarTypes, DataTypes
<1>2. queue' \in [Datas -> Seq(Message)]
  BY <1>1 DEF VarTypes, DataTypes, TakeMessage
<1>3. CASE Head(queue[d]).port # None /\ r
  <2>1. Head(queue[d]).port \in Datas
    BY <1>1, <1>3 DEF Message
  <2> QED BY <1>2, <1>3, <2>1, ReceivePortType DEF TakeMessage
<1>4. CASE ~(Head(queue[d]).port # None /\ r)
  BY <1>2, <1>4 DEF TakeMessage, VarTypes, DataTypes, WrapTypes
<1> QED BY <1>3, <1>4

\* Calls from JavaScript keep the types.
LEMMA ScriptType ==
  ASSUME VarTypes, StackType, NEW t \in Threads, Script(t)
  PROVE  VarTypes' /\ StackType'
<1> USE ConstantsAssumption
<1>1. CASE \E v, w \in Wraps, d \in Datas : MessageChannel(t, v, w, d)
  <2>1. PICK v \in Wraps, w \in Wraps, d \in Datas : MessageChannel(t, v, w, d)
    BY <1>1
  <2>2. Twin[d] \in Datas
    OBVIOUS
  <2>3. DataTypes'
    BY <2>1, <2>2 DEF MessageChannel, DataTypes, VarTypes
  <2>4. WrapTypes'
    BY <2>1, <2>2 DEF MessageChannel, WrapTypes, VarTypes, WrapStates
  <2> QED BY <2>1, <2>3, <2>4 DEF MessageChannel, VarTypes, EnvTypes, StackType, envVars
<1>2. CASE \E w \in Wraps, d \in Datas, g \in Groups : BroadcastChannel(t, w, d, g)
  <2>1. PICK w \in Wraps, d \in Datas, g \in Groups : BroadcastChannel(t, w, d, g)
    BY <1>2
  <2> DEFINE f == [op |-> "join", pc |-> "list", wrap |-> w, own |-> d, group |-> g]
  <2>2. f \in Frame
    BY DEF Frame, JoinFrame
  <2>3. Push(t, f)
    BY <2>1 DEF BroadcastChannel
  <2>4. StackType'
    BY <2>2, <2>3, StackStep
  <2>5. VarTypes'
    BY <2>1 DEF BroadcastChannel, VarTypes, DataTypes, WrapTypes, EnvTypes, WrapStates, envVars
  <2> QED BY <2>4, <2>5
<1>3. CASE \E w \in Wraps, u \in Threads, d \in Datas : StartWorker(t, u, w, d)
  <2>1. PICK w \in Wraps, u \in Threads, d \in Datas : StartWorker(t, u, w, d)
    BY <1>3
  <2>2. Twin[d] \in Datas
    OBVIOUS
  <2>3. DataTypes'
    BY <2>1, <2>2 DEF StartWorker, DataTypes, VarTypes
  <2>4. WrapTypes'
    BY <2>1 DEF StartWorker, WrapTypes, VarTypes, WrapStates
  <2> QED BY <2>1, <2>2, <2>3, <2>4 DEF StartWorker, VarTypes, EnvTypes, StackType
<1>4. CASE \E w \in Wraps : GetEnvMessagePort(t, w)
  BY <1>4 DEF GetEnvMessagePort, ReceivePort, WakeNew, VarTypes, DataTypes, WrapTypes, EnvTypes,
     StackType, WrapStates, envVars
<1>5. CASE \E w \in Wraps, x \in Wraps \cup {None} : PostMessage(t, w, x)
  <2>1. PICK w \in Wraps, x \in Wraps \cup {None} : PostMessage(t, w, x)
    BY <1>5
  <2> DEFINE f == [op |-> "post", pc |-> "clone", wrap |-> w, xwrap |-> x,
                   xdata |-> IF x = None THEN None ELSE data[x],
                   targets |-> {}, lost |-> FALSE]
  <2>2. f \in Frame
    BY DEF VarTypes, WrapTypes, Frame, PostFrame
  <2>3. Push(t, f)
    BY <2>1 DEF PostMessage
  <2>4. StackType'
    BY <2>2, <2>3, StackStep
  <2>5. VarTypes'
    BY <2>1 DEF PostMessage, VarTypes, DataTypes, WrapTypes, EnvTypes, dataVars, wrapVars, envVars
  <2> QED BY <2>4, <2>5
<1>6. CASE \E w \in Wraps : DrainMessagePort(t, w)
  <2>1. PICK w \in Wraps : DrainMessagePort(t, w)
    BY <1>6
  <2>2. Pump(w, TRUE, 0) \in Frame
    BY DEF Frame, PumpFrame, Pump
  <2>3. StackType'
    BY <2>1, <2>2, StackStep DEF DrainMessagePort
  <2> QED BY <2>1, <2>3 DEF DrainMessagePort, VarTypes, DataTypes, WrapTypes, EnvTypes, dataVars,
          wrapVars, envVars
<1>7. CASE \E w \in Wraps : ReceiveMessageOnPort(t, w)
  <2>1. PICK w \in Wraps : ReceiveMessageOnPort(t, w)
    BY <1>7
  <2>2. data[w] \in Datas /\ queue[data[w]] \in Seq(Message) /\ queue[data[w]] # << >>
    BY <2>1 DEF ReceiveMessageOnPort, VarTypes, DataTypes, WrapTypes
  <2>3. CASE TakeClose(w) /\ UNCHANGED <<thread, data, attached, closed, async>>
    BY <2>1, <2>2, <2>3, TakeCloseType DEF ReceiveMessageOnPort, VarTypes, DataTypes, WrapTypes,
       EnvTypes, StackType, envVars
  <2>4. CASE (\E restored \in BOOLEAN : TakeMessage(t, data[w], restored)) /\ UNCHANGED closeEnq
    <3>1. PICK r \in BOOLEAN : TakeMessage(t, data[w], r)
      BY <2>4
    <3>5. /\ queue' \in [Datas -> Seq(Message)]
          /\ attached' \in [Datas -> Wraps \cup {None}]
          /\ closed' \in [Datas -> BOOLEAN]
          /\ thread' \in [Wraps -> Threads]
          /\ data' \in [Wraps -> Datas \cup {None}]
          /\ async' \in [Wraps -> BOOLEAN]
          /\ state' \in [Wraps -> WrapStates]
      BY <2>2, <3>1, TakeMessageType
    <3>6. UNCHANGED <<sibling, group, born, members, receiving>>
      BY <2>1 DEF ReceiveMessageOnPort
    <3>2. DataTypes'
      BY <2>4, <3>5, <3>6 DEF VarTypes, DataTypes
    <3>3. WrapTypes'
      BY <3>5, <3>6 DEF VarTypes, WrapTypes
    <3>4. EnvTypes' /\ StackType'
      BY <2>1 DEF ReceiveMessageOnPort, VarTypes, EnvTypes, StackType, envVars
    <3> QED BY <3>2, <3>3, <3>4 DEF VarTypes
  <2> QED BY <2>1, <2>3, <2>4 DEF ReceiveMessageOnPort
<1>8. CASE \E w \in Wraps : Start(t, w) \/ Stop(t, w)
  <2>1. PICK w \in Wraps : Start(t, w) \/ Stop(t, w)
    BY <1>8
  <2>2. DataTypes' /\ EnvTypes' /\ StackType'
    BY <2>1 DEF Start, Stop, VarTypes, DataTypes, EnvTypes, StackType, dataVars, envVars
  <2>3. WrapTypes'
    BY <2>1 DEF Start, Stop, VarTypes, WrapTypes
  <2> QED BY <2>2, <2>3 DEF VarTypes
<1>9. CASE \E w \in Wraps : Close(t, w)
  <2>1. PICK w \in Wraps : Close(t, w)
    BY <1>9
  <2>2. DataTypes' /\ EnvTypes' /\ StackType'
    BY <2>1 DEF Close, VarTypes, DataTypes, EnvTypes, StackType, dataVars, envVars
  <2>3. WrapTypes'
    BY <2>1, BeginCloseType DEF Close, VarTypes, WrapTypes
  <2> QED BY <2>2, <2>3 DEF VarTypes
<1> QED BY <1>1, <1>2, <1>3, <1>4, <1>5, <1>6, <1>7, <1>8, <1>9 DEF Script

\* Detaching the port of a transfer list keeps the types.
LEMMA DetachType ==
  ASSUME VarTypes, NEW x \in Wraps \cup {None}, DetachTransferredPort(x)
  PROVE  /\ attached' \in [Datas -> Wraps \cup {None}]
         /\ data' \in [Wraps -> Datas \cup {None}]
         /\ state' \in [Wraps -> WrapStates]
<1>1. CASE x # None /\ Usable(x)
  <2>1. x \in Wraps /\ data[x] \in Datas
    BY <1>1 DEF Usable, VarTypes, WrapTypes
  <2>2. ClearAttached(x) \in [Datas -> Wraps \cup {None}]
    BY <2>1 DEF ClearAttached, VarTypes, DataTypes
  <2>3. data' = [data EXCEPT ![x] = None] /\ state' = [state EXCEPT ![x] = "Closing"]
    BY <1>1 DEF DetachTransferredPort
  <2> QED BY <1>1, <2>1, <2>2, <2>3 DEF DetachTransferredPort, VarTypes, WrapTypes, WrapStates
<1>2. CASE ~(x # None /\ Usable(x))
  BY <1>2 DEF DetachTransferredPort, VarTypes, DataTypes, WrapTypes
<1> QED BY <1>1, <1>2

\* One more target of a post.
LEMMA PostNextType ==
  ASSUME StackType, NEW t \in Threads, stack[t] # << >>, Top(t).op = "post", PostNext(t, Top(t))
  PROVE  StackType'
<1>1. Top(t) \in PostFrame
  BY TopType
<1>2. PICK d \in Top(t).targets :
        LET call == Enqueue(d, Payload(Top(t).xdata)) IN
          IF Top(t).targets = {d}
          THEN Continue(t, call)
          ELSE Call(t, [Top(t) EXCEPT !.pc = "push", !.targets = @ \ {d}, !.xdata = None], call)
  BY DEF PostNext
<1>3. Enqueue(d, Payload(Top(t).xdata)) \in Frame
  BY <1>1 DEF PostFrame, Frame, EnqueueFrame, Enqueue, Payload, Message
<1>4. [Top(t) EXCEPT !.pc = "push", !.targets = @ \ {d}, !.xdata = None] \in Frame
  BY <1>1 DEF PostFrame, Frame
<1> QED BY <1>2, <1>3, <1>4, StackStep

\* The steps of a post keep the types.
LEMMA PostType ==
  ASSUME VarTypes, StackType, NEW t \in Threads,
         \/ PostCloneFails(t) \/ PostOnClosed(t) \/ PostToPeer(t) \/ PostToGroup(t)
         \/ PostDetach(t) \/ PostLost(t) \/ PostMore(t)
  PROVE  VarTypes' /\ StackType'
<1>1. stack[t] # << >> /\ Top(t).op = "post" /\ Top(t) \in PostFrame
  BY TopType DEF PostCloneFails, PostOnClosed, PostToPeer, PostToGroup, PostDetach, PostLost,
     PostMore, At
<1>2. /\ Top(t).wrap \in Wraps /\ Top(t).xwrap \in Wraps \cup {None}
      /\ Top(t).xdata \in Datas \cup {None} /\ Top(t).targets \in SUBSET Datas
  BY <1>1 DEF PostFrame
<1>3. CASE PostCloneFails(t)
  BY <1>1, <1>3, StackStep, TopType DEF PostCloneFails, VarTypes, DataTypes, WrapTypes, EnvTypes,
     dataVars, wrapVars, envVars
<1>4. CASE PostOnClosed(t)
  <2>1. StackType'
    BY <1>1, <1>4, StackStep, TopType DEF PostOnClosed
  <2>2. DetachTransferredPort(Top(t).xwrap)
    BY <1>4 DEF PostOnClosed
  <2>3. VarTypes'
    BY <1>2, <1>4, <2>2, DetachType DEF PostOnClosed, VarTypes, DataTypes, WrapTypes, EnvTypes,
       envVars
  <2> QED BY <2>1, <2>3
<1>5. CASE PostToPeer(t)
  <2> DEFINE peer == Lock(data[Top(t).wrap])
             f == [Top(t) EXCEPT !.pc = "detach",
                     !.targets = IF Top(t).xdata = peer THEN {} ELSE {peer},
                     !.lost = Top(t).xdata = peer]
  <2>1. peer \in Datas
    BY <1>2, <1>5 DEF PostToPeer, Lock, Usable, VarTypes, DataTypes, WrapTypes
  <2>2. IF Top(t).xdata = None THEN Continue(t, Enqueue(peer, Payload(None))) ELSE Continue(t, f)
    BY <1>5 DEF PostToPeer
  <2> HIDE DEF peer
  <2>3. Enqueue(peer, Payload(None)) \in Frame
    BY <2>1 DEF Frame, EnqueueFrame, Enqueue, Payload, Message
  <2>4. f \in Frame
    BY <1>1, <2>1 DEF Frame, PostFrame
  <2> HIDE DEF f
  <2>5. StackType'
    BY <1>1, <2>2, <2>3, <2>4, StackStep
  <2>6. VarTypes'
    BY <1>5 DEF PostToPeer, VarTypes, DataTypes, WrapTypes, EnvTypes,
     dataVars, wrapVars, envVars
  <2> QED BY <2>5, <2>6
<1>6. CASE PostToGroup(t)
  <2> DEFINE all == BroadcastTargets(data[Top(t).wrap])
             f == [Top(t) EXCEPT !.pc = "detach", !.targets = all]
  <2>1. data[Top(t).wrap] \in Datas
    BY <1>2, <1>6 DEF PostToGroup, Usable, VarTypes, WrapTypes
  <2>2. all \in SUBSET Datas
    BY <2>1 DEF BroadcastTargets, VarTypes, DataTypes
  <2>3. Return(t) \/ Continue(t, f)
    BY <1>6 DEF PostToGroup
  <2> HIDE DEF all
  <2>4. f \in Frame
    BY <1>1, <2>2 DEF Frame, PostFrame
  <2> HIDE DEF f
  <2>5. StackType'
    BY <1>1, <2>3, <2>4, StackStep
  <2>6. VarTypes'
    BY <1>6 DEF PostToGroup, VarTypes, DataTypes, WrapTypes, EnvTypes,
     dataVars, wrapVars, envVars
  <2> QED BY <2>5, <2>6
<1>7. CASE PostDetach(t)
  <2>1. [Top(t) EXCEPT !.pc = "warn"] \in Frame
    BY <1>1 DEF Frame, PostFrame
  <2>2. \/ Continue(t, [Top(t) EXCEPT !.pc = "warn"])
        \/ PostNext(t, Top(t))
        \/ Return(t)
    BY <1>7 DEF PostDetach
  <2>3. StackType'
    BY <1>1, <2>1, <2>2, StackStep, PostNextType
  <2>4. DetachTransferredPort(Top(t).xwrap)
    BY <1>7 DEF PostDetach
  <2>5. UNCHANGED <<queue, closeEnq, closed, sibling, group, born, members, thread, receiving,
                    async, envVars, posts>>
    BY <1>7 DEF PostDetach
  <2>6. VarTypes'
    BY <1>2, <2>4, <2>5, DetachType DEF VarTypes, DataTypes, WrapTypes, EnvTypes, envVars
  <2> QED BY <2>3, <2>6
<1>8. CASE PostLost(t)
  <2>1. StackType'
    BY <1>1, <1>8, StackStep, TopType DEF PostLost
  <2>2. state' \in [Wraps -> WrapStates]
    BY <1>2, <1>8, BeginCloseType DEF PostLost
  <2>3. VarTypes'
    BY <1>8, <2>2 DEF PostLost, VarTypes, DataTypes, WrapTypes, EnvTypes,
     dataVars, wrapVars, envVars
  <2> QED BY <2>1, <2>3
<1>9. CASE PostMore(t)
  <2>1. StackType'
    BY <1>1, <1>9, PostNextType DEF PostMore
  <2>2. VarTypes'
    BY <1>9 DEF PostMore, VarTypes, DataTypes, WrapTypes, EnvTypes,
     dataVars, wrapVars, envVars
  <2> QED BY <2>1, <2>2
<1> QED BY <1>3, <1>4, <1>5, <1>6, <1>7, <1>8, <1>9

\* Deleting a wrap keeps the types.
LEMMA DeleteType ==
  ASSUME VarTypes, NEW w \in Wraps, Delete(w)
  PROVE  /\ queue' \in [Datas -> Seq(Message)]
         /\ closeEnq' \in [Datas -> BOOLEAN]
         /\ data' \in [Wraps -> Datas \cup {None}]
         /\ state' \in [Wraps -> WrapStates]
<1>1. << >> \in Seq(Message)
  OBVIOUS
<1>2. queue' \in [Datas -> Seq(Message)]
  BY <1>1 DEF Delete, VarTypes, DataTypes
<1>3. closeEnq' \in [Datas -> BOOLEAN]
  BY DEF Delete, VarTypes, DataTypes
<1> QED BY <1>2, <1>3 DEF Delete, VarTypes, WrapTypes, WrapStates

\* The steps of EnqueueQueuedMessage and TriggerPortAsync keep the types.
LEMMA EnqueueType ==
  ASSUME VarTypes, StackType, NEW t \in Threads,
         EnqueuePush(t) \/ TriggerReadAttached(t) \/ TriggerCheck(t) \/ TriggerSend(t)
  PROVE  VarTypes' /\ StackType'
<1>1. stack[t] # << >> /\ Top(t) \in EnqueueFrame
  BY TopType DEF EnqueuePush, TriggerReadAttached, TriggerCheck, TriggerSend, At
<1>2. /\ Top(t).target \in Datas /\ Top(t).msg \in Message /\ Top(t).msg.close \in BOOLEAN
      /\ Top(t).trig \in Wraps \cup {None}
  BY <1>1 DEF EnqueueFrame, Message
<1>3. CASE EnqueuePush(t)
  <2>1. [Top(t) EXCEPT !.pc = "attached"] \in Frame
    BY <1>1 DEF EnqueueFrame, Frame
  <2>2. Return(t) \/ Continue(t, [Top(t) EXCEPT !.pc = "attached"])
    BY <1>3 DEF EnqueuePush
  <2>3. StackType'
    BY <1>1, <2>1, <2>2, StackStep
  <2>4. \/ UNCHANGED <<queue, closeEnq>>
        \/ /\ queue' = [queue EXCEPT ![Top(t).target] = Append(@, Top(t).msg)]
           /\ closeEnq' = [closeEnq EXCEPT ![Top(t).target] = @ \/ Top(t).msg.close]
    BY <1>3 DEF EnqueuePush
  <2>5. queue' \in [Datas -> Seq(Message)]
    <3>1. Append(queue[Top(t).target], Top(t).msg) \in Seq(Message)
      BY <1>2 DEF VarTypes, DataTypes
    <3> QED BY <1>2, <2>4, <3>1 DEF VarTypes, DataTypes
  <2>6. closeEnq' \in [Datas -> BOOLEAN]
    BY <1>2, <2>4 DEF VarTypes, DataTypes
  <2>7. UNCHANGED <<closed, sibling, attached, group, born, members, wrapVars, envVars, posts>>
    BY <1>3 DEF EnqueuePush
  <2>8. VarTypes'
    BY <2>5, <2>6, <2>7 DEF VarTypes, DataTypes, WrapTypes, EnvTypes, wrapVars, envVars
  <2> QED BY <2>3, <2>8
<1>4. CASE TriggerReadAttached(t)
  <2> DEFINE f == [Top(t) EXCEPT !.pc = "check", !.trig = attached[Top(t).target]]
  <2>1. attached[Top(t).target] \in Wraps \cup {None}
    BY <1>2 DEF VarTypes, DataTypes
  <2>2. f \in Frame
    BY <1>1, <2>1 DEF EnqueueFrame, Frame
  <2>3. Return(t) \/ Continue(t, f)
    BY <1>4 DEF TriggerReadAttached
  <2> HIDE DEF f
  <2>4. StackType'
    BY <1>1, <2>2, <2>3, StackStep
  <2>5. VarTypes'
    BY <1>4 DEF TriggerReadAttached, VarTypes, DataTypes, WrapTypes, EnvTypes,
     dataVars, wrapVars, envVars
  <2> QED BY <2>4, <2>5
<1>5. CASE TriggerCheck(t)
  <2>1. [Top(t) EXCEPT !.pc = "send"] \in Frame
    BY <1>1 DEF EnqueueFrame, Frame
  <2>2. Return(t) \/ Continue(t, [Top(t) EXCEPT !.pc = "send"])
    BY <1>5 DEF TriggerCheck
  <2>3. StackType'
    BY <1>1, <2>1, <2>2, StackStep
  <2>4. VarTypes'
    BY <1>5 DEF TriggerCheck, VarTypes, DataTypes, WrapTypes, EnvTypes,
     dataVars, wrapVars, envVars
  <2> QED BY <2>3, <2>4
<1>6. CASE TriggerSend(t)
  <2>1. StackType'
    BY <1>1, <1>6, StackStep, TopType DEF TriggerSend
  <2>2. async' \in [Wraps -> BOOLEAN]
    BY <1>6 DEF TriggerSend, VarTypes, WrapTypes
  <2>3. VarTypes'
    BY <1>6, <2>2 DEF TriggerSend, VarTypes, DataTypes, WrapTypes, EnvTypes, dataVars, envVars
  <2> QED BY <2>1, <2>3
<1> QED BY <1>3, <1>4, <1>5, <1>6

\* The steps of ProcessQueuedMessages keep the types.
LEMMA PumpType ==
  ASSUME VarTypes, StackType, NEW t \in Threads,
         PumpMessage(t) \/ PumpReturn(t) \/ PumpClose(t) \/ PumpEnd(t)
  PROVE  VarTypes' /\ StackType'
<1>1. stack[t] # << >> /\ Top(t) \in PumpFrame
  BY TopType DEF PumpMessage, PumpReturn, PumpClose, PumpEnd, At
<1>2. Top(t).wrap \in Wraps /\ Top(t).left \in Nat /\ Top(t).force \in BOOLEAN
  BY <1>1 DEF PumpFrame
<1>3. PumpHas(Top(t)) =>
        /\ data[Top(t).wrap] \in Datas
        /\ queue[data[Top(t).wrap]] # << >>
        /\ Top(t).force \/ Top(t).left > 0
  BY <1>2 DEF PumpHas, VarTypes, WrapTypes
<1>4. CASE PumpMessage(t)
  <2> DEFINE d == data[Top(t).wrap]
             n == IF Top(t).force THEN Top(t).left ELSE Top(t).left - 1
             f == [Top(t) EXCEPT !.pc = "emit", !.left = n]
  <2>1. d \in Datas /\ queue[d] # << >> /\ (Top(t).force \/ Top(t).left > 0)
    BY <1>3, <1>4 DEF PumpMessage
  <2>2. n \in Nat
    BY <1>2, <2>1
  <2>3. Continue(t, f) /\ \E ok \in {TRUE, ~MayFail} : TakeMessage(t, d, ok)
    BY <1>4 DEF PumpMessage
  <2>4. PICK ok \in BOOLEAN : TakeMessage(t, d, ok)
    BY <2>3, ConstantsAssumption
  <2> HIDE DEF n, d
  <2>5. f \in Frame
    BY <1>1, <2>2 DEF Frame, PumpFrame
  <2> HIDE DEF f
  <2>6. StackType'
    BY <1>1, <2>3, <2>5, StackStep
  <2>7. /\ queue' \in [Datas -> Seq(Message)]
        /\ attached' \in [Datas -> Wraps \cup {None}]
        /\ closed' \in [Datas -> BOOLEAN]
        /\ thread' \in [Wraps -> Threads]
        /\ data' \in [Wraps -> Datas \cup {None}]
        /\ async' \in [Wraps -> BOOLEAN]
        /\ state' \in [Wraps -> WrapStates]
    BY <2>1, <2>4, TakeMessageType
  <2>8. UNCHANGED <<closeEnq, sibling, group, born, members, receiving, envVars, posts>>
    BY <1>4 DEF PumpMessage
  <2>9. VarTypes'
    BY <2>7, <2>8 DEF VarTypes, DataTypes, WrapTypes, EnvTypes, envVars
  <2> QED BY <2>6, <2>9
<1>5. CASE PumpReturn(t)
  <2>1. [Top(t) EXCEPT !.pc = "loop"] \in Frame
    BY <1>1 DEF Frame, PumpFrame
  <2>2. StackType'
    BY <1>1, <1>5, <2>1, StackStep DEF PumpReturn
  <2>3. VarTypes'
    BY <1>5 DEF PumpReturn, VarTypes, DataTypes, WrapTypes, EnvTypes,
     dataVars, wrapVars, envVars
  <2> QED BY <2>2, <2>3
<1>6. CASE PumpClose(t)
  <2>1. StackType'
    BY <1>1, <1>6, StackStep, TopType DEF PumpClose
  <2>2. TakeClose(Top(t).wrap) /\ PumpHas(Top(t))
    BY <1>6 DEF PumpClose
  <2>3. /\ queue' \in [Datas -> Seq(Message)]
        /\ closeEnq' \in [Datas -> BOOLEAN]
        /\ state' \in [Wraps -> WrapStates]
    BY <1>2, <1>3, <2>2, TakeCloseType
  <2>4. UNCHANGED <<closed, sibling, attached, group, born, members, thread, data, receiving,
                    async, envVars, posts>>
    BY <1>6 DEF PumpClose
  <2>5. VarTypes'
    BY <2>3, <2>4 DEF VarTypes, DataTypes, WrapTypes, EnvTypes, envVars
  <2> QED BY <2>1, <2>5
<1>7. CASE PumpEnd(t)
  <2>1. StackType'
    BY <1>1, <1>7, StackStep, TopType DEF PumpEnd
  <2>2. async' \in [Wraps -> BOOLEAN]
    BY <1>7 DEF PumpEnd, VarTypes, WrapTypes
  <2>3. VarTypes'
    BY <1>7, <2>2 DEF PumpEnd, VarTypes, DataTypes, WrapTypes, EnvTypes, dataVars, envVars
  <2> QED BY <2>1, <2>3
<1> QED BY <1>4, <1>5, <1>6, <1>7

\* A close that goes on to its next critical section.
LEMMA CloseGoesOn ==
  ASSUME VarTypes, StackType, NEW t \in Threads, CloseLeave(t) \/ CloseDisentangle(t)
  PROVE  \E f \in Frame :
           /\ Continue(t, f) /\ f \in CloseFrame
           /\ f.op = Top(t).op /\ f.wrap = Top(t).wrap /\ f.own = Top(t).own
           /\ CloseLeave(t) => f.pc = "disentangle" /\ f.peer = Top(t).peer
           /\ CloseDisentangle(t) => /\ f.peer = Lock(Top(t).own)
                                     /\ f.pc = IF f.peer = None THEN "onclose" ELSE "peer"
<1>1. stack[t] # << >> /\ Top(t) \in CloseFrame
  BY TopType DEF CloseLeave, CloseDisentangle, At
<1>0. ~(CloseLeave(t) /\ CloseDisentangle(t))
  BY DEF CloseLeave, CloseDisentangle, At
<1>2. CASE CloseLeave(t)
  <2> DEFINE f == [Top(t) EXCEPT !.pc = "disentangle", !.group = None]
  <2>1. /\ f \in Frame /\ f \in CloseFrame /\ f.op = Top(t).op /\ f.wrap = Top(t).wrap
        /\ f.own = Top(t).own /\ f.peer = Top(t).peer /\ f.pc = "disentangle"
    BY <1>1 DEF Frame, CloseFrame
  <2>2. Continue(t, f)
    BY <1>2 DEF CloseLeave
  <2> HIDE DEF f
  <2> QED BY <1>0, <1>2, <2>1, <2>2
<1>3. CASE CloseDisentangle(t)
  <2> DEFINE peer == Lock(Top(t).own)
             c == IF peer = None THEN "onclose" ELSE "peer"
             f == [Top(t) EXCEPT !.pc = c, !.peer = peer]
  <2>1. peer \in Datas \cup {None}
    BY <1>1, <1>3 DEF CloseDisentangle, Lock, CloseFrame, VarTypes, DataTypes
  <2>2. Continue(t, f)
    BY <1>3 DEF CloseDisentangle
  <2>3. c \in {"onclose", "peer"}
    OBVIOUS
  <2> HIDE DEF peer, c
  <2>4. /\ f \in Frame /\ f \in CloseFrame /\ f.op = Top(t).op /\ f.wrap = Top(t).wrap
        /\ f.own = Top(t).own /\ f.peer = peer /\ f.pc = c
    BY <1>1, <2>1, <2>3 DEF Frame, CloseFrame
  <2> HIDE DEF f
  <2> QED BY <1>0, <1>3, <2>2, <2>4 DEF c, peer
<1> QED BY <1>2, <1>3

\* The steps of OnMessagePortClosed keep the types.
LEMMA CloseType ==
  ASSUME VarTypes, StackType, NEW t \in Threads,
         CloseLeave(t) \/ CloseDisentangle(t) \/ CloseUnlinkPeer(t) \/ CloseFinish(t)
  PROVE  VarTypes' /\ StackType'
<1>1. stack[t] # << >> /\ Top(t) \in CloseFrame
  BY TopType DEF CloseLeave, CloseDisentangle, CloseUnlinkPeer, CloseFinish, At
<1>2. Top(t).wrap \in Wraps /\ Top(t).peer \in Datas \cup {None}
  BY <1>1 DEF CloseFrame
<1>3. CASE CloseUnlinkPeer(t)
  <2> DEFINE f == [Top(t) EXCEPT !.pc = "onclose", !.peer = None]
             g == Enqueue(Top(t).peer, CloseMsg)
  <2>1. Top(t).peer \in Datas
    BY <1>2, <1>3 DEF CloseUnlinkPeer
  <2>2. f \in Frame
    BY <1>1 DEF Frame, CloseFrame
  <2>3. g \in Frame
    BY <2>1 DEF Frame, EnqueueFrame, Enqueue, CloseMsg, Message
  <2>4. Call(t, f, g)
    BY <1>3 DEF CloseUnlinkPeer
  <2> HIDE DEF f, g
  <2>5. StackType'
    BY <1>1, <2>2, <2>3, <2>4, StackStep
  <2>6. sibling' \in [Datas -> Datas \cup {None}]
    BY <1>3 DEF CloseUnlinkPeer, Unlinked, VarTypes, DataTypes
  <2>7. VarTypes'
    BY <1>3, <2>6 DEF CloseUnlinkPeer, VarTypes, DataTypes, WrapTypes, EnvTypes, wrapVars, envVars
  <2> QED BY <2>5, <2>7
<1>4. CASE CloseFinish(t)
  <2>1. StackType'
    BY <1>1, <1>4, StackStep, TopType DEF CloseFinish
  <2>2. Delete(Top(t).wrap) \/ UNCHANGED <<state, data, queue, closeEnq>>
    BY <1>4 DEF CloseFinish
  <2>3. /\ queue' \in [Datas -> Seq(Message)]
        /\ closeEnq' \in [Datas -> BOOLEAN]
        /\ data' \in [Wraps -> Datas \cup {None}]
        /\ state' \in [Wraps -> WrapStates]
    BY <1>2, <2>2, DeleteType DEF VarTypes, DataTypes, WrapTypes
  <2>4. attached' \in [Datas -> Wraps \cup {None}]
    BY <1>2, <1>4 DEF CloseFinish, ClearAttached, VarTypes, DataTypes
  <2>5. UNCHANGED <<closed, sibling, group, born, members, thread, receiving, async, envVars,
                    posts>>
    BY <1>4 DEF CloseFinish
  <2>6. VarTypes'
    BY <2>3, <2>4, <2>5 DEF VarTypes, DataTypes, WrapTypes, EnvTypes, envVars
  <2> QED BY <2>1, <2>6
<1>5. CASE CloseLeave(t) \/ CloseDisentangle(t)
  <2>1. StackType'
    BY <1>1, <1>5, CloseGoesOn, StackStep
  <2>2. VarTypes'
    BY <1>5 DEF CloseLeave, CloseDisentangle, VarTypes, DataTypes, WrapTypes, EnvTypes, wrapVars,
       envVars
  <2> QED BY <2>1, <2>2
<1> QED BY <1>1, <1>3, <1>4, <1>5

\* Listing a new Data in its group keeps the types.
LEMMA JoinType ==
  ASSUME VarTypes, StackType, NEW t \in Threads, JoinGroup(t)
  PROVE  VarTypes' /\ StackType'
<1>1. stack[t] # << >> /\ Top(t) \in JoinFrame
  BY TopType DEF JoinGroup, At
<1>2. StackType'
  BY <1>1, StackStep, TopType DEF JoinGroup
<1>3. VarTypes'
  BY <1>1 DEF JoinGroup, JoinFrame, VarTypes, DataTypes, WrapTypes, EnvTypes, wrapVars, envVars
<1> QED BY <1>2, <1>3

\* The callbacks of the event loop and garbage collection keep the types.
LEMMA EventType ==
  ASSUME VarTypes, StackType, NEW t \in Threads, NEW w \in Wraps,
         AsyncCallback(t, w) \/ CloseCallback(t, w) \/ Finalize(t, w)
  PROVE  VarTypes' /\ StackType'
<1>1. CASE AsyncCallback(t, w)
  <2> DEFINE n == Len(queue[data[w]])
             k == IF n > PumpLimit THEN n ELSE PumpLimit
  <2>1. queue[data[w]] \in Seq(Message)
    BY <1>1 DEF AsyncCallback, Usable, VarTypes, DataTypes, WrapTypes
  <2>2. k \in Nat
    BY <2>1, ConstantsAssumption
  <2>3. Push(t, Pump(w, FALSE, k))
    BY <1>1 DEF AsyncCallback
  <2> HIDE DEF k, n
  <2>4. Pump(w, FALSE, k) \in Frame
    BY <2>2 DEF Frame, PumpFrame, Pump
  <2>5. StackType'
    BY <2>3, <2>4, StackStep
  <2>6. VarTypes'
    BY <1>1 DEF AsyncCallback, VarTypes, DataTypes, WrapTypes, EnvTypes, dataVars, envVars
  <2> QED BY <2>5, <2>6
<1>2. CASE CloseCallback(t, w)
  <2> DEFINE d == data[w]
             g == IF d = None THEN None ELSE group[d]
             f == [op |-> "close", wrap |-> w, own |-> d, group |-> g, peer |-> None,
                   pc |-> IF d = None THEN "onclose"
                          ELSE IF g = None THEN "disentangle" ELSE "leave"]
  <2>1. d \in Datas \cup {None}
    BY DEF VarTypes, WrapTypes
  <2>2. g \in Groups \cup {None}
    BY <2>1 DEF VarTypes, DataTypes
  <2>3. Push(t, f)
    BY <1>2 DEF CloseCallback
  <2>4. group' = IF d = None THEN group ELSE [group EXCEPT ![d] = None]
    BY <1>2 DEF CloseCallback
  <2> HIDE DEF g, d
  <2>5. f \in Frame
    BY <2>1, <2>2 DEF Frame, CloseFrame
  <2> HIDE DEF f
  <2>6. StackType'
    BY <2>3, <2>5, StackStep
  <2>7. group' \in [Datas -> Groups \cup {None}]
    BY <2>4 DEF VarTypes, DataTypes
  <2>9. state' \in [Wraps -> WrapStates]
    BY <1>2 DEF CloseCallback, VarTypes, WrapTypes, WrapStates
  <2>10. UNCHANGED <<queue, closeEnq, closed, sibling, attached, born, members, thread, data,
                     receiving, async, envVars, posts>>
    BY <1>2 DEF CloseCallback
  <2>11. VarTypes'
    BY <2>7, <2>9, <2>10 DEF VarTypes, DataTypes, WrapTypes, EnvTypes, envVars
  <2> QED BY <2>6, <2>11
<1>3. CASE Finalize(t, w)
  <2>1. Delete(w) /\ UNCHANGED <<closed, sibling, attached, group, born, members, thread,
                                 receiving, async, envVars, stack, posts>>
    BY <1>3 DEF Finalize
  <2>2. /\ queue' \in [Datas -> Seq(Message)]
        /\ closeEnq' \in [Datas -> BOOLEAN]
        /\ data' \in [Wraps -> Datas \cup {None}]
        /\ state' \in [Wraps -> WrapStates]
    BY <2>1, DeleteType
  <2> QED BY <2>1, <2>2 DEF VarTypes, DataTypes, WrapTypes, EnvTypes, StackType, envVars
<1> QED BY <1>1, <1>2, <1>3

\* TypeOK, with the stacks apart.
LEMMA TypeParts == TypeOK <=> VarTypes /\ StackType
BY DEF TypeOK, VarTypes, DataTypes, WrapTypes, EnvTypes, StackType

\* One step of the system keeps the types.
LEMMA NextType ==
  ASSUME TypeOK, [Next]_vars
  PROVE  TypeOK'
<1>1. VarTypes /\ StackType
  BY TypeParts
<1>2. CASE UNCHANGED vars
  BY <1>2 DEF TypeOK, vars, dataVars, wrapVars, envVars
<1>3. ASSUME NEW t \in Threads, Script(t)
      PROVE  VarTypes' /\ StackType'
  BY <1>1, <1>3, ScriptType
<1>4. ASSUME NEW t \in Threads, Proceed(t)
      PROVE  VarTypes' /\ StackType'
  BY <1>1, <1>4, PostType, EnqueueType, PumpType, JoinType, CloseType DEF Proceed
<1>5. ASSUME NEW t \in Threads, NEW w \in Wraps,
             AsyncCallback(t, w) \/ CloseCallback(t, w) \/ Finalize(t, w)
      PROVE  VarTypes' /\ StackType'
  BY <1>1, <1>5, EventType
<1>6. ASSUME NEW t \in Threads, EnvCleanup(t)
      PROVE  VarTypes' /\ StackType'
  <2>1. state' \in [Wraps -> WrapStates]
    BY <1>1, <1>6 DEF EnvCleanup, VarTypes, WrapTypes, WrapStates
  <2>2. cleanup' \in [Threads -> BOOLEAN]
    BY <1>1, <1>6 DEF EnvCleanup, VarTypes, EnvTypes
  <2> QED BY <1>1, <1>6, <2>1, <2>2 DEF EnvCleanup, VarTypes, DataTypes, WrapTypes, EnvTypes,
          StackType, dataVars
<1>7. VarTypes' /\ StackType' => TypeOK'
  BY DEF TypeOK, VarTypes, DataTypes, WrapTypes, EnvTypes, StackType
<1> QED BY <1>2, <1>3, <1>4, <1>5, <1>6, <1>7 DEF Next

\* In every behaviour of the port code every field has its type: in
\* particular every call stack holds only frames of the five operations.
THEOREM TypeCorrect == Spec => []TypeOK
<1>1. Init => TypeOK
  <2> SUFFICES ASSUME Init PROVE TypeOK
    OBVIOUS
  <2>1. << >> \in Seq(Message) /\ << >> \in Seq(Frame)
    OBVIOUS
  <2>2. DataTypes
    BY <2>1 DEF Init, DataTypes
  <2>3. WrapTypes
    BY ConstantsAssumption DEF Init, WrapTypes, WrapStates
  <2>4. EnvTypes /\ StackType
    BY <2>1, ConstantsAssumption DEF Init, EnvTypes, StackType
  <2> QED BY <2>2, <2>3, <2>4, TypeParts DEF VarTypes
<1>2. TypeOK /\ [Next]_vars => TypeOK'
  BY NextType
<1> QED BY <1>1, <1>2, PTL DEF Spec

(***************************************************************************)
(* AttachedIsOwner                                                         *)
(***************************************************************************)

\* The stack of t changes in a way that cannot remove a close frame.
Moves(t) ==
  \/ UNCHANGED stack
  \/ \E f : Push(t, f)
  \/ /\ stack[t] # << >> /\ Top(t).op # "close"
     /\ Return(t) \/ (\E f : Continue(t, f)) \/ (\E f, g : Call(t, f, g))

\* A stack that still has a frame below the top keeps its bottom.
LEMMA BottomOps ==
  ASSUME NEW S, NEW s \in Seq(S), s # << >>, NEW f \in S, NEW g \in S
  PROVE  /\ Append(s, f) # << >> /\ Append(s, f)[1] = s[1]
         /\ Len(s) > 1 => /\ Pop(s) # << >> /\ Pop(s)[1] = s[1]
                          /\ Goto(s, f) # << >> /\ Goto(s, f)[1] = s[1]
                          /\ Append(Goto(s, f), g) # << >>
                          /\ Append(Goto(s, f), g)[1] = s[1]
         /\ Len(s) = 1 => /\ Append(Goto(s, f), g) # << >>
                          /\ Append(Goto(s, f), g)[1] = f
         /\ Len(s) > 1 \/ Len(s) = 1
<1>1. Append(s, f) # << >> /\ Append(s, f)[1] = s[1]
  OBVIOUS
<1>4. Len(s) = 1 => Append(Goto(s, f), g)[1] = f
  BY StackOps
<1>5. Len(s) > 1 \/ Len(s) = 1
  <2>1. Len(s) \in Nat /\ Len(s) # 0
    BY EmptySeq
  <2>2. \A n \in Nat : n # 0 => n > 1 \/ n = 1
    OBVIOUS
  <2> QED BY <2>1, <2>2, Zenon
<1>2. Goto(s, f) # << >> /\ Append(Goto(s, f), g) # << >>
  BY StackOps
<1>3. Len(s) > 1 => /\ Pop(s) # << >> /\ Pop(s)[1] = s[1]
                    /\ Goto(s, f)[1] = s[1] /\ Append(Goto(s, f), g)[1] = s[1]
  BY StackOps
<1> QED BY <1>1, <1>2, <1>3, <1>4, <1>5

\* A close frame at the bottom of a stack stays there.
LEMMA BottomKept ==
  ASSUME StackType, WrapTypes, NEW t \in Threads, Moves(t), NEW w \in Wraps,
         thread'[w] = thread[w], ClosingFrame(w)
  PROVE  ClosingFrame(w)'
<1> DEFINE s == stack[t]
<1>1. CASE UNCHANGED stack \/ thread[w] # t
  <2>1. stack'[thread[w]] = stack[thread[w]]
    BY <1>1 DEF Moves, Push, Return, Continue, Call, StackType, WrapTypes
  <2> QED BY <2>1 DEF ClosingFrame
<1>2. CASE thread[w] = t /\ ~UNCHANGED stack
  <2>1. s \in Seq(Frame) /\ s # << >> /\ s[1].op = "close" /\ s[1].wrap = w
    BY <1>2 DEF StackType, ClosingFrame
  <2>2. Top(t).op # "close" => Len(s) > 1
    BY <2>1 DEF Top
  <2>3. ASSUME NEW f, NEW g
        PROVE  /\ Append(s, f) # << >> /\ Append(s, f)[1] = s[1]
               /\ Len(s) > 1 => /\ Pop(s) # << >> /\ Pop(s)[1] = s[1]
                                /\ Goto(s, f) # << >> /\ Goto(s, f)[1] = s[1]
                                /\ Append(Goto(s, f), g) # << >>
                                /\ Append(Goto(s, f), g)[1] = s[1]
    <3> DEFINE S == Frame \cup {f, g}
    <3>1. s \in Seq(S) /\ f \in S /\ g \in S
      BY <2>1
    <3> HIDE DEF s, S
    <3> QED BY <2>1, <3>1, BottomOps
  <2>4. \A r : [stack EXCEPT ![t] = r][t] = r
    BY DEF StackType
  <2>5. stack'[t] # << >> /\ stack'[t][1] = s[1]
    <3>1. CASE \E f : Push(t, f)
      <4>1. PICK f : stack' = [stack EXCEPT ![t] = Append(s, f)]
        BY <3>1 DEF Push
      <4> QED BY <2>3, <2>4, <4>1, Zenon
    <3>2. CASE Top(t).op # "close" /\ Return(t)
      <4>1. stack' = [stack EXCEPT ![t] = Pop(s)]
        BY <3>2 DEF Return
      <4> QED BY <2>2, <2>3, <2>4, <3>2, <4>1, Zenon
    <3>3. CASE Top(t).op # "close" /\ \E f : Continue(t, f)
      <4>1. PICK f : stack' = [stack EXCEPT ![t] = Goto(s, f)]
        BY <3>3 DEF Continue
      <4> QED BY <2>2, <2>3, <2>4, <3>3, <4>1, Zenon
    <3>4. CASE Top(t).op # "close" /\ \E f, g : Call(t, f, g)
      <4>1. PICK f, g : stack' = [stack EXCEPT ![t] = Append(Goto(s, f), g)]
        BY <3>4 DEF Call
      <4> QED BY <2>2, <2>3, <2>4, <3>4, <4>1, Zenon
    <3> QED BY <1>2, <3>1, <3>2, <3>3, <3>4 DEF Moves
  <2> QED BY <1>2, <2>1, <2>5 DEF ClosingFrame
<1> QED BY <1>1, <1>2

\* So does one that goes on to its next critical section.
LEMMA BottomTurns ==
  ASSUME StackType, WrapTypes, NEW t \in Threads, NEW f \in Frame, stack[t] # << >>,
         Continue(t, f), f.op = Top(t).op, f.wrap = Top(t).wrap, NEW w \in Wraps,
         thread'[w] = thread[w], ClosingFrame(w)
  PROVE  ClosingFrame(w)'
<1> DEFINE s == stack[t]
<1>1. s \in Seq(Frame) /\ s # << >>
  BY DEF StackType
<1>2. Len(s) = 1 => s[1] = Top(t)
  BY DEF Top
<1>3. stack' = [stack EXCEPT ![t] = Goto(s, f)]
  BY DEF Continue
<1> HIDE DEF s
<1>4. /\ Len(s) > 1 => Goto(s, f)[1] = s[1]
      /\ Len(s) = 1 => Goto(s, f)[1] = f
      /\ Goto(s, f) # << >>
      /\ Len(s) > 1 \/ Len(s) = 1
  BY <1>1, StackOps, BottomOps
<1>5. Goto(s, f) # << >> /\ Goto(s, f)[1].op = s[1].op /\ Goto(s, f)[1].wrap = s[1].wrap
  BY <1>2, <1>4
<1>6. /\ stack'[t] # << >> /\ stack'[t][1].op = s[1].op /\ stack'[t][1].wrap = s[1].wrap
      /\ \A u \in Threads \ {t} : stack'[u] = stack[u]
  BY <1>3, <1>5 DEF StackType
<1> QED BY <1>6 DEF ClosingFrame, s, WrapTypes

\* A step that leaves the pointers alone and at most begins to close wraps.
Quiet ==
  /\ UNCHANGED <<attached, data, thread>>
  /\ \A w \in Wraps : state'[w] = state[w] \/ (state[w] = "Initialized" /\ state'[w] = "Closing")

\* A step that is Quiet keeps AttachedInv.
LEMMA QuietKept ==
  ASSUME AttachedInv, VarTypes, Quiet,
         \A w \in Wraps : ClosingFrame(w) => ClosingFrame(w)'
  PROVE  AttachedInv'
<1> SUFFICES ASSUME NEW d \in Datas, attached[d] # None
             PROVE  /\ data[attached[d]] = d
                    /\ \/ state'[attached[d]] \in {"Initialized", "Closing"}
                       \/ state'[attached[d]] = "Closed" /\ ClosingFrame(attached[d])'
  BY DEF AttachedInv, Quiet
<1>1. attached[d] \in Wraps
  BY DEF VarTypes, DataTypes
<1> QED BY <1>1 DEF AttachedInv, Quiet

\* Detaching a wrap clears the only pointer to it.
LEMMA DetachKept ==
  ASSUME AttachedInv, VarTypes, NEW x \in Wraps \cup {None}, DetachTransferredPort(x),
         UNCHANGED thread, \A w \in Wraps : ClosingFrame(w) => ClosingFrame(w)'
  PROVE  AttachedInv'
<1>1. CASE x # None /\ Usable(x)
  <2>1. x \in Wraps /\ data[x] \in Datas
    BY <1>1 DEF Usable, VarTypes, WrapTypes
  <2>2. /\ attached' = [attached EXCEPT ![data[x]] = IF @ = x THEN None ELSE @]
        /\ data' = [data EXCEPT ![x] = None]
        /\ state' = [state EXCEPT ![x] = "Closing"]
    BY <1>1, <2>1 DEF DetachTransferredPort, ClearAttached, Usable
  <2> SUFFICES ASSUME NEW d \in Datas, attached'[d] # None
               PROVE  /\ data'[attached'[d]] = d
                      /\ \/ state'[attached'[d]] \in {"Initialized", "Closing"}
                         \/ state'[attached'[d]] = "Closed" /\ ClosingFrame(attached[d])'
                      /\ attached'[d] = attached[d]
    BY DEF AttachedInv
  <2>3. attached'[d] = attached[d] /\ attached[d] \in Wraps /\ attached[d] # x
    BY <2>1, <2>2 DEF AttachedInv, VarTypes, DataTypes
  <2>4. data'[attached[d]] = data[attached[d]] /\ state'[attached[d]] = state[attached[d]]
    BY <2>2, <2>3 DEF VarTypes, WrapTypes
  <2> QED BY <2>3, <2>4 DEF AttachedInv
<1>2. CASE ~(x # None /\ Usable(x))
  BY <1>2, QuietKept DEF DetachTransferredPort, Quiet
<1> QED BY <1>1, <1>2

\* Wrap w is new, and becomes the owner of p.
LEMMA AdoptKept ==
  ASSUME AttachedInv, VarTypes, NEW w \in Wraps, NEW p \in Datas, NEW t \in Threads,
         state[w] = "Unborn",
         thread' = [thread EXCEPT ![w] = t],
         data' = [data EXCEPT ![w] = p],
         attached' = [attached EXCEPT ![p] = w],
         state' = [state EXCEPT ![w] = "Initialized"],
         \A v \in Wraps : thread'[v] = thread[v] /\ ClosingFrame(v) => ClosingFrame(v)'
  PROVE  AttachedInv'
<1> SUFFICES ASSUME NEW d \in Datas, attached'[d] # None
             PROVE  /\ data'[attached'[d]] = d
                    /\ \/ state'[attached'[d]] \in {"Initialized", "Closing"}
                       \/ state'[attached'[d]] = "Closed" /\ ClosingFrame(attached[d])'
                          /\ attached'[d] = attached[d]
  BY DEF AttachedInv
<1>1. CASE d = p
  BY <1>1 DEF VarTypes, DataTypes, WrapTypes
<1>2. CASE d # p
  <2>1. attached'[d] = attached[d] /\ attached[d] \in Wraps /\ attached[d] # w
    BY <1>2 DEF AttachedInv, VarTypes, DataTypes
  <2>2. /\ data'[attached[d]] = data[attached[d]] /\ state'[attached[d]] = state[attached[d]]
        /\ thread'[attached[d]] = thread[attached[d]]
    BY <2>1 DEF VarTypes, WrapTypes
  <2> QED BY <2>1, <2>2 DEF AttachedInv
<1> QED BY <1>1, <1>2

\* Taking a message off a queue.
LEMMA TakeMessageKept ==
  ASSUME AttachedInv, VarTypes, NEW t \in Threads, NEW d \in Datas, queue[d] # << >>,
         NEW r \in BOOLEAN, TakeMessage(t, d, r),
         \A v \in Wraps : thread'[v] = thread[v] /\ ClosingFrame(v) => ClosingFrame(v)'
  PROVE  AttachedInv'
<1>1. Head(queue[d]) \in Message
  BY DEF VarTypes, DataTypes
<1>2. CASE Head(queue[d]).port # None /\ r
  <2>1. Head(queue[d]).port \in Datas
    BY <1>1, <1>2 DEF Message
  <2>2. PICK w \in Wraps : ReceivePort(t, w, Head(queue[d]).port)
    BY <1>2 DEF TakeMessage
  <2> QED BY <2>1, <2>2, AdoptKept DEF ReceivePort, NewWrap
<1>3. CASE ~(Head(queue[d]).port # None /\ r)
  <2>1. UNCHANGED <<thread, data, attached, state>>
    BY <1>3 DEF TakeMessage
  <2> QED BY <2>1, QuietKept DEF Quiet
<1> QED BY <1>2, <1>3

\* Two new wraps become the owners of the two ends of a new channel.
LEMMA ChannelKept ==
  ASSUME AttachedInv, VarTypes, NEW t \in Threads, NEW v \in Wraps, NEW w \in Wraps,
         NEW d \in Datas, MessageChannel(t, v, w, d)
  PROVE  AttachedInv'
<1> DEFINE e == Twin[d]
<1>1. e \in Datas /\ e # d /\ v # w /\ state[v] = "Unborn" /\ state[w] = "Unborn"
  BY ConstantsAssumption DEF MessageChannel, NewWrap
<1>2. /\ attached' = [attached EXCEPT ![d] = v, ![e] = w]
      /\ state' = [state EXCEPT ![v] = "Initialized", ![w] = "Initialized"]
      /\ thread' = [thread EXCEPT ![v] = t, ![w] = t]
      /\ data' = [data EXCEPT ![v] = d, ![w] = e]
      /\ stack' = stack
  BY DEF MessageChannel
<1> HIDE DEF e
<1> SUFFICES ASSUME NEW b \in Datas, attached'[b] # None
             PROVE  /\ data'[attached'[b]] = b
                    /\ \/ state'[attached'[b]] \in {"Initialized", "Closing"}
                       \/ state'[attached'[b]] = "Closed" /\ ClosingFrame(attached[b])'
                          /\ attached'[b] = attached[b]
  BY DEF AttachedInv
<1>3. CASE b = d \/ b = e
  BY <1>1, <1>2, <1>3 DEF VarTypes, DataTypes, WrapTypes
<1>4. CASE b # d /\ b # e
  <2>1. attached'[b] = attached[b] /\ attached[b] \in Wraps
    BY <1>1, <1>2, <1>4 DEF VarTypes, DataTypes
  <2>2. attached[b] # v /\ attached[b] # w
    BY <1>1, <2>1 DEF AttachedInv
  <2>3. /\ data'[attached[b]] = data[attached[b]] /\ state'[attached[b]] = state[attached[b]]
        /\ thread'[attached[b]] = thread[attached[b]]
    BY <1>2, <2>1, <2>2 DEF VarTypes, WrapTypes
  <2> QED BY <1>2, <2>1, <2>3 DEF AttachedInv, ClosingFrame
<1> QED BY <1>3, <1>4

\* Calls from JavaScript keep the invariant.
LEMMA ScriptKept ==
  ASSUME AttachedInv, VarTypes, StackType, NEW t \in Threads, Script(t)
  PROVE  AttachedInv'
<1>1. Moves(t) => \A w \in Wraps : thread'[w] = thread[w] /\ ClosingFrame(w) => ClosingFrame(w)'
  BY BottomKept DEF VarTypes
<1>2. CASE \E v, w \in Wraps, d \in Datas : MessageChannel(t, v, w, d)
  BY <1>2, ChannelKept
<1>3. CASE \E w \in Wraps, d \in Datas, g \in Groups : BroadcastChannel(t, w, d, g)
  <2>1. PICK w \in Wraps, d \in Datas, g \in Groups : BroadcastChannel(t, w, d, g)
    BY <1>3
  <2>2. Moves(t)
    BY <2>1, Zenon DEF BroadcastChannel, Moves
  <2> QED BY <1>1, <2>1, <2>2, AdoptKept DEF BroadcastChannel, NewWrap
<1>4. CASE \E w \in Wraps, u \in Threads, d \in Datas : StartWorker(t, u, w, d)
  <2>1. PICK w \in Wraps, u \in Threads, d \in Datas : StartWorker(t, u, w, d)
    BY <1>4
  <2>2. Moves(t)
    BY <2>1 DEF StartWorker, Moves
  <2> QED BY <1>1, <2>1, <2>2, AdoptKept DEF StartWorker, NewWrap
<1>5. CASE \E w \in Wraps : GetEnvMessagePort(t, w)
  <2>1. PICK w \in Wraps : GetEnvMessagePort(t, w)
    BY <1>5
  <2>2. Moves(t)
    BY <2>1 DEF GetEnvMessagePort, Moves
  <2>3. envData[t] \in Datas
    BY <2>1 DEF GetEnvMessagePort, VarTypes, EnvTypes
  <2> QED BY <1>1, <2>1, <2>2, <2>3, AdoptKept DEF GetEnvMessagePort, ReceivePort, NewWrap
<1>6. CASE \E w \in Wraps, x \in Wraps \cup {None} : PostMessage(t, w, x)
  <2>1. PICK w \in Wraps, x \in Wraps \cup {None} : PostMessage(t, w, x)
    BY <1>6
  <2>2. Moves(t)
    BY <2>1, Zenon DEF PostMessage, Moves
  <2>3. Quiet
    BY <2>1 DEF PostMessage, Quiet, dataVars, wrapVars
  <2> QED BY <1>1, <2>2, <2>3, QuietKept DEF Quiet
<1>7. CASE \E w \in Wraps : DrainMessagePort(t, w)
  <2>1. PICK w \in Wraps : DrainMessagePort(t, w)
    BY <1>7
  <2>2. Moves(t)
    BY <2>1, Zenon DEF DrainMessagePort, Moves
  <2>3. Quiet
    BY <2>1 DEF DrainMessagePort, Quiet, dataVars, wrapVars
  <2> QED BY <1>1, <2>2, <2>3, QuietKept DEF Quiet
<1>8. CASE \E w \in Wraps : ReceiveMessageOnPort(t, w)
  <2>1. PICK w \in Wraps : ReceiveMessageOnPort(t, w)
    BY <1>8
  <2>2. data[w] \in Datas /\ queue[data[w]] # << >>
    BY <2>1 DEF ReceiveMessageOnPort, VarTypes, WrapTypes
  <2>3. Moves(t)
    BY <2>1 DEF ReceiveMessageOnPort, Moves
  <2>4. CASE TakeClose(w) /\ UNCHANGED <<thread, data, attached, closed, async>>
    <3>1. Quiet
      BY <2>4 DEF TakeClose, BeginClosePort, Quiet, VarTypes, WrapTypes
    <3> QED BY <1>1, <2>3, <3>1, QuietKept DEF Quiet
  <2>5. CASE \E r \in BOOLEAN : TakeMessage(t, data[w], r)
    BY <1>1, <2>2, <2>3, <2>5, TakeMessageKept
  <2> QED BY <2>1, <2>4, <2>5 DEF ReceiveMessageOnPort
<1>9. CASE \E w \in Wraps : Start(t, w) \/ Stop(t, w) \/ Close(t, w)
  <2>1. Moves(t)
    BY <1>9 DEF Start, Stop, Close, Moves
  <2>2. Quiet
    BY <1>9 DEF Start, Stop, Close, BeginClosePort, Quiet, dataVars, VarTypes, WrapTypes
  <2> QED BY <1>1, <2>1, <2>2, QuietKept DEF Quiet
<1> QED BY <1>2, <1>3, <1>4, <1>5, <1>6, <1>7, <1>8, <1>9 DEF Script

\* A frame's step keeps the invariant.
LEMMA ProceedKept ==
  ASSUME AttachedInv, VarTypes, StackType, NEW t \in Threads, Proceed(t)
  PROVE  AttachedInv'
<1>1. Moves(t) => \A w \in Wraps : thread'[w] = thread[w] /\ ClosingFrame(w) => ClosingFrame(w)'
  BY BottomKept DEF VarTypes
<1>2. CASE PostOnClosed(t) \/ PostDetach(t)
  <2>1. stack[t] # << >> /\ Top(t).op = "post"
    BY <1>2 DEF PostOnClosed, PostDetach, At
  <2>2. Top(t).xwrap \in Wraps \cup {None}
    BY <2>1, TopType DEF PostFrame
  <2>3. Return(t) \/ (\E f : Continue(t, f)) \/ (\E f, g : Call(t, f, g))
    BY <1>2, Zenon DEF PostOnClosed, PostDetach, PostNext
  <2>4. Moves(t)
    BY <2>1, <2>3, Zenon DEF Moves
  <2> QED BY <1>1, <1>2, <2>2, <2>4, DetachKept DEF PostOnClosed, PostDetach
<1>3. CASE PostCloneFails(t) \/ PostToPeer(t) \/ PostToGroup(t) \/ PostMore(t)
  <2>1. stack[t] # << >> /\ Top(t).op = "post"
    BY <1>3 DEF PostCloneFails, PostToPeer, PostToGroup, PostMore, At
  <2>2. Return(t) \/ (\E f : Continue(t, f)) \/ (\E f, g : Call(t, f, g))
    BY <1>3, Zenon DEF PostCloneFails, PostToPeer, PostToGroup, PostMore, PostNext
  <2>3. Moves(t)
    BY <2>1, <2>2, Zenon DEF Moves
  <2>4. Quiet
    BY <1>3 DEF PostCloneFails, PostToPeer, PostToGroup, PostMore, Quiet, dataVars, wrapVars
  <2> QED BY <1>1, <2>3, <2>4, QuietKept DEF Quiet
<1>4. CASE PostLost(t)
  <2>1. stack[t] # << >> /\ Top(t).op = "post"
    BY <1>4 DEF PostLost, At
  <2>2. Moves(t)
    BY <1>4, <2>1, Zenon DEF PostLost, Moves
  <2>3. Quiet
    BY <1>4 DEF PostLost, BeginClosePort, Quiet, dataVars, VarTypes, WrapTypes
  <2> QED BY <1>1, <2>2, <2>3, QuietKept DEF Quiet
<1>5. CASE EnqueuePush(t) \/ TriggerReadAttached(t) \/ TriggerCheck(t) \/ TriggerSend(t)
  <2>1. stack[t] # << >> /\ Top(t).op = "enqueue"
    BY <1>5 DEF EnqueuePush, TriggerReadAttached, TriggerCheck, TriggerSend, At
  <2>2. Return(t) \/ (\E f : Continue(t, f))
    BY <1>5, Zenon DEF EnqueuePush, TriggerReadAttached, TriggerCheck, TriggerSend
  <2>3. Moves(t)
    BY <2>1, <2>2, Zenon DEF Moves
  <2>4. Quiet
    BY <1>5 DEF EnqueuePush, TriggerReadAttached, TriggerCheck, TriggerSend, Quiet, dataVars,
       wrapVars
  <2> QED BY <1>1, <2>3, <2>4, QuietKept DEF Quiet
<1>6. CASE PumpMessage(t)
  <2>1. stack[t] # << >> /\ Top(t).op = "pump" /\ Top(t).wrap \in Wraps
    BY <1>6, TopType DEF PumpMessage, At, PumpFrame
  <2>2. Moves(t)
    BY <1>6, <2>1, Zenon DEF PumpMessage, Moves
  <2>3. data[Top(t).wrap] \in Datas /\ queue[data[Top(t).wrap]] # << >>
    BY <1>6, <2>1 DEF PumpMessage, PumpHas, VarTypes, WrapTypes
  <2>4. \E r \in BOOLEAN : TakeMessage(t, data[Top(t).wrap], r)
    BY <1>6, ConstantsAssumption DEF PumpMessage
  <2> QED BY <1>1, <2>2, <2>3, <2>4, TakeMessageKept
<1>7. CASE PumpReturn(t) \/ PumpClose(t) \/ PumpEnd(t)
  <2>1. stack[t] # << >> /\ Top(t).op = "pump"
    BY <1>7 DEF PumpReturn, PumpClose, PumpEnd, At
  <2>2. Return(t) \/ (\E f : Continue(t, f))
    BY <1>7, Zenon DEF PumpReturn, PumpClose, PumpEnd
  <2>3. Moves(t)
    BY <2>1, <2>2, Zenon DEF Moves
  <2>4. Quiet
    BY <1>7 DEF PumpReturn, PumpClose, PumpEnd, TakeClose, BeginClosePort, Quiet, dataVars,
       wrapVars, VarTypes, WrapTypes
  <2> QED BY <1>1, <2>3, <2>4, QuietKept DEF Quiet
<1>8. CASE CloseUnlinkPeer(t)
  <2> DEFINE s == stack[t]
             f == [Top(t) EXCEPT !.pc = "onclose", !.peer = None]
             g == Enqueue(Top(t).peer, CloseMsg)
  <2>1. s # << >> /\ Top(t) \in CloseFrame /\ s \in Seq(Frame)
    BY <1>8, TopType DEF CloseUnlinkPeer, At, StackType
  <2>2. f.op = Top(t).op /\ f.wrap = Top(t).wrap /\ f \in Frame
    BY <2>1 DEF Frame, CloseFrame
  <2>3. g \in Frame
    BY <1>8, <2>1 DEF CloseUnlinkPeer, Frame, CloseFrame, EnqueueFrame, Enqueue, CloseMsg, Message
  <2>4. stack' = [stack EXCEPT ![t] = Append(Goto(s, f), g)]
    BY <1>8 DEF CloseUnlinkPeer, Call
  <2>5. Len(s) = 1 => s[1] = Top(t)
    BY DEF Top
  <2> HIDE DEF s, f, g
  <2>6. /\ Append(Goto(s, f), g) # << >>
        /\ Append(Goto(s, f), g)[1].op = s[1].op /\ Append(Goto(s, f), g)[1].wrap = s[1].wrap
    <3>1. CASE Len(s) > 1
      BY <2>1, <2>2, <2>3, <3>1, BottomOps
    <3>2. CASE Len(s) = 1
      <4>1. Append(Goto(s, f), g) # << >> /\ Append(Goto(s, f), g)[1] = f
        BY <2>1, <2>2, <2>3, <3>2, BottomOps
      <4> QED BY <2>2, <2>5, <3>2, <4>1
    <3>3. Len(s) > 1 \/ Len(s) = 1
      BY <2>1, <2>2, <2>3, BottomOps
    <3> QED BY <3>1, <3>2, <3>3
  <2>7. /\ stack'[t] # << >> /\ stack'[t][1].op = s[1].op /\ stack'[t][1].wrap = s[1].wrap
        /\ \A u \in Threads \ {t} : stack'[u] = stack[u]
    BY <2>4, <2>6 DEF StackType
  <2>8. Quiet
    BY <1>8 DEF CloseUnlinkPeer, Quiet, wrapVars
  <2>9. \A w \in Wraps : ClosingFrame(w) => ClosingFrame(w)'
    BY <2>7, <2>8 DEF ClosingFrame, Quiet, s, VarTypes, WrapTypes
  <2> QED BY <2>8, <2>9, QuietKept
<1>9. CASE CloseFinish(t)
  <2> DEFINE s == stack[t]
             x == Top(t).wrap
  <2>1. s # << >> /\ Top(t) \in CloseFrame /\ x \in Wraps /\ s \in Seq(Frame)
    BY <1>9, TopType DEF CloseFinish, At, StackType, CloseFrame
  <2>2. Len(s) = 1 => s[1].wrap = x
    BY DEF Top
  <2>0. Top(t) \in Frame
    BY <2>1 DEF Frame
  <2>3. stack' = [stack EXCEPT ![t] = Pop(s)] /\ attached' = ClearAttached(x) /\ thread' = thread
    BY <1>9 DEF CloseFinish, Return
  <2>4. \A w \in Wraps \ {x} : data'[w] = data[w] /\ state'[w] = state[w]
    BY <1>9 DEF CloseFinish, Delete, VarTypes, WrapTypes
  <2> HIDE DEF s, x
  <2>5. /\ Len(s) > 1 => Pop(s) # << >> /\ Pop(s)[1] = s[1]
        /\ Len(s) > 1 \/ Len(s) = 1
    BY <2>0, <2>1, BottomOps
  <2>6. ASSUME NEW d \in Datas, attached'[d] # None
        PROVE  attached'[d] = attached[d] /\ attached[d] \in Wraps \ {x}
    <3>1. attached'[d] = attached[d] /\ attached[d] \in Wraps
      BY <2>1, <2>3, <2>6 DEF ClearAttached, VarTypes, DataTypes, WrapTypes
    <3>2. attached[d] = x => data[x] = d
      BY <2>6, <3>1 DEF AttachedInv
    <3>3. data[x] = d => attached'[d] # x
      BY <2>1, <2>3, ConstantsAssumption DEF ClearAttached, VarTypes, DataTypes
    <3> QED BY <3>1, <3>2, <3>3
  <2>7. ASSUME NEW w \in Wraps \ {x}, ClosingFrame(w)
        PROVE  ClosingFrame(w)'
    <3>1. CASE thread[w] = t
      <4>1. s[1].op = "close" /\ s[1].wrap = w
        BY <2>7, <3>1 DEF ClosingFrame, s
      <4>2. Len(s) > 1
        BY <2>2, <2>5, <2>7, <4>1
      <4>3. stack'[t] = Pop(s)
        BY <2>3 DEF StackType
      <4> QED BY <2>3, <2>5, <3>1, <4>1, <4>2, <4>3 DEF ClosingFrame
    <3>2. CASE thread[w] # t
      <4>1. thread[w] \in Threads
        BY DEF VarTypes, WrapTypes
      <4>2. stack'[thread[w]] = stack[thread[w]]
        BY <2>3, <3>2, <4>1 DEF StackType
      <4> QED BY <2>3, <2>7, <4>2 DEF ClosingFrame
    <3> QED BY <3>1, <3>2
  <2> SUFFICES ASSUME NEW d \in Datas, attached'[d] # None
               PROVE  /\ data'[attached'[d]] = d
                      /\ \/ state'[attached'[d]] \in {"Initialized", "Closing"}
                         \/ state'[attached'[d]] = "Closed" /\ ClosingFrame(attached[d])'
                      /\ attached'[d] = attached[d]
    BY DEF AttachedInv
  <2> QED BY <2>4, <2>6, <2>7 DEF AttachedInv
<1>10. CASE CloseLeave(t) \/ CloseDisentangle(t)
  <2>1. stack[t] # << >> /\ Top(t) \in CloseFrame /\ Top(t).op = "close"
    BY <1>10, TopType DEF CloseLeave, CloseDisentangle, At
  <2>2. PICK f \in Frame : Continue(t, f) /\ f.op = Top(t).op /\ f.wrap = Top(t).wrap
    BY <1>10, CloseGoesOn
  <2>3. Quiet
    BY <1>10 DEF CloseLeave, CloseDisentangle, Quiet, wrapVars
  <2> QED BY <2>1, <2>2, <2>3, BottomTurns, QuietKept DEF Quiet, VarTypes
<1>11. CASE JoinGroup(t)
  <2>1. stack[t] # << >> /\ Top(t).op = "join"
    BY <1>11 DEF JoinGroup, At
  <2>2. Moves(t)
    BY <1>11, <2>1, Zenon DEF JoinGroup, Moves
  <2>3. Quiet
    BY <1>11 DEF JoinGroup, Quiet, wrapVars
  <2> QED BY <1>1, <2>2, <2>3, QuietKept DEF Quiet
<1> QED BY <1>2, <1>3, <1>4, <1>5, <1>6, <1>7, <1>8, <1>9, <1>10, <1>11 DEF Proceed

\* Callbacks of the event loop and garbage collection keep the invariant.
LEMMA EventKept ==
  ASSUME AttachedInv, VarTypes, StackType, NEW t \in Threads, NEW w \in Wraps,
         AsyncCallback(t, w) \/ CloseCallback(t, w) \/ Finalize(t, w)
  PROVE  AttachedInv'
<1>1. Moves(t) => \A v \in Wraps : thread'[v] = thread[v] /\ ClosingFrame(v) => ClosingFrame(v)'
  BY BottomKept DEF VarTypes
<1>2. CASE AsyncCallback(t, w)
  <2>1. Moves(t)
    BY <1>2, Zenon DEF AsyncCallback, Moves
  <2>2. Quiet
    BY <1>2 DEF AsyncCallback, Quiet, dataVars
  <2> QED BY <1>1, <2>1, <2>2, QuietKept DEF Quiet
<1>3. CASE CloseCallback(t, w)
  <2>1. /\ stack[t] = << >> /\ thread[w] = t /\ state[w] = "Closing"
        /\ state' = [state EXCEPT ![w] = "Closed"]
        /\ UNCHANGED <<attached, data, thread>>
    BY <1>3 DEF CloseCallback, Own
  <2>2. PICK f : Push(t, f) /\ f.op = "close" /\ f.wrap = w
    BY <1>3 DEF CloseCallback
  <2>3. Moves(t)
    BY <2>2, Zenon DEF Moves
  <2>4. ClosingFrame(w)'
    <3>1. stack'[t] = Append(<< >>, f)
      BY <2>1, <2>2 DEF Push, StackType
    <3>2. stack'[t] # << >> /\ stack'[t][1] = f
      BY <3>1
    <3> QED BY <2>1, <2>2, <3>2 DEF ClosingFrame
  <2> SUFFICES ASSUME NEW d \in Datas, attached[d] # None
               PROVE  /\ data[attached[d]] = d
                      /\ \/ state'[attached[d]] \in {"Initialized", "Closing"}
                         \/ state'[attached[d]] = "Closed" /\ ClosingFrame(attached[d])'
    BY <2>1 DEF AttachedInv
  <2>5. attached[d] \in Wraps
    BY DEF VarTypes, DataTypes
  <2>6. CASE attached[d] = w
    BY <2>1, <2>4, <2>6 DEF AttachedInv, VarTypes, WrapTypes
  <2>7. CASE attached[d] # w
    BY <1>1, <2>1, <2>3, <2>5, <2>7 DEF AttachedInv, VarTypes, WrapTypes
  <2> QED BY <2>6, <2>7
<1>4. CASE Finalize(t, w)
  <2>1. /\ state[w] = "Closed" /\ thread[w] = t
        /\ UNCHANGED <<attached, thread, stack>>
        /\ \A v \in Wraps \ {w} : data'[v] = data[v] /\ state'[v] = state[v]
    BY <1>4 DEF Finalize, Own, Delete, VarTypes, WrapTypes
  <2>2. ~ClosingFrame(w)
    <3>1. SUFFICES ASSUME ClosingFrame(w) PROVE FALSE
      OBVIOUS
    <3>2. stack[t] # << >> /\ stack[t][1].op = "close" /\ stack[t][1].wrap = w
      BY <2>1, <3>1 DEF ClosingFrame
    <3>3. 1 \in DOMAIN stack[t]
      BY <3>2 DEF StackType
    <3> QED BY <1>4, <3>2, <3>3 DEF Finalize
  <2>3. \A d \in Datas : attached[d] # None => attached[d] \in Wraps \ {w}
    BY <2>1, <2>2 DEF AttachedInv, VarTypes, DataTypes
  <2> QED BY <2>1, <2>3 DEF AttachedInv, ClosingFrame
<1> QED BY <1>2, <1>3, <1>4

\* The invariant holds in every behaviour: a step is a call from JavaScript, a
\* frame's step, a callback or the cleanup of an environment.
LEMMA AttachedHeld == Spec => []AttachedInv
<1>1. Init => AttachedInv
  BY DEF Init, AttachedInv
<1>2. TypeOK /\ AttachedInv /\ [Next]_vars => AttachedInv'
  <2> SUFFICES ASSUME TypeOK, AttachedInv, [Next]_vars PROVE AttachedInv'
    OBVIOUS
  <2>1. VarTypes /\ StackType
    BY TypeParts
  <2>2. CASE UNCHANGED vars
    BY <2>2 DEF AttachedInv, ClosingFrame, vars, dataVars, wrapVars
  <2>3. ASSUME NEW t \in Threads, EnvCleanup(t)
        PROVE  AttachedInv'
    <3>1. Quiet /\ UNCHANGED stack
      BY <2>1, <2>3 DEF EnvCleanup, Quiet, dataVars
    <3> QED BY <2>1, <3>1, QuietKept DEF ClosingFrame, Quiet
  <2> QED BY <2>1, <2>2, <2>3, ScriptKept, ProceedKept, EventKept DEF Next
<1> QED BY <1>1, <1>2, TypeCorrect, PTL DEF Spec

\* attached_port is never stale: in every behaviour, for any number of threads,
\* ports and messages in transit, the raw pointer of a MessagePortData points
\* at a MessagePort that exists and that holds this very MessagePortData.
THEOREM AttachedSafe == Spec => []AttachedIsOwner
<1>1. AttachedInv => AttachedIsOwner
  BY DEF AttachedInv, AttachedIsOwner, Live
<1> QED BY <1>1, AttachedHeld, PTL

(***************************************************************************)
(* The frames of all stacks                                                *)
(***************************************************************************)

\* x is one of the frames of the stack s.
In(x, s) == \E i \in DOMAIN s : x = s[i]

\* The frames are those of some stack.
LEMMA OnFrames ==
  /\ \A x : x \in Frames <=> \E t \in Threads : In(x, stack[t])
  /\ \A x : x \in Frames' <=> \E t \in Threads : In(x, stack'[t])
BY DEF Frames, In

\* The elements of a stack that grows by f.
LEMMA AppendMove ==
  ASSUME NEW S, NEW s \in Seq(S), NEW f \in S
  PROVE  \A x : In(x, Append(s, f)) <=> x = f \/ In(x, s)
<1>1. Len(s) \in Nat /\ DOMAIN s = 1..Len(s)
  BY LenProperties
<1>2. /\ DOMAIN Append(s, f) = 1..(Len(s) + 1)
      /\ Append(s, f)[Len(s) + 1] = f
      /\ \A i \in 1..Len(s) : Append(s, f)[i] = s[i]
  BY <1>1
<1>3. \A i \in 1..Len(s) : i \in 1..(Len(s) + 1)
  BY <1>1
<1>4. Len(s) + 1 \in 1..(Len(s) + 1) /\ \A j \in 1..(Len(s) + 1) : j = Len(s) + 1 \/ j \in 1..Len(s)
  BY <1>1
<1> DEFINE r == Append(s, f)
           n == Len(s)
<1>5. /\ DOMAIN r = 1..(n + 1) /\ r[n + 1] = f /\ DOMAIN s = 1..n
      /\ \A i \in 1..n : r[i] = s[i] /\ i \in 1..(n + 1)
      /\ n + 1 \in 1..(n + 1) /\ \A j \in 1..(n + 1) : j = n + 1 \/ j \in 1..n
  BY <1>1, <1>2, <1>3, <1>4
<1> HIDE DEF r, n
<1>6. ASSUME NEW x PROVE In(x, r) <=> x = f \/ In(x, s)
  BY <1>5, Zenon DEF In
<1> QED BY <1>6 DEF r

\* The elements of a stack that grows by f and g.
LEMMA AppendTwo ==
  ASSUME NEW S, NEW s \in Seq(S), NEW f \in S, NEW g \in S
  PROVE  \A x : In(x, Append(Append(s, f), g)) <=> x = f \/ x = g \/ In(x, s)
<1>1. Append(s, f) \in Seq(S)
  OBVIOUS
<1>2. \A x : In(x, Append(s, f)) <=> x = f \/ In(x, s)
  BY AppendMove
<1> DEFINE r == Append(s, f)
<1> HIDE DEF r
<1>3. \A x : In(x, Append(r, g)) <=> x = g \/ In(x, r)
  BY <1>1, AppendMove DEF r
<1> QED BY <1>2, <1>3 DEF r

\* The elements of a stack that loses its last one.
LEMMA PopMove ==
  ASSUME NEW S, NEW s \in Seq(S), s # << >>
  PROVE  /\ Len(s) \in DOMAIN s
         /\ Pop(s) \in Seq(S)
         /\ \A x : In(x, s) => x = s[Len(s)] \/ In(x, Pop(s))
         /\ \A x : In(x, Pop(s)) => In(x, s)
<1>1. Len(s) \in Nat /\ DOMAIN s = 1..Len(s) /\ \A i \in 1..Len(s) : s[i] \in S
  BY ElementOfSeq, LenProperties
<1>2. Len(s) # 0
  BY EmptySeq
<1> DEFINE n == Len(s) - 1
<1>3. n \in Nat /\ n + 1 = Len(s) /\ n <= Len(s)
  BY <1>1, <1>2
<1>4. \A i \in 1..n : s[i] \in S /\ 1 + i - 1 = i
  BY <1>1, <1>3
<1> DEFINE p == SubSeq(s, 1, n)
<1>5. p \in Seq(S) /\ Len(p) = n /\ \A i \in 1..n : p[i] = s[i]
  <2>1. (\A i \in 1..n : s[i] \in S) /\ 1 \in Int /\ n \in Int
    BY <1>3, <1>4
  <2> HIDE DEF n
  <2>2. /\ p \in Seq(S)
        /\ Len(p) = IF 1 <= n THEN n - 1 + 1 ELSE 0
        /\ \A i \in 1..n - 1 + 1 : p[i] = s[1 + i - 1]
    BY <2>1, SubSeqProperties
  <2> HIDE DEF p
  <2>3. n - 1 + 1 = n /\ (IF 1 <= n THEN n - 1 + 1 ELSE 0) = n
    BY <1>3
  <2> QED BY <1>4, <2>2, <2>3
<1>6. Pop(s) = p
  BY DEF Pop
<1> HIDE DEF p, n
<1>7. DOMAIN p = 1..n
  BY <1>5, LenProperties
<1>8. \A i \in 1..Len(s) : i = Len(s) \/ i \in 1..n
  <2>1. \A m \in Nat : \A i \in 1..(m + 1) : i = m + 1 \/ i \in 1..m
    OBVIOUS
  <2> QED BY <1>3, <2>1
<1>9. \A i \in 1..n : i \in 1..Len(s)
  BY <1>1, <1>3
<1>10. Len(s) \in 1..Len(s)
  BY <1>1, <1>2
<1>11. ASSUME NEW x, In(x, s) PROVE x = s[Len(s)] \/ In(x, p)
  <2>1. PICK i \in 1..Len(s) : x = s[i]
    BY <1>1, <1>11 DEF In
  <2> QED BY <1>5, <1>7, <1>8, <2>1 DEF In
<1>12. ASSUME NEW x, In(x, p) PROVE In(x, s)
  BY <1>1, <1>5, <1>7, <1>9, <1>12 DEF In
<1> QED BY <1>1, <1>5, <1>6, <1>10, <1>11, <1>12

\* A call adds its frame; a return takes the running one away; a frame that
\* goes on is replaced.
LEMMA FramesMove ==
  ASSUME StackType, NEW t \in Threads, NEW f, NEW g
  PROVE  /\ Push(t, f) => Frames \subseteq Frames' /\ Frames' \subseteq Frames \cup {f} /\ f \in Frames'
         /\ stack[t] # << >> => Top(t) \in Frames
         /\ stack[t] # << >> /\ Return(t) =>
              Frames \subseteq Frames' \cup {Top(t)} /\ Frames' \subseteq Frames
         /\ stack[t] # << >> /\ Continue(t, f) =>
              Frames \subseteq Frames' \cup {Top(t)} /\ Frames' \subseteq Frames \cup {f} /\ f \in Frames'
         /\ stack[t] # << >> /\ Call(t, f, g) =>
              /\ Frames \subseteq Frames' \cup {Top(t)}
              /\ Frames' \subseteq Frames \cup {f, g} /\ f \in Frames' /\ g \in Frames'
<1> DEFINE S == Frame \cup {f, g}
           s == stack[t]
<1>1. s \in Seq(S) /\ f \in S /\ g \in S
  <2>1. s \in Seq(Frame)
    BY DEF StackType
  <2> HIDE DEF s
  <2> QED BY <2>1
<1> HIDE DEF S
<1>2. \A r : [stack EXCEPT ![t] = r][t] = r /\ \A u \in Threads \ {t} : [stack EXCEPT ![t] = r][u] = stack[u]
  BY DEF StackType
<1>3. ASSUME NEW r, stack' = [stack EXCEPT ![t] = r]
      PROVE  /\ \A x \in Frames : x \in Frames' \/ In(x, s)
             /\ \A x : In(x, r) => x \in Frames'
             /\ \A x \in Frames' : x \in Frames \/ In(x, r)
  <2>1. stack'[t] = r /\ \A u \in Threads \ {t} : stack'[u] = stack[u]
    BY <1>2, <1>3
  <2> QED BY <2>1, OnFrames
<1>4. \A x : In(x, s) => x \in Frames
  BY OnFrames
<1>5. s # << >> => Top(t) = s[Len(s)] /\ In(Top(t), s) /\ Pop(s) \in Seq(S)
  BY <1>1, PopMove DEF Top, In
<1>6. \A x : In(x, Append(s, f)) <=> x = f \/ In(x, s)
  <2> HIDE DEF s
  <2> QED BY <1>1, AppendMove
<1>7. s # << >> =>
      /\ \A x : In(x, s) => x = Top(t) \/ In(x, Pop(s))
      /\ \A x : In(x, Pop(s)) => In(x, s)
  <2> SUFFICES ASSUME s # << >> PROVE /\ \A x : In(x, s) => x = Top(t) \/ In(x, Pop(s))
                                      /\ \A x : In(x, Pop(s)) => In(x, s)
    OBVIOUS
  <2>1. Top(t) = s[Len(s)]
    BY <1>5
  <2> HIDE DEF s
  <2> QED BY <1>1, <2>1, PopMove
<1>8. s # << >> =>
      /\ Goto(s, f) \in Seq(S)
      /\ \A x : In(x, Goto(s, f)) <=> x = f \/ In(x, Pop(s))
  <2> SUFFICES ASSUME s # << >>
               PROVE  /\ Goto(s, f) \in Seq(S)
                      /\ \A x : In(x, Goto(s, f)) <=> x = f \/ In(x, Pop(s))
    OBVIOUS
  <2> DEFINE p == Pop(s)
  <2>1. p \in Seq(S) /\ Goto(s, f) = Append(p, f)
    BY <1>5 DEF Goto
  <2> HIDE DEF s, p
  <2>2. Append(p, f) \in Seq(S)
    BY <1>1, <2>1
  <2>3. \A x : In(x, Append(p, f)) <=> x = f \/ In(x, p)
    BY <1>1, <2>1, AppendMove
  <2> QED BY <2>1, <2>2, <2>3 DEF p
<1>9. s # << >> =>
      \A x : In(x, Append(Goto(s, f), g)) <=> x = f \/ x = g \/ In(x, Pop(s))
  <2> DEFINE p == Pop(s)
  <2> SUFFICES ASSUME s # << >>
               PROVE  \A x : In(x, Append(Goto(s, f), g)) <=> x = f \/ x = g \/ In(x, p)
    OBVIOUS
  <2>1. p \in Seq(S) /\ Goto(s, f) = Append(p, f)
    BY <1>5 DEF Goto
  <2> HIDE DEF s, p
  <2>2. \A x : In(x, Append(Append(p, f), g)) <=> x = f \/ x = g \/ In(x, p)
    BY <1>1, <2>1, AppendTwo
  <2> QED BY <2>1, <2>2
<1>10. ASSUME Push(t, f)
       PROVE  Frames \subseteq Frames' /\ Frames' \subseteq Frames \cup {f} /\ f \in Frames'
  <2>1. stack' = [stack EXCEPT ![t] = Append(s, f)]
    BY <1>10 DEF Push
  <2> QED BY <1>3, <1>4, <1>6, <2>1
<1>11. ASSUME s # << >>, Return(t)
       PROVE  Frames \subseteq Frames' \cup {Top(t)} /\ Frames' \subseteq Frames
  <2>1. stack' = [stack EXCEPT ![t] = Pop(s)]
    BY <1>11 DEF Return
  <2> QED BY <1>3, <1>4, <1>7, <1>11, <2>1
<1>12. ASSUME s # << >>, Continue(t, f)
       PROVE  /\ Frames \subseteq Frames' \cup {Top(t)}
              /\ Frames' \subseteq Frames \cup {f} /\ f \in Frames'
  <2>1. stack' = [stack EXCEPT ![t] = Goto(s, f)]
    BY <1>12 DEF Continue
  <2> QED BY <1>3, <1>4, <1>7, <1>8, <1>12, <2>1
<1>13. ASSUME s # << >>, Call(t, f, g)
       PROVE  /\ Frames \subseteq Frames' \cup {Top(t)}
              /\ Frames' \subseteq Frames \cup {f, g} /\ f \in Frames' /\ g \in Frames'
  <2>1. stack' = [stack EXCEPT ![t] = Append(Goto(s, f), g)]
    BY <1>13 DEF Call
  <2> QED BY <1>3, <1>4, <1>7, <1>9, <1>13, <2>1
<1> QED BY <1>4, <1>5, <1>10, <1>11, <1>12, <1>13

\* The elements of a queue that loses its first one.
LEMMA TailMove ==
  ASSUME NEW S, NEW s \in Seq(S), s # << >>
  PROVE  In(Head(s), s) /\ \A x : In(x, Tail(s)) => In(x, s)
<1>1. Len(s) \in Nat /\ DOMAIN s = 1..Len(s) /\ Len(s) # 0
  BY LenProperties, EmptySeq
<1>2. 1 \in 1..Len(s) /\ Head(s) = s[1]
  BY <1>1
<1>3. ASSUME NEW x, In(x, Tail(s)) PROVE In(x, s)
  <2>1. PICK i \in DOMAIN Tail(s) : x = Tail(s)[i]
    BY <1>3 DEF In
  <2>2. i + 1 \in 1..Len(s) /\ Tail(s)[i] = s[i + 1]
    BY <1>1, <2>1
  <2> QED BY <1>1, <2>1, <2>2 DEF In
<1> QED BY <1>1, <1>2, <1>3 DEF In

(***************************************************************************)
(* Nothing refers to a Data before it is constructed                       *)
(***************************************************************************)

\* The Datas of channels.  The others are those of broadcast channels, which
\* never travel.
Ends == {d \in Datas : Twin[d] # d}

\* The Datas that a frame holds on to are in B; those that it transfers are
\* ends of channels, those that join or leave a group are not.
Refers(f, B) ==
  /\ f.op = "post" => f.xdata \in (B \cap Ends) \cup {None} /\ f.targets \subseteq B
  /\ f.op = "enqueue" => f.target \in B /\ f.msg.port \in (B \cap Ends) \cup {None}
  /\ f.op = "join" => f.own \in B \ Ends
  /\ f.op = "close" => f.peer \in B \cup {None} /\ f.own \in B \cup {None}
  /\ f.op = "close" /\ f.pc = "leave" => f.own \in B \ Ends

\* The two ends of a channel are constructed together.
Twinned == \A d \in Datas : d \in born <=> Twin[d] \in born
\* A Data that is not constructed yet has nothing.
Fresh == \A d \in Datas \ born : queue[d] = << >> /\ ~closed[d] /\ group[d] = None
\* Pointers, groups, messages and frames hold on to constructed Datas.  Ends
\* of channels have siblings and are sent, the other Datas have groups.
PointersBorn ==
  /\ \A d \in Datas : sibling[d] \in born \cup {None} /\ (sibling[d] # None => d \in Ends)
  /\ \A w \in Wraps : data[w] \in born \cup {None}
  /\ \A t \in Threads : envData[t] \in (born \cap Ends) \cup {None}
  /\ \A g \in Groups : members[g] \subseteq born \ Ends
  /\ \A d \in Datas : group[d] # None => d \notin Ends
QueuesBorn ==
  \A d \in Datas : \A m : In(m, queue[d]) => m.port \in (born \cap Ends) \cup {None}
FramesBorn == \A f \in Frames : Refers(f, born)

ObjectsBorn == Twinned /\ Fresh /\ PointersBorn /\ QueuesBorn
OnlyBorn == ObjectsBorn /\ FramesBorn

\* A frame may refer to more Datas.
LEMMA RefersGrow ==
  ASSUME NEW f, NEW B, NEW C, B \subseteq C, Refers(f, B)
  PROVE  Refers(f, C)
BY DEF Refers

\* A step of one stack keeps FramesBorn when the new frames do.
LEMMA FramesStep ==
  ASSUME FramesBorn, StackType, born \subseteq born', NEW t \in Threads, NEW f, NEW g,
         Refers(f, born'), Refers(g, born'),
         \/ UNCHANGED stack
         \/ Push(t, f)
         \/ stack[t] # << >> /\ (Return(t) \/ Continue(t, f) \/ Call(t, f, g))
  PROVE  FramesBorn'
<1>1. Frames' \subseteq Frames \cup {f, g}
  <2>1. CASE UNCHANGED stack
    BY <2>1 DEF Frames
  <2> QED BY <2>1, FramesMove
<1>2. \A x \in Frames : Refers(x, born')
  BY RefersGrow DEF FramesBorn
<1> QED BY <1>1, <1>2 DEF FramesBorn

\* lock() yields a constructed Data or null.
LEMMA LockBorn ==
  ASSUME PointersBorn, NEW d \in Datas
  PROVE  Lock(d) \in born \cup {None} /\ (Lock(d) # None => Lock(d) = sibling[d])
BY DEF Lock, PointersBorn

\* One more target of a post.
LEMMA PostNextBorn ==
  ASSUME FramesBorn, StackType, born' = born, NEW t \in Threads, stack[t] # << >>,
         Top(t).op = "post", PostNext(t, Top(t))
  PROVE  FramesBorn'
<1>1. Top(t) \in PostFrame /\ Refers(Top(t), born)
  BY TopType, FramesMove DEF FramesBorn
<1>2. Top(t).xdata \in (born \cap Ends) \cup {None} /\ Top(t).targets \subseteq born
  BY <1>1 DEF Refers
<1>3. PICK d \in Top(t).targets :
        LET call == Enqueue(d, Payload(Top(t).xdata)) IN
          IF Top(t).targets = {d}
          THEN Continue(t, call)
          ELSE Call(t, [Top(t) EXCEPT !.pc = "push", !.targets = @ \ {d}, !.xdata = None], call)
  BY DEF PostNext
<1> DEFINE f == [Top(t) EXCEPT !.pc = "push", !.targets = @ \ {d}, !.xdata = None]
           g == Enqueue(d, Payload(Top(t).xdata))
<1>4. Refers(g, born)
  BY <1>2 DEF Refers, Enqueue, Payload
<1>5. Refers(f, born)
  <2>1. f.op = "post" /\ f.xdata = None /\ f.targets = Top(t).targets \ {d}
    BY <1>1 DEF PostFrame
  <2> HIDE DEF f
  <2> QED BY <1>2, <2>1 DEF Refers
<1>6. Continue(t, g) \/ Call(t, f, g)
  BY <1>3
<1> HIDE DEF f, g
<1> QED BY <1>4, <1>5, <1>6, FramesStep

\* The post's steps keep FramesBorn.
LEMMA PostBorn ==
  ASSUME OnlyBorn, VarTypes, StackType, NEW t \in Threads,
         \/ PostCloneFails(t) \/ PostOnClosed(t) \/ PostToPeer(t) \/ PostToGroup(t)
         \/ PostDetach(t) \/ PostLost(t) \/ PostMore(t)
  PROVE  FramesBorn' /\ born' = born
<1>1. stack[t] # << >> /\ Top(t).op = "post" /\ Top(t) \in PostFrame
  BY TopType DEF PostCloneFails, PostOnClosed, PostToPeer, PostToGroup, PostDetach, PostLost,
     PostMore, At
<1>2. born' = born
  BY DEF PostCloneFails, PostOnClosed, PostToPeer, PostToGroup, PostDetach, PostLost,
     PostMore, dataVars
<1>3. FramesBorn /\ PointersBorn /\ Refers(Top(t), born)
  BY <1>1, FramesMove DEF OnlyBorn, ObjectsBorn, FramesBorn
<1>4. Top(t).xdata \in (born \cap Ends) \cup {None} /\ Top(t).targets \subseteq born
  BY <1>1, <1>3 DEF Refers
<1>5. data[Top(t).wrap] \in Datas \cup {None}
  BY <1>1 DEF PostFrame, VarTypes, WrapTypes
<1>6. CASE PostCloneFails(t) \/ PostOnClosed(t) \/ PostLost(t)
  <2>1. Return(t)
    BY <1>6 DEF PostCloneFails, PostOnClosed, PostLost
  <2> QED BY <1>1, <1>2, <1>3, <2>1, FramesStep
<1>7. CASE PostToPeer(t)
  <2> DEFINE peer == Lock(data[Top(t).wrap])
             f == [Top(t) EXCEPT !.pc = "detach",
                     !.targets = IF Top(t).xdata = peer THEN {} ELSE {peer},
                     !.lost = Top(t).xdata = peer]
             g == Enqueue(peer, Payload(None))
  <2>1. peer \in born
    BY <1>3, <1>5, <1>7, LockBorn DEF PostToPeer, Usable
  <2>2. Continue(t, g) \/ Continue(t, f)
    BY <1>7 DEF PostToPeer
  <2> HIDE DEF peer
  <2>3. Refers(g, born)
    BY <2>1 DEF Refers, Enqueue, Payload
  <2>4. Refers(f, born)
    <3>1. f.op = "post" /\ f.xdata = Top(t).xdata /\ f.targets \subseteq {peer}
      BY <1>1 DEF PostFrame
    <3> HIDE DEF f
    <3> QED BY <1>4, <2>1, <3>1 DEF Refers
  <2> HIDE DEF f, g
  <2> QED BY <1>1, <1>2, <1>3, <2>2, <2>3, <2>4, FramesStep
<1>8. CASE PostToGroup(t)
  <2> DEFINE all == BroadcastTargets(data[Top(t).wrap])
             f == [Top(t) EXCEPT !.pc = "detach", !.targets = all]
  <2>1. all \subseteq born
    <3>1. data[Top(t).wrap] \in Datas
      BY <1>5, <1>8 DEF PostToGroup, Usable
    <3>2. group[data[Top(t).wrap]] # None => group[data[Top(t).wrap]] \in Groups
      BY <3>1 DEF VarTypes, DataTypes
    <3> QED BY <1>3, <3>2 DEF BroadcastTargets, PointersBorn
  <2>2. Return(t) \/ Continue(t, f)
    BY <1>8 DEF PostToGroup
  <2> HIDE DEF all
  <2>3. Refers(f, born)
    <3>1. f.op = "post" /\ f.xdata = Top(t).xdata /\ f.targets = all
      BY <1>1 DEF PostFrame
    <3> HIDE DEF f
    <3> QED BY <1>4, <2>1, <3>1 DEF Refers
  <2> HIDE DEF f
  <2> QED BY <1>1, <1>2, <1>3, <2>2, <2>3, FramesStep
<1>9. CASE PostDetach(t)
  <2> DEFINE f == [Top(t) EXCEPT !.pc = "warn"]
  <2>1. Refers(f, born)
    <3>1. f.op = "post" /\ f.xdata = Top(t).xdata /\ f.targets = Top(t).targets
      BY <1>1 DEF PostFrame
    <3> HIDE DEF f
    <3> QED BY <1>4, <3>1 DEF Refers
  <2>2. Continue(t, f) \/ PostNext(t, Top(t)) \/ Return(t)
    BY <1>9 DEF PostDetach
  <2> HIDE DEF f
  <2> QED BY <1>1, <1>2, <1>3, <2>1, <2>2, FramesStep, PostNextBorn
<1>10. CASE PostMore(t)
  BY <1>1, <1>2, <1>3, <1>10, PostNextBorn DEF PostMore
<1> QED BY <1>2, <1>6, <1>7, <1>8, <1>9, <1>10

\* The other frames' steps keep FramesBorn.
LEMMA OthersBorn ==
  ASSUME OnlyBorn, VarTypes, StackType, NEW t \in Threads,
         \/ EnqueuePush(t) \/ TriggerReadAttached(t) \/ TriggerCheck(t) \/ TriggerSend(t)
         \/ PumpMessage(t) \/ PumpReturn(t) \/ PumpClose(t) \/ PumpEnd(t)
         \/ JoinGroup(t) \/ CloseLeave(t) \/ CloseDisentangle(t)
         \/ CloseUnlinkPeer(t) \/ CloseFinish(t)
  PROVE  FramesBorn' /\ born' = born
<1>1. born' = born
  BY DEF EnqueuePush, TriggerReadAttached, TriggerCheck, TriggerSend, PumpMessage, PumpReturn,
     PumpClose, PumpEnd, JoinGroup, CloseLeave, CloseDisentangle, CloseUnlinkPeer, CloseFinish,
     dataVars
<1>2. stack[t] # << >> /\ Top(t) \in Frame
  BY TopType DEF EnqueuePush, TriggerReadAttached, TriggerCheck, TriggerSend, PumpMessage,
     PumpReturn, PumpClose, PumpEnd, JoinGroup, CloseLeave, CloseDisentangle, CloseUnlinkPeer,
     CloseFinish, At
<1>3. FramesBorn /\ Refers(Top(t), born)
  BY <1>2, FramesMove DEF OnlyBorn, FramesBorn
<1>4. CASE TriggerSend(t) \/ PumpClose(t) \/ PumpEnd(t) \/ JoinGroup(t) \/ CloseFinish(t)
  <2>1. Return(t)
    BY <1>4 DEF TriggerSend, PumpClose, PumpEnd, JoinGroup, CloseFinish
  <2> QED BY <1>1, <1>2, <1>3, <2>1, FramesStep
<1>5. CASE EnqueuePush(t) \/ TriggerReadAttached(t) \/ TriggerCheck(t)
  <2>1. Top(t) \in EnqueueFrame /\ Top(t).op = "enqueue"
    BY <1>5, TopType DEF EnqueuePush, TriggerReadAttached, TriggerCheck, At
  <2>2. ASSUME NEW c, NEW w
        PROVE  /\ Refers([Top(t) EXCEPT !.pc = c, !.trig = w], born)
               /\ Refers([Top(t) EXCEPT !.pc = c], born)
    BY <1>3, <2>1 DEF EnqueueFrame, Refers
  <2>3. Return(t) \/ \E f : Continue(t, f) /\ Refers(f, born)
    <3>1. CASE EnqueuePush(t)
      BY <2>2, <3>1 DEF EnqueuePush
    <3>2. CASE TriggerReadAttached(t)
      BY <2>2, <3>2 DEF TriggerReadAttached
    <3>3. CASE TriggerCheck(t)
      BY <2>2, <3>3 DEF TriggerCheck
    <3> QED BY <1>5, <3>1, <3>2, <3>3
  <2> QED BY <1>1, <1>2, <1>3, <2>3, FramesStep
<1>6. CASE PumpMessage(t) \/ PumpReturn(t)
  <2>1. Top(t) \in PumpFrame
    BY <1>6, TopType DEF PumpMessage, PumpReturn, At
  <2>2. PICK f : Continue(t, f) /\ f.op = "pump"
    <3>1. CASE PumpReturn(t)
      <4>1. [Top(t) EXCEPT !.pc = "loop"].op = "pump"
        BY <2>1 DEF PumpFrame
      <4> QED BY <3>1, <4>1 DEF PumpReturn
    <3>2. CASE PumpMessage(t)
      <4> DEFINE f == [Top(t) EXCEPT !.pc = "emit",
                         !.left = IF Top(t).force THEN @ ELSE @ - 1]
      <4>1. f.op = "pump"
        BY <2>1 DEF PumpFrame
      <4>2. Continue(t, f)
        BY <3>2 DEF PumpMessage
      <4> HIDE DEF f
      <4> QED BY <4>1, <4>2
    <3> QED BY <1>6, <3>1, <3>2
  <2>3. Refers(f, born)
    BY <2>2 DEF Refers
  <2> QED BY <1>1, <1>2, <1>3, <2>2, <2>3, FramesStep
<1>7. CASE CloseUnlinkPeer(t)
  <2> DEFINE f == [Top(t) EXCEPT !.pc = "onclose", !.peer = None]
             g == Enqueue(Top(t).peer, CloseMsg)
  <2>1. Top(t) \in CloseFrame /\ Top(t).op = "close" /\ Top(t).peer # None
    BY <1>7, TopType DEF CloseUnlinkPeer, At
  <2>2. f.op = "close" /\ f.pc = "onclose" /\ f.peer = None /\ f.own = Top(t).own
    BY <2>1 DEF CloseFrame
  <2>3. Refers(g, born)
    BY <1>3, <2>1 DEF Refers, Enqueue, CloseMsg
  <2>4. Call(t, f, g)
    BY <1>7 DEF CloseUnlinkPeer
  <2> HIDE DEF f, g
  <2>5. Refers(f, born)
    BY <1>3, <2>1, <2>2 DEF Refers
  <2> QED BY <1>1, <1>2, <1>3, <2>3, <2>4, <2>5, FramesStep
<1>8. CASE CloseLeave(t) \/ CloseDisentangle(t)
  <2>1. Top(t) \in CloseFrame /\ Top(t).op = "close"
    BY <1>8, TopType DEF CloseLeave, CloseDisentangle, At
  <2>2. Top(t).own \in born \cup {None} /\ Top(t).peer \in born \cup {None}
    BY <1>3, <2>1 DEF Refers
  <2>3. CloseDisentangle(t) => Lock(Top(t).own) \in born \cup {None}
    BY <2>1, LockBorn DEF CloseDisentangle, CloseFrame, OnlyBorn, ObjectsBorn
  <2>4. PICK f : /\ Continue(t, f) /\ f.op = "close" /\ f.own = Top(t).own
                 /\ CloseLeave(t) => f.pc = "disentangle" /\ f.peer = Top(t).peer
                 /\ CloseDisentangle(t) => /\ f.peer = Lock(Top(t).own)
                                           /\ f.pc = IF f.peer = None THEN "onclose" ELSE "peer"
    BY <2>1, <1>8, CloseGoesOn
  <2>5. Refers(f, born)
    BY <1>8, <2>2, <2>3, <2>4 DEF Refers
  <2> QED BY <1>1, <1>2, <1>3, <2>4, <2>5, FramesStep
<1> QED BY <1>1, <1>4, <1>5, <1>6, <1>7, <1>8


\* A step that constructs nothing, moves no message and keeps every link: at
\* most a wrap lets go of its Data.
Steady ==
  /\ UNCHANGED <<born, queue, closed, sibling, group, members, envData>>
  /\ \A w \in Wraps : data'[w] \in {data[w], None}

\* A step that is Steady keeps ObjectsBorn.
LEMMA SteadyBorn ==
  ASSUME ObjectsBorn, Steady
  PROVE  ObjectsBorn'
<1>1. \A w \in Wraps : data'[w] \in born \cup {None}
  BY DEF Steady, ObjectsBorn, PointersBorn
<1> QED BY <1>1 DEF Steady, ObjectsBorn, Twinned, Fresh, PointersBorn, QueuesBorn

\* Taking a message off a queue: its port was constructed.
LEMMA TakeMessageBorn ==
  ASSUME ObjectsBorn, VarTypes, NEW t \in Threads, NEW d \in Datas, queue[d] # << >>,
         NEW r \in BOOLEAN, TakeMessage(t, d, r),
         UNCHANGED <<sibling, group, born, members, envData>>
  PROVE  ObjectsBorn'
<1>1. queue[d] \in Seq(Message) /\ queue' = [queue EXCEPT ![d] = Tail(@)]
  BY DEF VarTypes, DataTypes, TakeMessage
<1>2. Head(queue[d]) \in Message /\ In(Head(queue[d]), queue[d])
      /\ \A m : In(m, Tail(queue[d])) => In(m, queue[d])
  BY <1>1, TailMove
<1>3. d \in born
  BY DEF ObjectsBorn, Fresh
<1>4. Head(queue[d]).port \in (born \cap Ends) \cup {None}
  BY <1>2 DEF ObjectsBorn, QueuesBorn
<1>5. QueuesBorn'
  BY <1>1, <1>2 DEF ObjectsBorn, QueuesBorn, VarTypes, DataTypes
<1>6. \A e \in Datas \ born : queue'[e] = queue[e]
  BY <1>1, <1>3 DEF VarTypes, DataTypes
<1>7. CASE Head(queue[d]).port # None /\ r
  <2> DEFINE p == Head(queue[d]).port
  <2>1. p \in born
    BY <1>4, <1>7
  <2>2. PICK w \in Wraps : ReceivePort(t, w, p)
    BY <1>7 DEF TakeMessage
  <2>3. data' = [data EXCEPT ![w] = p] /\ closed' = [closed EXCEPT ![p] = FALSE]
    BY <2>2 DEF ReceivePort
  <2> HIDE DEF p
  <2>4. PointersBorn'
    BY <2>1, <2>3 DEF ObjectsBorn, PointersBorn, VarTypes, WrapTypes
  <2>5. Fresh'
    BY <1>6, <2>1, <2>3 DEF ObjectsBorn, Fresh, VarTypes, DataTypes
  <2> QED BY <1>5, <2>4, <2>5 DEF ObjectsBorn, Twinned
<1>8. CASE ~(Head(queue[d]).port # None /\ r)
  <2>1. UNCHANGED <<data, closed>>
    BY <1>8 DEF TakeMessage
  <2> QED BY <1>5, <1>6, <2>1 DEF ObjectsBorn, Twinned, Fresh, PointersBorn
<1> QED BY <1>7, <1>8

\* A close message leaves the queue of a constructed Data.
LEMMA TakeCloseBorn ==
  ASSUME ObjectsBorn, VarTypes, NEW w \in Wraps, data[w] \in Datas, queue[data[w]] # << >>,
         TakeClose(w), UNCHANGED <<closed, sibling, group, born, members, data, envData>>
  PROVE  ObjectsBorn'
<1> DEFINE d == data[w]
<1>1. d \in Datas /\ queue[d] \in Seq(Message) /\ queue' = [queue EXCEPT ![d] = Tail(@)]
      /\ queue[d] # << >>
  BY DEF VarTypes, DataTypes, TakeClose
<1> HIDE DEF d
<1>2. \A m : In(m, Tail(queue[d])) => In(m, queue[d])
  BY <1>1, TailMove
<1>3. d \in born
  BY <1>1 DEF ObjectsBorn, Fresh
<1>4. QueuesBorn'
  BY <1>1, <1>2 DEF ObjectsBorn, QueuesBorn, VarTypes, DataTypes
<1>5. Fresh'
  BY <1>1, <1>3 DEF ObjectsBorn, Fresh, VarTypes, DataTypes
<1> QED BY <1>4, <1>5 DEF ObjectsBorn, Twinned, PointersBorn

\* Two Datas are constructed together, or one for a broadcast channel.
LEMMA ConstructBorn ==
  ASSUME ObjectsBorn, VarTypes, NEW d \in Datas, d \notin born,
         born' = born \cup {d, Twin[d]},
         UNCHANGED <<queue, closed>>,
         \A e \in Datas : group'[e] = group[e] \/ (e = d /\ Twin[d] = d),
         \A e \in Datas : \/ sibling'[e] = sibling[e]
                          \/ Twin[d] # d /\ e \in {d, Twin[d]} /\ sibling'[e] \in {d, Twin[d]},
         \A w \in Wraps : data'[w] \in {data[w], d, Twin[d]},
         \A u \in Threads : \/ envData'[u] = envData[u]
                            \/ Twin[d] # d /\ envData'[u] = Twin[d],
         members' = members
  PROVE  ObjectsBorn'
<1>1. /\ Twin[d] \in Datas /\ \A e \in Datas : Twin[Twin[e]] = e
      /\ \A e \in Datas : Twin[e] \in Datas
  BY ConstantsAssumption
<1>2. born \subseteq born' /\ d \in born' /\ Twin[d] \in born'
  OBVIOUS
<1>3. Twinned'
  <2>1. ASSUME NEW e \in Datas
        PROVE  e \in born' <=> Twin[e] \in born'
    <3>1. e \in born <=> Twin[e] \in born
      BY DEF ObjectsBorn, Twinned
    <3>2. Twin[e] \in {d, Twin[d]} <=> e \in {d, Twin[d]}
      BY <1>1
    <3> QED BY <3>1, <3>2
  <2> QED BY <2>1 DEF Twinned
<1>4. Fresh'
  BY <1>2 DEF ObjectsBorn, Fresh
<1>5. PointersBorn'
  <2>0. Twin[d] # d => d \in Ends /\ Twin[d] \in Ends
    BY <1>1 DEF Ends
  <2>1. \A e \in Datas : sibling'[e] \in born' \cup {None} /\ (sibling'[e] # None => e \in Ends)
    BY <1>2, <2>0 DEF ObjectsBorn, PointersBorn
  <2>2. \A w \in Wraps : data'[w] \in born' \cup {None}
    BY <1>2 DEF ObjectsBorn, PointersBorn
  <2>3. \A u \in Threads : envData'[u] \in (born' \cap Ends) \cup {None}
    BY <1>2, <2>0 DEF ObjectsBorn, PointersBorn
  <2>4. \A g \in Groups : members'[g] \subseteq born' \ Ends
    BY <1>2 DEF ObjectsBorn, PointersBorn
  <2>5. \A e \in Datas : group'[e] # None => e \notin Ends
    BY DEF ObjectsBorn, PointersBorn, Ends
  <2> QED BY <2>1, <2>2, <2>3, <2>4, <2>5 DEF PointersBorn
<1>6. QueuesBorn'
  BY <1>2 DEF ObjectsBorn, QueuesBorn
<1> QED BY <1>3, <1>4, <1>5, <1>6 DEF ObjectsBorn


\* Calls from JavaScript keep OnlyBorn.
LEMMA ScriptBorn ==
  ASSUME OnlyBorn, VarTypes, StackType, NEW t \in Threads, Script(t)
  PROVE  OnlyBorn'
<1> USE ConstantsAssumption
<1>0. ObjectsBorn /\ FramesBorn
  BY DEF OnlyBorn
<1>1. CASE \E v, w \in Wraps, d \in Datas : MessageChannel(t, v, w, d)
  <2>1. PICK v \in Wraps, w \in Wraps, d \in Datas : MessageChannel(t, v, w, d)
    BY <1>1
  <2>2. /\ d \notin born /\ born' = born \cup {d, Twin[d]} /\ Twin[d] \in Datas
        /\ UNCHANGED <<queue, closed, group, members, envData, stack>>
    BY <2>1 DEF MessageChannel, NewData, envVars
  <2>3. \A e \in Datas :
          \/ sibling'[e] = sibling[e]
          \/ Twin[d] # d /\ e \in {d, Twin[d]} /\ sibling'[e] \in {d, Twin[d]}
    BY <2>1, <2>2 DEF MessageChannel, VarTypes, DataTypes
  <2>4. \A w0 \in Wraps : data'[w0] \in {data[w0], d, Twin[d]}
    BY <2>1, <2>2 DEF MessageChannel, VarTypes, WrapTypes
  <2>5. ObjectsBorn'
    BY <1>0, <2>2, <2>3, <2>4, ConstructBorn
  <2>6. FramesBorn'
    BY <1>0, <2>2, RefersGrow DEF FramesBorn, Frames
  <2> QED BY <2>5, <2>6 DEF OnlyBorn
<1>2. CASE \E w \in Wraps, d \in Datas, g \in Groups : BroadcastChannel(t, w, d, g)
  <2>1. PICK w \in Wraps, d \in Datas, g \in Groups : BroadcastChannel(t, w, d, g)
    BY <1>2
  <2> DEFINE f == [op |-> "join", pc |-> "list", wrap |-> w, own |-> d, group |-> g]
  <2>2. /\ d \notin born /\ born' = born \cup {d, Twin[d]} /\ Twin[d] = d
        /\ UNCHANGED <<queue, closed, sibling, members, envData>> /\ Push(t, f)
    BY <2>1 DEF BroadcastChannel, NewData, envVars
  <2>3. \A e \in Datas : group'[e] = group[e] \/ (e = d /\ Twin[d] = d)
    BY <2>1, <2>2 DEF BroadcastChannel, VarTypes, DataTypes
  <2>4. \A w0 \in Wraps : data'[w0] \in {data[w0], d, Twin[d]}
    BY <2>1 DEF BroadcastChannel, VarTypes, WrapTypes
  <2>5. ObjectsBorn'
    BY <1>0, <2>2, <2>3, <2>4, ConstructBorn
  <2>6. Refers(f, born')
    BY <2>2 DEF Refers, Ends
  <2> HIDE DEF f
  <2>7. FramesBorn'
    BY <1>0, <2>2, <2>6, FramesStep
  <2> QED BY <2>5, <2>7 DEF OnlyBorn
<1>3. CASE \E w \in Wraps, u \in Threads, d \in Datas : StartWorker(t, u, w, d)
  <2>1. PICK w \in Wraps, u \in Threads, d \in Datas : StartWorker(t, u, w, d)
    BY <1>3
  <2>2. /\ d \notin born /\ born' = born \cup {d, Twin[d]} /\ Twin[d] \in Datas
        /\ UNCHANGED <<queue, closed, group, members, stack>>
    BY <2>1 DEF StartWorker, NewData
  <2>3. \A e \in Datas :
          \/ sibling'[e] = sibling[e]
          \/ Twin[d] # d /\ e \in {d, Twin[d]} /\ sibling'[e] \in {d, Twin[d]}
    BY <2>1, <2>2 DEF StartWorker, VarTypes, DataTypes
  <2>4. \A w0 \in Wraps : data'[w0] \in {data[w0], d, Twin[d]}
    BY <2>1 DEF StartWorker, VarTypes, WrapTypes
  <2>5. \A v \in Threads : envData'[v] = envData[v] \/ (Twin[d] # d /\ envData'[v] = Twin[d])
    BY <2>1 DEF StartWorker, VarTypes, EnvTypes
  <2>6. ObjectsBorn'
    BY <1>0, <2>2, <2>3, <2>4, <2>5, ConstructBorn
  <2>7. FramesBorn'
    BY <1>0, <2>2, RefersGrow DEF FramesBorn, Frames
  <2> QED BY <2>6, <2>7 DEF OnlyBorn
<1>4. CASE \E w \in Wraps : GetEnvMessagePort(t, w)
  <2>1. PICK w \in Wraps : GetEnvMessagePort(t, w)
    BY <1>4
  <2> DEFINE p == envData[t]
  <2>2. p \in born
    BY <1>0, <2>1 DEF GetEnvMessagePort, ObjectsBorn, PointersBorn
  <2>3. /\ data' = [data EXCEPT ![w] = p] /\ closed' = [closed EXCEPT ![p] = FALSE]
        /\ UNCHANGED <<queue, sibling, group, born, members, envData, stack>>
    BY <2>1 DEF GetEnvMessagePort, ReceivePort
  <2> HIDE DEF p
  <2>4. PointersBorn'
    BY <1>0, <2>2, <2>3 DEF ObjectsBorn, PointersBorn, VarTypes, WrapTypes
  <2>5. Fresh'
    BY <1>0, <2>2, <2>3 DEF ObjectsBorn, Fresh, VarTypes, DataTypes
  <2> QED BY <1>0, <2>3, <2>4, <2>5 DEF OnlyBorn, ObjectsBorn, Twinned, QueuesBorn, FramesBorn, Frames
<1>5. CASE \E w \in Wraps, x \in Wraps \cup {None} : PostMessage(t, w, x)
  <2>1. PICK w \in Wraps, x \in Wraps \cup {None} : PostMessage(t, w, x)
    BY <1>5
  <2> DEFINE f == [op |-> "post", pc |-> "clone", wrap |-> w, xwrap |-> x,
                   xdata |-> IF x = None THEN None ELSE data[x],
                   targets |-> {}, lost |-> FALSE]
  <2>2. Refers(f, born)
    <3>1. x # None => data[x] \in born \cap Ends
      <4> SUFFICES ASSUME x # None PROVE data[x] \in born \cap Ends
        OBVIOUS
      <4>1. x \in Wraps /\ data[x] # None /\ Lock(data[x]) # None
        BY <2>1 DEF PostMessage, Transferable, Usable
      <4>2. data[x] \in Datas /\ sibling[data[x]] # None
        BY <4>1 DEF VarTypes, WrapTypes, Lock
      <4> QED BY <1>0, <4>1, <4>2 DEF ObjectsBorn, PointersBorn
    <3> QED BY <3>1 DEF Refers
  <2>3. Push(t, f) /\ Steady
    BY <2>1 DEF PostMessage, Steady, dataVars, wrapVars, envVars
  <2> HIDE DEF f
  <2>4. FramesBorn'
    BY <1>0, <2>2, <2>3, FramesStep DEF Steady
  <2> QED BY <1>0, <2>3, <2>4, SteadyBorn DEF OnlyBorn
<1>6. CASE \E w \in Wraps : DrainMessagePort(t, w)
  <2>1. PICK w \in Wraps : DrainMessagePort(t, w)
    BY <1>6
  <2>2. Push(t, Pump(w, TRUE, 0)) /\ Steady
    BY <2>1 DEF DrainMessagePort, Steady, dataVars, wrapVars, envVars
  <2>3. Refers(Pump(w, TRUE, 0), born)
    BY DEF Refers, Pump
  <2>4. FramesBorn'
    BY <1>0, <2>2, <2>3, FramesStep DEF Steady
  <2> QED BY <1>0, <2>2, <2>4, SteadyBorn DEF OnlyBorn
<1>7. CASE \E w \in Wraps : ReceiveMessageOnPort(t, w)
  <2>1. PICK w \in Wraps : ReceiveMessageOnPort(t, w)
    BY <1>7
  <2>2. /\ data[w] \in Datas /\ queue[data[w]] # << >>
        /\ UNCHANGED <<sibling, group, born, members, envData, stack>>
    BY <2>1 DEF ReceiveMessageOnPort, VarTypes, WrapTypes, envVars
  <2>3. FramesBorn'
    BY <1>0, <2>2 DEF FramesBorn, Frames
  <2>4. CASE TakeClose(w) /\ UNCHANGED <<thread, data, attached, closed, async>>
    BY <1>0, <2>2, <2>3, <2>4, TakeCloseBorn DEF OnlyBorn
  <2>5. CASE \E r \in BOOLEAN : TakeMessage(t, data[w], r)
    BY <1>0, <2>2, <2>3, <2>5, TakeMessageBorn DEF OnlyBorn
  <2> QED BY <2>1, <2>4, <2>5 DEF ReceiveMessageOnPort
<1>8. CASE \E w \in Wraps : Start(t, w) \/ Stop(t, w) \/ Close(t, w)
  <2>1. Steady /\ UNCHANGED stack
    BY <1>8 DEF Start, Stop, Close, Steady, dataVars, envVars
  <2>2. FramesBorn'
    BY <1>0, <2>1 DEF FramesBorn, Frames, Steady
  <2> QED BY <1>0, <2>1, <2>2, SteadyBorn DEF OnlyBorn
<1> QED BY <1>1, <1>2, <1>3, <1>4, <1>5, <1>6, <1>7, <1>8 DEF Script

\* Deleting a wrap empties at most a queue.
LEMMA DeleteBorn ==
  ASSUME ObjectsBorn, VarTypes, NEW w \in Wraps, Delete(w) \/ UNCHANGED <<queue, data>>,
         UNCHANGED <<closed, sibling, group, born, members, envData>>
  PROVE  ObjectsBorn'
<1>1. \A d \in Datas : queue'[d] \in {queue[d], << >>}
  BY DEF Delete, VarTypes, DataTypes
<1>2. \A v \in Wraps : data'[v] \in {data[v], None}
  BY DEF Delete, VarTypes, WrapTypes
<1>3. \A m : ~In(m, << >>)
  BY DEF In
<1>4. QueuesBorn'
  BY <1>1, <1>3 DEF ObjectsBorn, QueuesBorn
<1>5. Fresh'
  BY <1>1 DEF ObjectsBorn, Fresh
<1>6. PointersBorn'
  BY <1>2 DEF ObjectsBorn, PointersBorn
<1> QED BY <1>4, <1>5, <1>6 DEF ObjectsBorn, Twinned

\* A frame's step keeps OnlyBorn.
LEMMA ProceedBorn ==
  ASSUME OnlyBorn, VarTypes, StackType, NEW t \in Threads, Proceed(t)
  PROVE  OnlyBorn'
<1>1. FramesBorn' /\ born' = born
  BY PostBorn, OthersBorn DEF Proceed
<1>2. ObjectsBorn /\ FramesBorn
  BY DEF OnlyBorn
<1>3. CASE PostOnClosed(t) \/ PostDetach(t)
  <2>1. Top(t).xwrap \in Wraps \cup {None}
    BY <1>3, TopType DEF PostOnClosed, PostDetach, At, PostFrame
  <2>2. Steady
    BY <1>3, <2>1 DEF PostOnClosed, PostDetach, DetachTransferredPort, Steady, envVars,
       VarTypes, WrapTypes
  <2> QED BY <1>1, <1>2, <2>2, SteadyBorn DEF OnlyBorn
<1>4. CASE \/ PostCloneFails(t) \/ PostToPeer(t) \/ PostToGroup(t) \/ PostLost(t) \/ PostMore(t)
           \/ TriggerReadAttached(t) \/ TriggerCheck(t) \/ TriggerSend(t)
           \/ PumpReturn(t) \/ PumpEnd(t)
  <2>1. Steady
    BY <1>4 DEF PostCloneFails, PostToPeer, PostToGroup, PostLost, PostMore, TriggerReadAttached,
       TriggerCheck, TriggerSend, PumpReturn, PumpEnd, Steady, dataVars, wrapVars, envVars
  <2> QED BY <1>1, <1>2, <2>1, SteadyBorn DEF OnlyBorn
<1>5. CASE EnqueuePush(t)
  <2> DEFINE d == Top(t).target
             m == Top(t).msg
  <2>1. stack[t] # << >> /\ Top(t) \in EnqueueFrame /\ Top(t).op = "enqueue"
    BY <1>5, TopType DEF EnqueuePush, At
  <2>2. d \in born /\ d \in Datas /\ m \in Message /\ m.port \in (born \cap Ends) \cup {None}
    BY <1>2, <2>1, FramesMove DEF FramesBorn, Refers, EnqueueFrame
  <2>3. /\ queue' = queue \/ queue' = [queue EXCEPT ![d] = Append(@, m)]
        /\ UNCHANGED <<closed, sibling, group, members, data, envData>>
    BY <1>5 DEF EnqueuePush, wrapVars, envVars
  <2> HIDE DEF d, m
  <2>4. queue[d] \in Seq(Message)
    BY <2>2 DEF VarTypes, DataTypes
  <2>5. \A x : In(x, Append(queue[d], m)) => x = m \/ In(x, queue[d])
    BY <2>2, <2>4, AppendMove
  <2>6. QueuesBorn'
    BY <1>1, <1>2, <2>2, <2>3, <2>5 DEF ObjectsBorn, QueuesBorn, VarTypes, DataTypes
  <2>7. Fresh'
    BY <1>1, <1>2, <2>2, <2>3 DEF ObjectsBorn, Fresh, VarTypes, DataTypes
  <2> QED BY <1>1, <1>2, <2>3, <2>6, <2>7 DEF OnlyBorn, ObjectsBorn, Twinned, PointersBorn
<1>6. CASE PumpMessage(t) \/ PumpClose(t)
  <2>1. Top(t).wrap \in Wraps
    BY <1>6, TopType DEF PumpMessage, PumpClose, At, PumpFrame
  <2>2. /\ data[Top(t).wrap] \in Datas /\ queue[data[Top(t).wrap]] # << >>
        /\ UNCHANGED <<sibling, group, born, members, envData>>
    BY <1>6, <2>1 DEF PumpMessage, PumpClose, PumpHas, VarTypes, WrapTypes, envVars
  <2>3. CASE PumpMessage(t)
    <3>1. \E r \in BOOLEAN : TakeMessage(t, data[Top(t).wrap], r)
      BY <2>3, ConstantsAssumption DEF PumpMessage
    <3> QED BY <1>1, <1>2, <2>2, <3>1, TakeMessageBorn DEF OnlyBorn
  <2>4. CASE PumpClose(t)
    <3>1. TakeClose(Top(t).wrap) /\ UNCHANGED <<closed, data>>
      BY <2>4 DEF PumpClose
    <3> QED BY <1>1, <1>2, <2>1, <2>2, <3>1, TakeCloseBorn DEF OnlyBorn
  <2> QED BY <1>6, <2>3, <2>4
<1>7. CASE CloseUnlinkPeer(t)
  <2>1. \A d \in Datas : sibling'[d] \in {sibling[d], None}
    BY <1>7 DEF CloseUnlinkPeer, Unlinked, VarTypes, DataTypes
  <2>2. UNCHANGED <<queue, closed, group, members, data, envData>>
    BY <1>7 DEF CloseUnlinkPeer, wrapVars, envVars
  <2>3. PointersBorn'
    BY <1>1, <1>2, <2>1, <2>2 DEF ObjectsBorn, PointersBorn
  <2> QED BY <1>1, <1>2, <2>2, <2>3 DEF OnlyBorn, ObjectsBorn, Twinned, Fresh, QueuesBorn
<1>8. CASE CloseFinish(t)
  <2>1. Top(t).wrap \in Wraps
    BY <1>8, TopType DEF CloseFinish, At, CloseFrame
  <2>2. Delete(Top(t).wrap) \/ UNCHANGED <<queue, data>>
    BY <1>8 DEF CloseFinish
  <2>3. UNCHANGED <<closed, sibling, group, born, members, envData>>
    BY <1>8 DEF CloseFinish, envVars
  <2> QED BY <1>1, <1>2, <2>1, <2>2, <2>3, DeleteBorn DEF OnlyBorn
<1>9. CASE JoinGroup(t)
  <2>1. stack[t] # << >> /\ Top(t) \in JoinFrame /\ Top(t).op = "join"
    BY <1>9, TopType DEF JoinGroup, At
  <2>2. Top(t).own \in born \ Ends
    BY <1>2, <2>1, FramesMove DEF FramesBorn, Refers
  <2>3. /\ \A g \in Groups : members'[g] \subseteq members[g] \cup {Top(t).own}
        /\ UNCHANGED <<queue, closed, sibling, group, data, envData>>
    BY <1>9 DEF JoinGroup, wrapVars, envVars, VarTypes, DataTypes
  <2>4. PointersBorn'
    BY <1>1, <1>2, <2>2, <2>3 DEF ObjectsBorn, PointersBorn
  <2> QED BY <1>1, <1>2, <2>3, <2>4 DEF OnlyBorn, ObjectsBorn, Twinned, Fresh, QueuesBorn
<1>10. CASE CloseLeave(t)
  <2>1. /\ \A g \in Groups : members'[g] \subseteq members[g]
        /\ UNCHANGED <<queue, closed, sibling, group, data, envData>>
    BY <1>10 DEF CloseLeave, wrapVars, envVars, VarTypes, DataTypes
  <2>2. PointersBorn'
    BY <1>1, <1>2, <2>1 DEF ObjectsBorn, PointersBorn
  <2> QED BY <1>1, <1>2, <2>1, <2>2 DEF OnlyBorn, ObjectsBorn, Twinned, Fresh, QueuesBorn
<1>11. CASE CloseDisentangle(t)
  <2>1. stack[t] # << >> /\ Top(t) \in CloseFrame /\ Top(t).op = "close" /\ Top(t).own # None
    BY <1>11, TopType DEF CloseDisentangle, At
  <2>2. Top(t).own \in born
    BY <1>2, <2>1, FramesMove DEF FramesBorn, Refers
  <2>3. /\ \A d \in Datas : sibling'[d] \in {sibling[d], None}
        /\ \A d \in Datas : d # Top(t).own => closed'[d] = closed[d]
        /\ UNCHANGED <<queue, group, members, data, envData>>
    BY <1>11 DEF CloseDisentangle, wrapVars, envVars, VarTypes, DataTypes
  <2>4. PointersBorn'
    BY <1>1, <1>2, <2>3 DEF ObjectsBorn, PointersBorn
  <2>5. Fresh'
    BY <1>1, <1>2, <2>2, <2>3 DEF ObjectsBorn, Fresh
  <2> QED BY <1>1, <1>2, <2>3, <2>4, <2>5 DEF OnlyBorn, ObjectsBorn, Twinned, QueuesBorn
<1> QED BY <1>3, <1>4, <1>5, <1>6, <1>7, <1>8, <1>9, <1>10, <1>11 DEF Proceed

\* Callbacks of the event loop and garbage collection keep OnlyBorn.
LEMMA EventBorn ==
  ASSUME OnlyBorn, VarTypes, StackType, NEW t \in Threads, NEW w \in Wraps,
         AsyncCallback(t, w) \/ CloseCallback(t, w) \/ Finalize(t, w)
  PROVE  OnlyBorn'
<1>0. ObjectsBorn /\ FramesBorn
  BY DEF OnlyBorn
<1>1. CASE AsyncCallback(t, w)
  <2>1. PICK f : Push(t, f) /\ f.op = "pump"
    BY <1>1 DEF AsyncCallback, Pump
  <2>2. Steady
    BY <1>1 DEF AsyncCallback, Steady, dataVars, envVars
  <2>3. FramesBorn'
    BY <1>0, <2>1, <2>2, FramesStep DEF Refers, Steady
  <2> QED BY <1>0, <2>2, <2>3, SteadyBorn DEF OnlyBorn
<1>2. CASE CloseCallback(t, w)
  <2> DEFINE d == data[w]
             g == IF d = None THEN None ELSE group[d]
             c == IF d = None THEN "onclose" ELSE IF g = None THEN "disentangle" ELSE "leave"
             f == [op |-> "close", wrap |-> w, own |-> d, group |-> g, peer |-> None, pc |-> c]
  <2>1. d \in born \cup {None} /\ d \in Datas \cup {None}
    BY <1>0 DEF ObjectsBorn, PointersBorn, VarTypes, WrapTypes
  <2>2. c = "leave" => d \in born \ Ends
    BY <1>0, <2>1 DEF ObjectsBorn, PointersBorn
  <2>3. /\ Push(t, f)
        /\ UNCHANGED <<queue, closed, sibling, born, members, data, envData>>
        /\ \A e \in Datas : group'[e] \in {group[e], None}
    BY <1>2, <2>1 DEF CloseCallback, envVars, VarTypes, DataTypes
  <2> HIDE DEF c, g, d
  <2>4. Refers(f, born)
    BY <2>1, <2>2 DEF Refers
  <2> HIDE DEF f
  <2>5. FramesBorn'
    BY <1>0, <2>3, <2>4, FramesStep
  <2>6. Fresh'
    BY <1>0, <2>3 DEF ObjectsBorn, Fresh
  <2>7. PointersBorn'
    BY <1>0, <2>3 DEF ObjectsBorn, PointersBorn
  <2> QED BY <1>0, <2>3, <2>5, <2>6, <2>7 DEF OnlyBorn, ObjectsBorn, Twinned, QueuesBorn
<1>3. CASE Finalize(t, w)
  <2>1. Delete(w) /\ UNCHANGED <<closed, sibling, group, born, members, envData, stack>>
    BY <1>3 DEF Finalize, envVars
  <2>2. FramesBorn'
    BY <1>0, <2>1 DEF FramesBorn, Frames
  <2> QED BY <1>0, <2>1, <2>2, DeleteBorn DEF OnlyBorn
<1> QED BY <1>1, <1>2, <1>3

\* Nothing refers to a MessagePortData that has not been constructed.
LEMMA BornHeld == Spec => []OnlyBorn
<1>1. Init => OnlyBorn
  <2> SUFFICES ASSUME Init PROVE OnlyBorn
    OBVIOUS
  <2>1. Frames = {}
    BY DEF Init, Frames
  <2>2. \A m : ~In(m, << >>)
    BY DEF In
  <2>3. \A d \in Datas : Twin[d] \in Datas
    BY ConstantsAssumption
  <2> QED BY <2>1, <2>2, <2>3 DEF Init, OnlyBorn, ObjectsBorn, Twinned, Fresh, PointersBorn,
          QueuesBorn, FramesBorn
<1>2. TypeOK /\ OnlyBorn /\ [Next]_vars => OnlyBorn'
  <2> SUFFICES ASSUME TypeOK, OnlyBorn, [Next]_vars PROVE OnlyBorn'
    OBVIOUS
  <2>1. VarTypes /\ StackType
    BY TypeParts
  <2>2. CASE UNCHANGED vars
    BY <2>2 DEF OnlyBorn, ObjectsBorn, Twinned, Fresh, PointersBorn, QueuesBorn, FramesBorn,
       Frames, vars, dataVars, wrapVars, envVars
  <2>3. ASSUME NEW t \in Threads, EnvCleanup(t)
        PROVE  OnlyBorn'
    <3>1. Steady /\ UNCHANGED stack
      BY <2>3 DEF EnvCleanup, Steady, dataVars
    <3> QED BY <3>1, SteadyBorn DEF OnlyBorn, FramesBorn, Frames, Steady
  <2> QED BY <2>1, <2>2, <2>3, ScriptBorn, ProceedBorn, EventBorn DEF Next
<1> QED BY <1>1, <1>2, TypeCorrect, PTL DEF Spec


(***************************************************************************)
(* GroupIsOpenPorts                                                        *)
(***************************************************************************)

\* The frames between two critical sections of a port that joins a group,
\* leaves it or closes.
Joining(x) == x.op = "join"
Leaving(x) == x.op = "close" /\ x.pc = "leave"
Left(x)    == x.op = "close" /\ x.pc = "disentangle"
Turns(x)   == Joining(x) \/ Leaving(x) \/ Left(x)

\* What a Data and a group say of each other: a closed Data is in no group; a
\* Data that is listed names the group, or is leaving it; one that names a
\* group is listed, or is joining.
Listed ==
  /\ \A d \in Datas : closed[d] => group[d] = None /\ \A g \in Groups : d \notin members[g]
  /\ \A g \in Groups : \A d \in members[g] : group[d] = g \/ Leaves(d, g)
  /\ \A d \in Datas : group[d] # None => d \in members[group[d]] \/ Joins(d, group[d])

\* What the frames in between know: who joins names its group, who leaves or
\* has left names none; who has left is not listed; a Data leaves one group.
Turning ==
  /\ \A x \in Frames : Joining(x) => group[x.own] = x.group
  /\ \A x \in Frames : Leaving(x) \/ Left(x) => x.own # None /\ group[x.own] = None
  /\ \A x \in Frames : Left(x) => \A g \in Groups : x.own \notin members[g]
  /\ \A x, y \in Frames : Leaving(x) /\ Leaving(y) /\ x.own = y.own => x.group = y.group

\* Broadcast ports join and leave, each on its own thread.
Alone(d) == d \notin Ends \cup {None}
Placed == \A t \in Threads : \A x : In(x, stack[t]) /\ (Joining(x) \/ Leaving(x)) =>
  Alone(x.own) /\ \A w \in Wraps : data[w] = x.own => thread[w] = t

\* The Data of a broadcast channel has one port, and a group while it is open.
Lone ==
  /\ \A v, w \in Wraps : data[v] = data[w] /\ Alone(data[v]) => v = w
  /\ \A w \in Wraps : state[w] \in {"Initialized", "Closing"} /\ Alone(data[w]) =>
       group[data[w]] # None

GroupInv == Listed /\ Turning /\ Placed /\ Lone

\* The elements of the stack that moves; the other stacks stay.
LEMMA InMove ==
  ASSUME StackType, NEW t \in Threads, NEW f, NEW g, NEW r, NEW u \in Threads, NEW x
  PROVE  /\ stack' = [stack EXCEPT ![t] = r] => stack'[u] = IF u = t THEN r ELSE stack[u]
         /\ Push(t, f) => (In(x, stack'[u]) <=> (u = t /\ x = f) \/ In(x, stack[u]))
         /\ stack[t] # << >> =>
              /\ In(Top(t), stack[t])
              /\ Return(t) \/ Continue(t, f) \/ Call(t, f, g) =>
                   (In(x, stack[u]) => (u = t /\ x = Top(t)) \/ In(x, stack'[u]))
              /\ Return(t) => (In(x, stack'[u]) => In(x, stack[u]))
              /\ Continue(t, f) => (In(x, stack'[u]) => (u = t /\ x = f) \/ In(x, stack[u]))
              /\ Call(t, f, g) =>
                   (In(x, stack'[u]) => (u = t /\ x \in {f, g}) \/ In(x, stack[u]))
<1> DEFINE S == Frame \cup {f, g}
           s == stack[t]
           p == Pop(s)
<1>1. s \in Seq(S) /\ f \in S /\ g \in S
  <2>1. s \in Seq(Frame)
    BY DEF StackType
  <2> HIDE DEF s
  <2> QED BY <2>1
<1> HIDE DEF S
<1>2. \A q : [stack EXCEPT ![t] = q][u] = IF u = t THEN q ELSE stack[u]
  BY DEF StackType
<1>3. In(x, Append(s, f)) <=> x = f \/ In(x, s)
  <2> HIDE DEF s
  <2> QED BY <1>1, AppendMove
<1>4. s # << >> => /\ p \in Seq(S) /\ Top(t) = s[Len(s)] /\ In(s[Len(s)], s)
                   /\ In(x, s) => x = s[Len(s)] \/ In(x, p)
                   /\ In(x, p) => In(x, s)
  <2>1. Top(t) = s[Len(s)]
    BY DEF Top
  <2> HIDE DEF s
  <2>2. s # << >> => /\ p \in Seq(S) /\ Len(s) \in DOMAIN s
                     /\ In(x, s) => x = s[Len(s)] \/ In(x, p)
                     /\ In(x, p) => In(x, s)
    BY <1>1, PopMove
  <2> HIDE DEF p
  <2> QED BY <2>1, <2>2 DEF In
<1>5. s # << >> => /\ In(x, Append(p, f)) <=> x = f \/ In(x, p)
                   /\ In(x, Append(Append(p, f), g)) <=> x = f \/ x = g \/ In(x, p)
  <2> HIDE DEF p
  <2> QED BY <1>1, <1>4, AppendMove, AppendTwo
<1>6. /\ Push(t, f) <=> stack' = [stack EXCEPT ![t] = Append(s, f)]
      /\ Return(t) <=> stack' = [stack EXCEPT ![t] = p]
      /\ Continue(t, f) <=> stack' = [stack EXCEPT ![t] = Append(p, f)]
      /\ Call(t, f, g) <=> stack' = [stack EXCEPT ![t] = Append(Append(p, f), g)]
  BY DEF Push, Return, Continue, Call, Goto
<1> DEFINE Moved(q) == stack' = [stack EXCEPT ![t] = q]
<1>7. \A q : Moved(q) => stack'[u] = IF u = t THEN q ELSE stack[u]
  BY <1>2
<1>8. /\ Push(t, f) <=> Moved(Append(s, f))
      /\ Return(t) <=> Moved(p)
      /\ Continue(t, f) <=> Moved(Append(p, f))
      /\ Call(t, f, g) <=> Moved(Append(Append(p, f), g))
      /\ stack' = [stack EXCEPT ![t] = r] <=> Moved(r)
  BY <1>6
<1>9. u = t => stack[u] = s
  OBVIOUS
<1>10. CASE u = t
  <2> HIDE DEF s, p, Moved
  <2> QED BY <1>3, <1>4, <1>5, <1>7, <1>8, <1>9, <1>10 DEF s
<1>11. CASE u # t
  <2>1. \A q : Moved(q) => stack'[u] = stack[u]
    BY <1>7, <1>11
  <2> HIDE DEF p, Moved
  <2> QED BY <1>4, <1>7, <1>8, <1>11, <2>1
<1> QED BY <1>10, <1>11

\* A call adds its frame, a return takes the running one away, one that goes
\* on is replaced: the elements of every stack, and the frames.
LEMMA PushMove ==
  ASSUME StackType, NEW t \in Threads, NEW f, Push(t, f)
  PROVE  /\ \A u \in Threads : \A x : In(x, stack'[u]) <=> (u = t /\ x = f) \/ In(x, stack[u])
         /\ \A x : x \in Frames' <=> x = f \/ x \in Frames
<1>1. \A u \in Threads : \A x : In(x, stack'[u]) <=> (u = t /\ x = f) \/ In(x, stack[u])
  <2> SUFFICES ASSUME NEW u \in Threads, NEW x
               PROVE  In(x, stack'[u]) <=> (u = t /\ x = f) \/ In(x, stack[u])
    OBVIOUS
  <2> QED BY InMove
<1> QED BY <1>1, OnFrames
LEMMA ReturnMove ==
  ASSUME StackType, NEW t \in Threads, stack[t] # << >>, Return(t)
  PROVE  /\ In(Top(t), stack[t]) /\ Top(t) \in Frames
         /\ \A u \in Threads : \A x :
              /\ In(x, stack'[u]) => In(x, stack[u])
              /\ In(x, stack[u]) => (u = t /\ x = Top(t)) \/ In(x, stack'[u])
         /\ \A x : /\ x \in Frames' => x \in Frames
                   /\ x \in Frames => x = Top(t) \/ x \in Frames'
<1>1. \A u \in Threads : \A x :
        /\ In(x, stack'[u]) => In(x, stack[u])
        /\ In(x, stack[u]) => (u = t /\ x = Top(t)) \/ In(x, stack'[u])
  <2> SUFFICES ASSUME NEW u \in Threads, NEW x
               PROVE  /\ In(x, stack'[u]) => In(x, stack[u])
                      /\ In(x, stack[u]) => (u = t /\ x = Top(t)) \/ In(x, stack'[u])
    OBVIOUS
  <2> QED BY InMove
<1>2. In(Top(t), stack[t])
  BY InMove
<1> QED BY <1>1, <1>2, OnFrames
LEMMA ContinueMove ==
  ASSUME StackType, NEW t \in Threads, stack[t] # << >>, NEW f, Continue(t, f)
  PROVE  /\ In(Top(t), stack[t]) /\ Top(t) \in Frames
         /\ \A u \in Threads : \A x :
              /\ In(x, stack'[u]) => (u = t /\ x = f) \/ In(x, stack[u])
              /\ In(x, stack[u]) => (u = t /\ x = Top(t)) \/ In(x, stack'[u])
         /\ \A x : /\ x \in Frames' => x = f \/ x \in Frames
                   /\ x \in Frames => x = Top(t) \/ x \in Frames'
<1>1. \A u \in Threads : \A x :
        /\ In(x, stack'[u]) => (u = t /\ x = f) \/ In(x, stack[u])
        /\ In(x, stack[u]) => (u = t /\ x = Top(t)) \/ In(x, stack'[u])
  <2> SUFFICES ASSUME NEW u \in Threads, NEW x
               PROVE  /\ In(x, stack'[u]) => (u = t /\ x = f) \/ In(x, stack[u])
                      /\ In(x, stack[u]) => (u = t /\ x = Top(t)) \/ In(x, stack'[u])
    OBVIOUS
  <2> QED BY InMove
<1>2. In(Top(t), stack[t])
  BY InMove
<1> QED BY <1>1, <1>2, OnFrames

\* The frames of Turns stay when a step neither pushes nor pops one of them.
SameTurns == \A u \in Threads : \A x : Turns(x) => (In(x, stack'[u]) <=> In(x, stack[u]))
LEMMA TurnsMove ==
  ASSUME StackType, NEW t \in Threads, NEW f, NEW g, ~Turns(f), ~Turns(g),
         \/ UNCHANGED stack
         \/ Push(t, f)
         \/ /\ stack[t] # << >> /\ ~Turns(Top(t))
            /\ Return(t) \/ Continue(t, f) \/ Call(t, f, g)
  PROVE  SameTurns
<1> SUFFICES ASSUME NEW u \in Threads, NEW x, Turns(x)
             PROVE  In(x, stack'[u]) <=> In(x, stack[u])
  BY DEF SameTurns
<1>1. x # f /\ x # g /\ (stack[t] # << >> /\ ~Turns(Top(t)) => x # Top(t))
  OBVIOUS
<1> QED BY <1>1, InMove

\* No broadcast port is made, moved or opened.
SameLone == \A w \in Wraps :
  \/ ~Alone(data'[w])
  \/ /\ data'[w] = data[w] /\ thread'[w] = thread[w]
     /\ state'[w] \in {"Initialized", "Closing"} => state[w] \in {"Initialized", "Closing"}

\* A step that leaves groups and broadcast ports alone and closes nothing.
LEMMA GroupQuiet ==
  ASSUME GroupInv, UNCHANGED <<group, members>>, \A d \in Datas : closed'[d] => closed[d],
         SameTurns, SameLone
  PROVE  GroupInv'
<1>1. \A x : Turns(x) => (x \in Frames' <=> x \in Frames)
  BY OnFrames DEF SameTurns
<1>2. \A d, g : (Joins(d, g)' <=> Joins(d, g)) /\ (Leaves(d, g)' <=> Leaves(d, g))
  BY <1>1 DEF Joins, Leaves, Turns, Joining, Leaving
<1>3. Listed'
  BY <1>2 DEF GroupInv, Listed
<1>4. Turning'
  BY <1>1 DEF GroupInv, Turning, Turns
<1>5. Lone'
  BY DEF GroupInv, Lone, SameLone
<1>6. Placed'
  <2> SUFFICES ASSUME NEW t \in Threads, NEW x, In(x, stack'[t]), Joining(x) \/ Leaving(x)
               PROVE  /\ Alone(x.own)
                      /\ \A w \in Wraps : data'[w] = x.own => thread'[w] = t
    BY DEF Placed
  <2>1. In(x, stack[t])
    BY DEF SameTurns, Turns
  <2>2. Alone(x.own) /\ \A w \in Wraps : data[w] = x.own => thread[w] = t
    BY <2>1 DEF GroupInv, Placed
  <2> QED BY <2>2 DEF SameLone
<1> QED BY <1>3, <1>4, <1>5, <1>6 DEF GroupInv

\* A received port is an end of a channel: no broadcast port is touched.
LEMMA ReceiveLone ==
  ASSUME VarTypes, NEW t \in Threads, NEW w \in Wraps, NEW p \in Datas \cap Ends,
         ReceivePort(t, w, p)
  PROVE  SameLone /\ \A e \in Datas : closed'[e] => closed[e]
<1>1. \A e \in Datas : closed'[e] => closed[e]
  BY DEF ReceivePort, VarTypes, DataTypes
<1>2. data'[w] = p /\ ~Alone(p)
  BY DEF ReceivePort, Alone, VarTypes, WrapTypes
<1>3. \A v \in Wraps \ {w} : data'[v] = data[v] /\ thread'[v] = thread[v] /\ state'[v] = state[v]
  BY DEF ReceivePort, VarTypes, WrapTypes
<1> QED BY <1>1, <1>2, <1>3 DEF SameLone
LEMMA TakeMessageLone ==
  ASSUME OnlyBorn, VarTypes, NEW t \in Threads, NEW d \in Datas, queue[d] # << >>,
         NEW r \in BOOLEAN, TakeMessage(t, d, r)
  PROVE  SameLone /\ \A e \in Datas : closed'[e] => closed[e]
<1>1. Head(queue[d]) \in Message /\ In(Head(queue[d]), queue[d])
  BY TailMove DEF VarTypes, DataTypes
<1>2. Head(queue[d]).port \in (Datas \cap Ends) \cup {None}
  BY <1>1 DEF OnlyBorn, ObjectsBorn, QueuesBorn, Ends
<1>3. CASE \E w \in Wraps : ReceivePort(t, w, Head(queue[d]).port) /\ Head(queue[d]).port # None
  BY <1>2, <1>3, ReceiveLone
<1>4. CASE UNCHANGED <<thread, data, closed, state>>
  BY <1>4 DEF SameLone
<1> QED BY <1>3, <1>4 DEF TakeMessage

\* A wrap that begins to close is still open.
LEMMA BeginCloseLone ==
  ASSUME VarTypes, NEW w, UNCHANGED <<data, thread>>,
         state' = state \/ state' = BeginClosePort(w)
  PROVE  SameLone
BY DEF SameLone, BeginClosePort, VarTypes, WrapTypes

\* Calls from JavaScript keep GroupInv,
LEMMA ScriptGroup ==
  ASSUME GroupInv, OnlyBorn, VarTypes, StackType, NEW t \in Threads, Script(t)
  PROVE  GroupInv'
<1>0. ASSUME UNCHANGED stack PROVE SameTurns
  BY <1>0 DEF SameTurns
<1>1. CASE \E w \in Wraps, d \in Datas, g \in Groups : BroadcastChannel(t, w, d, g)
  <2>1. PICK w \in Wraps, d \in Datas, g \in Groups : BroadcastChannel(t, w, d, g)
    BY <1>1
  <2> DEFINE f == [op |-> "join", pc |-> "list", wrap |-> w, own |-> d, group |-> g]
  <2>2. /\ Push(t, f) /\ d \notin born /\ Twin[d] = d /\ UNCHANGED <<members, closed>>
        /\ group'[d] = g /\ \A e \in Datas \ {d} : group'[e] = group[e]
        /\ data'[w] = d /\ thread'[w] = t
        /\ \A v \in Wraps \ {w} : data'[v] = data[v] /\ thread'[v] = thread[v] /\ state'[v] = state[v]
    BY <2>1 DEF BroadcastChannel, NewData, VarTypes, DataTypes, WrapTypes
  <2>3. g # None /\ d # None /\ Alone(d)
    BY <2>2, ConstantsAssumption DEF Alone, Ends
  <2>4. /\ ~closed[d] /\ \A h \in Groups : d \notin members[h]
        /\ \A v \in Wraps : data[v] # d
    BY <2>2, <2>3 DEF OnlyBorn, ObjectsBorn, Fresh, PointersBorn
  <2>5. \A x \in Frames : Turns(x) => x.own # d
    BY <2>2, <2>3 DEF OnlyBorn, FramesBorn, Refers, Turns, Joining, Leaving, Left
  <2>6. /\ Joining(f) /\ ~Leaving(f) /\ ~Left(f) /\ f.own = d /\ f.group = g
    BY DEF Joining, Leaving, Left
  <2>7. /\ \A u \in Threads : \A x : In(x, stack'[u]) <=> (u = t /\ x = f) \/ In(x, stack[u])
        /\ \A x : x \in Frames' <=> x = f \/ x \in Frames
    <3> HIDE DEF f
    <3> QED BY <2>2, PushMove
  <2> HIDE DEF f
  <2>8. Listed'
    <3>1. \A e \in Datas : closed'[e] => group'[e] = None /\ \A h \in Groups : e \notin members'[h]
      BY <2>2, <2>4 DEF GroupInv, Listed
    <3>2. \A h \in Groups : \A e \in members'[h] :
            group'[e] = h \/ \E x \in Frames' : Leaving(x) /\ x.own = e /\ x.group = h
      <4> SUFFICES ASSUME NEW h \in Groups, NEW e \in members[h]
                   PROVE  group'[e] = h \/ \E x \in Frames' : Leaving(x) /\ x.own = e /\ x.group = h
        BY <2>2
      <4>1. e \in Datas \ {d}
        BY <2>4 DEF VarTypes, DataTypes
      <4> QED BY <2>2, <2>7, <4>1 DEF GroupInv, Listed, Leaves, Leaving
    <3>3. \A e \in Datas : group'[e] # None =>
            \/ e \in members'[group'[e]]
            \/ \E x \in Frames' : Joining(x) /\ x.own = e /\ x.group = group'[e]
      <4> SUFFICES ASSUME NEW e \in Datas, group'[e] # None
                   PROVE  \/ e \in members'[group'[e]]
                          \/ \E x \in Frames' : Joining(x) /\ x.own = e /\ x.group = group'[e]
        OBVIOUS
      <4>1. CASE e = d
        BY <2>2, <2>6, <2>7, <4>1
      <4>2. CASE e # d
        BY <2>2, <2>7, <4>2 DEF GroupInv, Listed, Joins, Joining
      <4> QED BY <4>1, <4>2
    <3> QED BY <3>1, <3>2, <3>3 DEF Listed, Leaves, Joins, Leaving, Joining
  <2>9. Turning'
    <3>1. \A x \in Frames : Turns(x) => group'[x.own] = group[x.own]
      <4> SUFFICES ASSUME NEW x \in Frames, Turns(x) PROVE group'[x.own] = group[x.own]
        OBVIOUS
      <4>1. x.own \in Datas \/ x.own = None
        BY DEF OnlyBorn, FramesBorn, Refers, Turns, Joining, Leaving, Left, VarTypes, DataTypes
      <4>2. x.own # None
        BY ConstantsAssumption DEF OnlyBorn, FramesBorn, Refers, Turns, Joining, Leaving, Left,
           GroupInv, Turning, VarTypes, DataTypes
      <4> QED BY <2>2, <2>5, <4>1, <4>2
    <3> QED BY <2>2, <2>6, <2>7, <3>1 DEF GroupInv, Turning, Turns
  <2>10. Placed'
    <3> SUFFICES ASSUME NEW u \in Threads, NEW x, In(x, stack'[u]), Joining(x) \/ Leaving(x)
                 PROVE  Alone(x.own) /\ \A v \in Wraps : data'[v] = x.own => thread'[v] = u
      BY DEF Placed
    <3>1. CASE u = t /\ x = f
      BY <2>2, <2>3, <2>4, <2>6, <3>1
    <3>2. CASE In(x, stack[u])
      <4>1. x.own # d
        BY <2>5, <3>2, OnFrames DEF Turns
      <4> QED BY <2>2, <3>2, <4>1 DEF GroupInv, Placed
    <3> QED BY <2>7, <3>1, <3>2
  <2>11. Lone'
    <3>1. \A v, z \in Wraps : data'[v] = data'[z] /\ Alone(data'[v]) => v = z
      BY <2>2, <2>4 DEF GroupInv, Lone
    <3>2. \A v \in Wraps : state'[v] \in {"Initialized", "Closing"} /\ Alone(data'[v]) =>
            group'[data'[v]] # None
      <4> SUFFICES ASSUME NEW v \in Wraps, state'[v] \in {"Initialized", "Closing"},
                          Alone(data'[v])
                   PROVE  group'[data'[v]] # None
        OBVIOUS
      <4>1. CASE v = w
        BY <2>2, <2>3, <4>1
      <4>2. CASE v # w
        <5>1. data[v] \in Datas \ {d} /\ data'[v] = data[v] /\ state'[v] = state[v]
          BY <2>2, <2>4, <4>2 DEF Alone, VarTypes, WrapTypes
        <5> QED BY <2>2, <5>1 DEF GroupInv, Lone
      <4> QED BY <4>1, <4>2
    <3> QED BY <3>1, <3>2 DEF Lone
  <2> QED BY <2>8, <2>9, <2>10, <2>11 DEF GroupInv
<1>2. CASE \E w \in Wraps : GetEnvMessagePort(t, w)
  <2>1. PICK w \in Wraps : GetEnvMessagePort(t, w)
    BY <1>2
  <2>2. envData[t] \in Datas \cap Ends
    BY <2>1 DEF GetEnvMessagePort, OnlyBorn, ObjectsBorn, PointersBorn, Ends
  <2>3. ReceivePort(t, w, envData[t]) /\ UNCHANGED <<group, members, stack>>
    BY <2>1 DEF GetEnvMessagePort
  <2> QED BY <1>0, <2>2, <2>3, ReceiveLone, GroupQuiet
<1>3. CASE \E w \in Wraps : ReceiveMessageOnPort(t, w)
  <2>1. PICK w \in Wraps : ReceiveMessageOnPort(t, w)
    BY <1>3
  <2>2. /\ data[w] \in Datas /\ queue[data[w]] # << >> /\ UNCHANGED <<group, members, stack>>
    BY <2>1 DEF ReceiveMessageOnPort, VarTypes, WrapTypes
  <2>3. CASE \E r \in BOOLEAN : TakeMessage(t, data[w], r)
    BY <1>0, <2>2, <2>3, TakeMessageLone, GroupQuiet
  <2>4. CASE TakeClose(w) /\ UNCHANGED <<thread, data, attached, closed, async>>
    <3>1. SameLone
      BY <2>4, BeginCloseLone DEF TakeClose
    <3> QED BY <1>0, <2>2, <2>4, <3>1, GroupQuiet
  <2> QED BY <2>1, <2>3, <2>4 DEF ReceiveMessageOnPort
<1>4. CASE \E v, w \in Wraps, d \in Datas : MessageChannel(t, v, w, d)
  <2>1. PICK v \in Wraps, w \in Wraps, d \in Datas : MessageChannel(t, v, w, d)
    BY <1>4
  <2>2. ~Alone(d) /\ ~Alone(Twin[d]) /\ UNCHANGED <<group, members, closed, stack>>
    BY <2>1, ConstantsAssumption DEF MessageChannel, Alone, Ends
  <2>3. SameLone
    BY <2>1, <2>2 DEF MessageChannel, SameLone, VarTypes, WrapTypes
  <2> QED BY <1>0, <2>2, <2>3, GroupQuiet
<1>5. CASE \E w \in Wraps, u \in Threads, d \in Datas : StartWorker(t, u, w, d)
  <2>1. PICK w \in Wraps, u \in Threads, d \in Datas : StartWorker(t, u, w, d)
    BY <1>5
  <2>2. ~Alone(d) /\ UNCHANGED <<group, members, closed, stack>>
    BY <2>1, ConstantsAssumption DEF StartWorker, Alone, Ends
  <2>3. SameLone
    BY <2>1, <2>2 DEF StartWorker, SameLone, VarTypes, WrapTypes
  <2> QED BY <1>0, <2>2, <2>3, GroupQuiet
<1>6. CASE \/ \E w \in Wraps, x \in Wraps \cup {None} : PostMessage(t, w, x)
           \/ \E w \in Wraps : DrainMessagePort(t, w) \/ Start(t, w) \/ Stop(t, w) \/ Close(t, w)
  <2>1. UNCHANGED <<group, members, closed, data, thread>>
    BY <1>6 DEF PostMessage, DrainMessagePort, Start, Stop, Close, dataVars, wrapVars
  <2>2. SameLone
    BY <1>6, <2>1, BeginCloseLone DEF PostMessage, DrainMessagePort, Start, Stop, Close, wrapVars
  <2>3. UNCHANGED stack \/ \E f : Push(t, f) /\ f.op \in {"post", "pump"}
    <3>1. CASE \E w \in Wraps, x \in Wraps \cup {None} : PostMessage(t, w, x)
      <4>1. PICK w \in Wraps, x \in Wraps \cup {None} : PostMessage(t, w, x)
        BY <3>1
      <4> DEFINE f == [op |-> "post", pc |-> "clone", wrap |-> w, xwrap |-> x,
                       xdata |-> IF x = None THEN None ELSE data[x],
                       targets |-> {}, lost |-> FALSE]
      <4>2. Push(t, f) /\ f.op = "post"
        BY <4>1 DEF PostMessage
      <4> QED BY <4>2
    <3>2. CASE \E w \in Wraps : DrainMessagePort(t, w)
      BY <3>2 DEF DrainMessagePort, Pump
    <3>3. CASE \E w \in Wraps : Start(t, w) \/ Stop(t, w) \/ Close(t, w)
      BY <3>3 DEF Start, Stop, Close
    <3> QED BY <1>6, <3>1, <3>2, <3>3
  <2>4. SameTurns
    <3>1. CASE \E f : Push(t, f) /\ f.op \in {"post", "pump"}
      <4>1. PICK f : Push(t, f) /\ f.op \in {"post", "pump"}
        BY <3>1
      <4> QED BY <4>1, TurnsMove DEF Turns, Joining, Leaving, Left
    <3> QED BY <1>0, <2>3, <3>1
  <2> QED BY <2>1, <2>2, <2>4, GroupQuiet
<1> QED BY <1>1, <1>2, <1>3, <1>4, <1>5, <1>6 DEF Script

\* The running frame of a post, a message on its way or a pump is replaced by
\* frames of these kinds,
LEMMA PlainTurns ==
  ASSUME StackType, NEW t \in Threads,
         \/ PostCloneFails(t) \/ PostOnClosed(t) \/ PostToPeer(t) \/ PostToGroup(t)
         \/ PostDetach(t) \/ PostLost(t) \/ PostMore(t)
         \/ EnqueuePush(t) \/ TriggerReadAttached(t) \/ TriggerCheck(t) \/ TriggerSend(t)
         \/ PumpMessage(t) \/ PumpReturn(t) \/ PumpClose(t) \/ PumpEnd(t)
  PROVE  SameTurns
<1> DEFINE Plain(f) == f.op \in {"post", "enqueue", "pump"}
           Goes == \/ Return(t)
                   \/ \E f : Continue(t, f) /\ Plain(f)
                   \/ \E f, g : Call(t, f, g) /\ Plain(f) /\ Plain(g)
<1>1. stack[t] # << >> /\ Top(t) \in PostFrame \cup EnqueueFrame \cup PumpFrame
  BY TopType DEF PostCloneFails, PostOnClosed, PostToPeer, PostToGroup, PostDetach, PostLost,
     PostMore, EnqueuePush, TriggerReadAttached, TriggerCheck, TriggerSend, PumpMessage,
     PumpReturn, PumpClose, PumpEnd, At
<1>2. Plain(Top(t))
  BY <1>1 DEF PostFrame, EnqueueFrame, PumpFrame
<1>3. \A d, m : Plain(Enqueue(d, m))
  BY DEF Enqueue
<1>4. PostNext(t, Top(t)) /\ Top(t) \in PostFrame => Goes
  <2> SUFFICES ASSUME PostNext(t, Top(t)), Top(t) \in PostFrame PROVE Goes
    OBVIOUS
  <2>1. PICK d \in Top(t).targets :
          LET call == Enqueue(d, Payload(Top(t).xdata)) IN
            IF Top(t).targets = {d}
            THEN Continue(t, call)
            ELSE Call(t, [Top(t) EXCEPT !.pc = "push", !.targets = @ \ {d}, !.xdata = None], call)
    BY DEF PostNext
  <2> DEFINE f == [Top(t) EXCEPT !.pc = "push", !.targets = @ \ {d}, !.xdata = None]
             g == Enqueue(d, Payload(Top(t).xdata))
  <2>2. Continue(t, g) \/ Call(t, f, g)
    BY <2>1
  <2>3. Plain(f)
    BY DEF PostFrame
  <2> HIDE DEF f, g
  <2> QED BY <1>3, <2>2, <2>3 DEF g
<1>11. Goes => SameTurns
  <2>1. \A f : Plain(f) => ~Turns(f)
    BY DEF Turns, Joining, Leaving, Left
  <2> HIDE DEF Plain
  <2> QED BY <1>1, <1>2, <2>1, TurnsMove
<1> SUFFICES Goes
  BY <1>11
<1>5. CASE \/ PostCloneFails(t) \/ PostOnClosed(t) \/ PostLost(t) \/ TriggerSend(t)
           \/ PumpClose(t) \/ PumpEnd(t)
  BY <1>5 DEF PostCloneFails, PostOnClosed, PostLost, TriggerSend, PumpClose, PumpEnd
<1>6. CASE PostToPeer(t)
  <2> DEFINE peer == Lock(data[Top(t).wrap])
             f == [Top(t) EXCEPT !.pc = "detach",
                     !.targets = IF Top(t).xdata = peer THEN {} ELSE {peer},
                     !.lost = Top(t).xdata = peer]
             g == Enqueue(peer, Payload(None))
  <2>1. Continue(t, g) \/ Continue(t, f)
    BY <1>6 DEF PostToPeer
  <2>2. Top(t) \in PostFrame
    BY <1>6, TopType DEF PostToPeer, At
  <2> HIDE DEF peer
  <2>3. Plain(f)
    BY <2>2 DEF PostFrame
  <2> HIDE DEF f, g
  <2> QED BY <1>3, <2>1, <2>3 DEF g
<1>7. CASE PostToGroup(t)
  <2> DEFINE all == BroadcastTargets(data[Top(t).wrap])
             f == [Top(t) EXCEPT !.pc = "detach", !.targets = all]
  <2>1. Return(t) \/ Continue(t, f)
    BY <1>7 DEF PostToGroup
  <2>2. Top(t) \in PostFrame
    BY <1>7, TopType DEF PostToGroup, At
  <2> HIDE DEF all
  <2>3. Plain(f)
    BY <2>2 DEF PostFrame
  <2> HIDE DEF f
  <2> QED BY <2>1, <2>3
<1>8. CASE PostDetach(t) \/ PostMore(t)
  <2> DEFINE f == [Top(t) EXCEPT !.pc = "warn"]
  <2>1. Top(t) \in PostFrame
    BY <1>8, TopType DEF PostDetach, PostMore, At
  <2>2. Continue(t, f) \/ PostNext(t, Top(t)) \/ Return(t)
    BY <1>8 DEF PostDetach, PostMore
  <2>3. Plain(f)
    BY <2>1 DEF PostFrame
  <2> HIDE DEF f, Goes
  <2>4. Continue(t, f) \/ Return(t) => Goes
    BY <2>3 DEF Goes
  <2> QED BY <1>4, <2>1, <2>2, <2>4 DEF Goes
<1>9. CASE EnqueuePush(t) \/ TriggerReadAttached(t) \/ TriggerCheck(t)
  <2>1. Top(t) \in EnqueueFrame
    BY <1>9, TopType DEF EnqueuePush, TriggerReadAttached, TriggerCheck, At
  <2>2. \A c, w : Plain([Top(t) EXCEPT !.pc = c, !.trig = w]) /\ Plain([Top(t) EXCEPT !.pc = c])
    BY <2>1 DEF EnqueueFrame
  <2>3. CASE EnqueuePush(t)
    BY <2>2, <2>3 DEF EnqueuePush
  <2>4. CASE TriggerReadAttached(t)
    BY <2>2, <2>4 DEF TriggerReadAttached
  <2>5. CASE TriggerCheck(t)
    BY <2>2, <2>5 DEF TriggerCheck
  <2> QED BY <1>9, <2>3, <2>4, <2>5
<1>10. CASE PumpMessage(t) \/ PumpReturn(t)
  <2>1. Top(t) \in PumpFrame
    BY <1>10, TopType DEF PumpMessage, PumpReturn, At
  <2>2. \A c, n : Plain([Top(t) EXCEPT !.pc = c, !.left = n]) /\ Plain([Top(t) EXCEPT !.pc = c])
    BY <2>1 DEF PumpFrame
  <2>3. CASE PumpMessage(t)
    <3> DEFINE f == [Top(t) EXCEPT !.pc = "emit",
                       !.left = IF Top(t).force THEN @ ELSE @ - 1]
    <3>1. Continue(t, f)
      BY <2>3 DEF PumpMessage
    <3>2. Plain(f)
      BY <2>1 DEF PumpFrame
    <3> HIDE DEF f
    <3> QED BY <3>1, <3>2
  <2>4. CASE PumpReturn(t)
    BY <2>2, <2>4 DEF PumpReturn
  <2> QED BY <1>10, <2>3, <2>4
<1> QED BY <1>5, <1>6, <1>7, <1>8, <1>9, <1>10

\* and nothing else changes for broadcast ports.
LEMMA PlainGroup ==
  ASSUME GroupInv, OnlyBorn, VarTypes, StackType, NEW t \in Threads,
         \/ PostCloneFails(t) \/ PostOnClosed(t) \/ PostToPeer(t) \/ PostToGroup(t)
         \/ PostDetach(t) \/ PostLost(t) \/ PostMore(t)
         \/ EnqueuePush(t) \/ TriggerReadAttached(t) \/ TriggerCheck(t) \/ TriggerSend(t)
         \/ PumpMessage(t) \/ PumpReturn(t) \/ PumpClose(t) \/ PumpEnd(t)
  PROVE  GroupInv'
<1>1. UNCHANGED <<group, members>> /\ SameTurns
  BY PlainTurns DEF PostCloneFails, PostOnClosed, PostToPeer, PostToGroup, PostDetach, PostLost,
     PostMore, EnqueuePush, TriggerReadAttached, TriggerCheck, TriggerSend, PumpMessage,
     PumpReturn, PumpClose, PumpEnd, dataVars
<1>2. SameLone /\ \A d \in Datas : closed'[d] => closed[d]
  <2>1. CASE PostOnClosed(t) \/ PostDetach(t)
    <3>1. Top(t).xwrap \in Wraps \cup {None}
      BY <2>1, TopType DEF PostOnClosed, PostDetach, At, PostFrame
    <3>2. DetachTransferredPort(Top(t).xwrap) /\ UNCHANGED <<thread, closed>>
      BY <2>1 DEF PostOnClosed, PostDetach
    <3>3. ~Alone(None)
      BY DEF Alone
    <3> QED BY <3>1, <3>2, <3>3 DEF DetachTransferredPort, SameLone, VarTypes, WrapTypes
  <2>2. CASE \/ PostCloneFails(t) \/ PostToPeer(t) \/ PostToGroup(t) \/ PostLost(t) \/ PostMore(t)
             \/ EnqueuePush(t) \/ TriggerReadAttached(t) \/ TriggerCheck(t) \/ TriggerSend(t)
             \/ PumpReturn(t) \/ PumpClose(t) \/ PumpEnd(t)
    <3>1. /\ UNCHANGED <<data, thread, closed>>
          /\ \E w : state' = state \/ state' = BeginClosePort(w)
      BY <2>2 DEF PostCloneFails, PostToPeer, PostToGroup, PostLost, PostMore, EnqueuePush,
         TriggerReadAttached, TriggerCheck, TriggerSend, PumpReturn, PumpClose, PumpEnd, TakeClose,
         dataVars, wrapVars
    <3> QED BY <3>1, BeginCloseLone
  <2>3. CASE PumpMessage(t)
    <3>1. Top(t).wrap \in Wraps
      BY <2>3, TopType DEF PumpMessage, At, PumpFrame
    <3>2. data[Top(t).wrap] \in Datas /\ queue[data[Top(t).wrap]] # << >>
      BY <2>3, <3>1 DEF PumpMessage, PumpHas, VarTypes, WrapTypes
    <3>3. \E r \in BOOLEAN : TakeMessage(t, data[Top(t).wrap], r)
      BY <2>3, ConstantsAssumption DEF PumpMessage
    <3> QED BY <3>2, <3>3, TakeMessageLone
  <2> QED BY <2>1, <2>2, <2>3
<1> QED BY <1>1, <1>2, GroupQuiet

\* Once the group lists the Data, joining is over.
LEMMA JoinKeepsGroups ==
  ASSUME GroupInv, OnlyBorn, VarTypes, StackType, NEW t \in Threads, JoinGroup(t)
  PROVE  GroupInv'
<1> DEFINE d == Top(t).own
           g == Top(t).group
<1>1. stack[t] # << >> /\ Top(t) \in JoinFrame /\ Joining(Top(t)) /\ Return(t)
  BY TopType DEF JoinGroup, At, Joining
<1>2. d \in Datas /\ g \in Groups /\ g # None
  BY <1>1, ConstantsAssumption DEF JoinFrame
<1>3. /\ Top(t) \in Frames
      /\ \A u \in Threads : \A x : In(x, stack'[u]) => In(x, stack[u])
      /\ \A x : x \in Frames' => x \in Frames
      /\ \A x : x \in Frames => x = Top(t) \/ x \in Frames'
  BY <1>1, ReturnMove
<1>4. group[d] = g /\ ~closed[d] /\ \A x \in Frames : Leaving(x) \/ Left(x) => x.own # d
  BY <1>1, <1>2, <1>3 DEF GroupInv, Turning, Listed
<1>5. /\ UNCHANGED <<group, closed, data, thread, state>>
      /\ members'[g] = members[g] \cup {d}
      /\ \A h \in Groups \ {g} : members'[h] = members[h]
  BY <1>2 DEF JoinGroup, wrapVars, VarTypes, DataTypes
<1>6. \A x : Leaving(x) => x # Top(t)
  BY <1>1 DEF Joining, Leaving
<1>7. Joining(Top(t))
  BY <1>1
<1> HIDE DEF d, g
<1>8. Listed'
  <2>1. \A e \in Datas : closed'[e] => group'[e] = None /\ \A h \in Groups : e \notin members'[h]
    BY <1>2, <1>4, <1>5 DEF GroupInv, Listed
  <2>2. \A h \in Groups : \A e \in members'[h] :
          group'[e] = h \/ \E x \in Frames' : Leaving(x) /\ x.own = e /\ x.group = h
    <3> SUFFICES ASSUME NEW h \in Groups, NEW e \in members'[h]
                 PROVE  group'[e] = h \/ \E x \in Frames' : Leaving(x) /\ x.own = e /\ x.group = h
      OBVIOUS
    <3>1. CASE e = d /\ h = g
      BY <1>4, <1>5, <3>1
    <3>2. CASE e \in members[h]
      BY <1>3, <1>5, <1>6, <3>2 DEF GroupInv, Listed, Leaves, Leaving
    <3> QED BY <1>5, <3>1, <3>2
  <2>3. \A e \in Datas : group'[e] # None =>
          \/ e \in members'[group'[e]]
          \/ \E x \in Frames' : Joining(x) /\ x.own = e /\ x.group = group'[e]
    <3> SUFFICES ASSUME NEW e \in Datas, group'[e] # None
                 PROVE  \/ e \in members'[group'[e]]
                        \/ \E x \in Frames' : Joining(x) /\ x.own = e /\ x.group = group'[e]
      OBVIOUS
    <3>1. CASE e = d
      BY <1>4, <1>5, <3>1
    <3>2. CASE e # d
      <4>1. group[e] \in Groups
        BY <1>5 DEF VarTypes, DataTypes
      <4>2. CASE e \in members[group[e]]
        BY <1>5, <4>1, <4>2
      <4>3. CASE Joins(e, group[e])
        <5>1. PICK x \in Frames : Joining(x) /\ x.own = e /\ x.group = group[e]
          BY <4>3 DEF Joins, Joining
        <5>2. x \in Frames'
          BY <1>3, <3>2, <5>1 DEF d
        <5> QED BY <1>5, <5>1, <5>2
      <4> QED BY <1>5, <4>2, <4>3 DEF GroupInv, Listed
    <3> QED BY <3>1, <3>2
  <2> QED BY <2>1, <2>2, <2>3 DEF Listed, Leaves, Joins, Leaving, Joining
<1>9. Turning'
  <2>1. \A x \in Frames' : Left(x) => \A h \in Groups : x.own \notin members'[h]
    BY <1>3, <1>4, <1>5 DEF GroupInv, Turning
  <2> QED BY <1>3, <1>5, <2>1 DEF GroupInv, Turning
<1>10. Placed'
  BY <1>3, <1>5 DEF GroupInv, Placed
<1>11. Lone'
  BY <1>5 DEF GroupInv, Lone
<1> QED BY <1>8, <1>9, <1>10, <1>11 DEF GroupInv

\* The group lists the Data no more, which goes on to DisentanglePeer,
LEMMA LeaveKeepsGroups ==
  ASSUME GroupInv, OnlyBorn, VarTypes, StackType, NEW t \in Threads, CloseLeave(t)
  PROVE  GroupInv'
<1> DEFINE d == Top(t).own
           g == Top(t).group
<1>1. stack[t] # << >> /\ Top(t) \in CloseFrame /\ Leaving(Top(t)) /\ ~Joining(Top(t))
  BY TopType DEF CloseLeave, At, Joining, Leaving
<1>2. PICK f \in Frame : Continue(t, f) /\ f.op = "close" /\ f.pc = "disentangle" /\ f.own = d
  BY <1>1, CloseGoesOn DEF CloseFrame
<1>3. /\ Top(t) \in Frames
      /\ \A u \in Threads : \A x : In(x, stack'[u]) => (u = t /\ x = f) \/ In(x, stack[u])
      /\ \A x : x \in Frames' => x = f \/ x \in Frames
      /\ \A x : x \in Frames => x = Top(t) \/ x \in Frames'
  BY <1>1, <1>2, ContinueMove
<1>4. d # None /\ d \in Datas /\ group[d] = None
  BY <1>1, <1>3 DEF GroupInv, Turning, CloseFrame
<1>5. ~Joining(f) /\ ~Leaving(f) /\ Left(f)
  BY <1>2 DEF Joining, Leaving, Left
<1>6. /\ UNCHANGED <<group, closed, data, thread, state>>
      /\ \A h \in Groups : members'[h] = IF h = g THEN members[h] \ {d} ELSE members[h]
  BY DEF CloseLeave, wrapVars, VarTypes, DataTypes
<1>7. \A h \in Groups : d \notin members'[h]
  <2> SUFFICES ASSUME NEW h \in Groups, d \in members[h], h # g PROVE FALSE
    BY <1>6
  <2>1. PICK x \in Frames : Leaving(x) /\ x.own = d /\ x.group = h
    BY <1>4, ConstantsAssumption DEF GroupInv, Listed, Leaves, Leaving
  <2> QED BY <1>1, <1>3, <2>1 DEF GroupInv, Turning
<1>8. Listed'
  <2>1. \A e \in Datas : closed'[e] => group'[e] = None /\ \A h \in Groups : e \notin members'[h]
    BY <1>6 DEF GroupInv, Listed
  <2>2. \A h \in Groups : \A e \in members'[h] :
          group'[e] = h \/ \E x \in Frames' : Leaving(x) /\ x.own = e /\ x.group = h
    <3> SUFFICES ASSUME NEW h \in Groups, NEW e \in members'[h], group'[e] # h
                 PROVE  \E x \in Frames' : Leaving(x) /\ x.own = e /\ x.group = h
      OBVIOUS
    <3>1. e \in members[h] /\ e # d
      BY <1>6, <1>7
    <3>2. PICK x \in Frames : Leaving(x) /\ x.own = e /\ x.group = h
      BY <1>6, <3>1 DEF GroupInv, Listed, Leaves, Leaving
    <3> QED BY <1>3, <3>1, <3>2
  <2>3. \A e \in Datas : group'[e] # None =>
          \/ e \in members'[group'[e]]
          \/ \E x \in Frames' : Joining(x) /\ x.own = e /\ x.group = group'[e]
    <3> SUFFICES ASSUME NEW e \in Datas, group'[e] # None
                 PROVE  \/ e \in members'[group'[e]]
                        \/ \E x \in Frames' : Joining(x) /\ x.own = e /\ x.group = group'[e]
      OBVIOUS
    <3>1. e # d /\ group[e] \in Groups
      BY <1>4, <1>6 DEF VarTypes, DataTypes
    <3>2. CASE e \in members[group[e]]
      BY <1>6, <3>1, <3>2
    <3>3. CASE Joins(e, group[e])
      <4>1. PICK x \in Frames : Joining(x) /\ x.own = e /\ x.group = group[e]
        BY <3>3 DEF Joins, Joining
      <4> QED BY <1>1, <1>3, <1>6, <4>1
    <3> QED BY <1>6, <3>2, <3>3 DEF GroupInv, Listed
  <2> QED BY <2>1, <2>2, <2>3 DEF Listed, Leaves, Joins, Leaving, Joining
<1>9. Turning'
  <2>1. \A x \in Frames' : Left(x) => \A h \in Groups : x.own \notin members'[h]
    BY <1>2, <1>3, <1>6, <1>7 DEF GroupInv, Turning
  <2> QED BY <1>2, <1>3, <1>4, <1>5, <1>6, <2>1 DEF GroupInv, Turning
<1>10. Placed'
  BY <1>3, <1>5, <1>6 DEF GroupInv, Placed
<1>11. Lone'
  BY <1>6 DEF GroupInv, Lone
<1> QED BY <1>8, <1>9, <1>10, <1>11 DEF GroupInv

\* which closes it: nothing lists it, and it names no group.
LEMMA DisentangleKeepsGroups ==
  ASSUME GroupInv, OnlyBorn, VarTypes, StackType, NEW t \in Threads, CloseDisentangle(t)
  PROVE  GroupInv'
<1> DEFINE d == Top(t).own
<1>1. stack[t] # << >> /\ Top(t) \in CloseFrame /\ Left(Top(t)) /\ ~Joining(Top(t)) /\ ~Leaving(Top(t))
  BY TopType DEF CloseDisentangle, At, Joining, Leaving, Left
<1>2. PICK f \in Frame : Continue(t, f) /\ f.op = "close" /\ f.pc \in {"onclose", "peer"}
  BY <1>1, CloseGoesOn DEF CloseFrame
<1>3. /\ Top(t) \in Frames
      /\ \A u \in Threads : \A x : In(x, stack'[u]) => (u = t /\ x = f) \/ In(x, stack[u])
      /\ \A x : x \in Frames' => x = f \/ x \in Frames
      /\ \A x : x \in Frames => x = Top(t) \/ x \in Frames'
  BY <1>1, <1>2, ContinueMove
<1>4. group[d] = None /\ \A h \in Groups : d \notin members[h]
  BY <1>1, <1>3 DEF GroupInv, Turning
<1>5. ~Joining(f) /\ ~Leaving(f) /\ ~Left(f)
  BY <1>2 DEF Joining, Leaving, Left
<1>6. /\ UNCHANGED <<group, members, data, thread, state>>
      /\ \A e \in Datas : closed'[e] => closed[e] \/ e = d
  BY DEF CloseDisentangle, wrapVars, VarTypes, DataTypes
<1>7. \A x : Joining(x) \/ Leaving(x) => (x \in Frames' <=> x \in Frames)
  BY <1>1, <1>3, <1>5
<1>8. Listed'
  <2>1. \A e \in Datas : closed'[e] => group'[e] = None /\ \A h \in Groups : e \notin members'[h]
    BY <1>4, <1>6 DEF GroupInv, Listed
  <2>2. \A e, h : (Joins(e, h)' <=> Joins(e, h)) /\ (Leaves(e, h)' <=> Leaves(e, h))
    BY <1>7 DEF Joins, Leaves, Joining, Leaving
  <2> QED BY <1>6, <2>1, <2>2 DEF GroupInv, Listed
<1>9. Turning'
  BY <1>3, <1>5, <1>6 DEF GroupInv, Turning
<1>10. Placed'
  BY <1>3, <1>5, <1>6 DEF GroupInv, Placed
<1>11. Lone'
  BY <1>6 DEF GroupInv, Lone
<1> QED BY <1>8, <1>9, <1>10, <1>11 DEF GroupInv

\* A frame's step keeps GroupInv.
LEMMA ProceedGroup ==
  ASSUME GroupInv, OnlyBorn, VarTypes, StackType, NEW t \in Threads, Proceed(t)
  PROVE  GroupInv'
<1>1. CASE CloseUnlinkPeer(t)
  <2> DEFINE f == [Top(t) EXCEPT !.pc = "onclose", !.peer = None]
             g == Enqueue(Top(t).peer, CloseMsg)
  <2>1. stack[t] # << >> /\ Top(t) \in CloseFrame /\ Top(t).pc = "peer" /\ Top(t).op = "close"
    BY <1>1, TopType DEF CloseUnlinkPeer, At
  <2>2. f.op = "close" /\ f.pc = "onclose" /\ g.op = "enqueue"
    BY <2>1 DEF CloseFrame, Enqueue
  <2>3. Call(t, f, g) /\ UNCHANGED <<group, members, closed, data, thread, state>>
    BY <1>1 DEF CloseUnlinkPeer, wrapVars
  <2> HIDE DEF f, g
  <2>4. SameTurns
    BY <2>1, <2>2, <2>3, TurnsMove DEF Turns, Joining, Leaving, Left
  <2> QED BY <2>3, <2>4, GroupQuiet DEF SameLone
<1>2. CASE CloseFinish(t)
  <2>1. stack[t] # << >> /\ Top(t) \in CloseFrame /\ Top(t).pc = "onclose" /\ Top(t).op = "close"
    BY <1>2, TopType DEF CloseFinish, At
  <2>2. Return(t) /\ UNCHANGED <<group, members, closed, thread>>
    BY <1>2 DEF CloseFinish
  <2>3. SameTurns
    <3>1. ~Turns(Top(t))
      BY <2>1 DEF Turns, Joining, Leaving, Left
    <3> QED BY <2>1, <2>2, <3>1, TurnsMove
  <2>4. SameLone
    <3>1. Top(t).wrap \in Wraps /\ (Delete(Top(t).wrap) \/ UNCHANGED <<state, data>>)
      BY <1>2, <2>1 DEF CloseFinish, CloseFrame
    <3> QED BY <2>2, <3>1 DEF Delete, SameLone, Alone, VarTypes, WrapTypes
  <2> QED BY <2>2, <2>3, <2>4, GroupQuiet
<1> QED BY <1>1, <1>2, PlainGroup, JoinKeepsGroups, LeaveKeepsGroups, DisentangleKeepsGroups
       DEF Proceed

\* A close begins: the Data forgets its group, which still lists it.
LEMMA CloseKeepsGroups ==
  ASSUME GroupInv, OnlyBorn, VarTypes, StackType, NEW t \in Threads, NEW w \in Wraps,
         CloseCallback(t, w)
  PROVE  GroupInv'
<1> DEFINE d == data[w]
           g == IF d = None THEN None ELSE group[d]
           c == IF d = None THEN "onclose" ELSE IF g = None THEN "disentangle" ELSE "leave"
           f == [op |-> "close", wrap |-> w, own |-> d, group |-> g, peer |-> None, pc |-> c]
<1>1. /\ Push(t, f) /\ stack[t] = << >> /\ thread[w] = t /\ state[w] = "Closing"
      /\ UNCHANGED <<members, closed, data, thread>>
      /\ group' = IF d = None THEN group ELSE [group EXCEPT ![d] = None]
      /\ state'[w] = "Closed" /\ \A v \in Wraps \ {w} : state'[v] = state[v]
  BY DEF CloseCallback, Own, VarTypes, WrapTypes
<1>2. d \in Datas \cup {None} /\ f.op = "close" /\ f.pc = c /\ f.own = d /\ f.group = g
  BY DEF VarTypes, WrapTypes
<1>3. /\ \A u \in Threads : \A x : In(x, stack'[u]) <=> (u = t /\ x = f) \/ In(x, stack[u])
      /\ \A x : x \in Frames' <=> x = f \/ x \in Frames
  <2> HIDE DEF f
  <2> QED BY <1>1, PushMove
<1>4. CASE d = None
  <2>1. f.pc = "onclose"
    BY <1>4
  <2> HIDE DEF f
  <2>2. SameTurns
    BY <1>1, <1>2, <2>1, TurnsMove DEF Turns, Joining, Leaving, Left
  <2>3. SameLone
    BY <1>1 DEF SameLone
  <2> QED BY <1>1, <1>4, <2>2, <2>3, GroupQuiet
<1>5. CASE d # None
  <2>1. /\ d \in Datas /\ g = group[d] /\ group'[d] = None
        /\ \A e \in Datas \ {d} : group'[e] = group[e]
        /\ ~Joining(f) /\ (Leaving(f) <=> g # None) /\ (Left(f) <=> g = None)
    BY <1>1, <1>2, <1>5 DEF Joining, Leaving, Left, VarTypes, DataTypes
  <2>2. \A x \in Frames : Joining(x) \/ Leaving(x) => x.own # d
    <3> SUFFICES ASSUME NEW x \in Frames, Joining(x) \/ Leaving(x), x.own = d PROVE FALSE
      OBVIOUS
    <3>1. PICK u \in Threads : In(x, stack[u])
      BY OnFrames
    <3>2. thread[w] = u
      BY <3>1 DEF GroupInv, Placed
    <3> QED BY <1>1, <3>1, <3>2 DEF In
  <2>3. \A h \in Groups : d \in members[h] => group[d] = h
    BY <2>2 DEF GroupInv, Listed, Leaves, Leaving
  <2>4. \A v \in Wraps : data[v] = d /\ Alone(d) => v = w
    BY DEF GroupInv, Lone
  <2>5. \A x \in Frames : Turns(x) => x.own \in Datas
    <3> SUFFICES ASSUME NEW x \in Frames, Turns(x) PROVE x.own \in Datas
      OBVIOUS
    <3>1. x.own # None
      BY ConstantsAssumption DEF OnlyBorn, FramesBorn, Refers, Turns, Joining, Leaving, Left,
         GroupInv, Turning, VarTypes, DataTypes
    <3> QED BY <3>1 DEF OnlyBorn, FramesBorn, Refers, Turns, Joining, Leaving, Left,
               VarTypes, DataTypes
  <2> HIDE DEF d, g, c, f
  <2>6. Listed'
    <3>1. \A e \in Datas : closed'[e] => group'[e] = None /\ \A h \in Groups : e \notin members'[h]
      BY <1>1, <2>1 DEF GroupInv, Listed
    <3>2. \A h \in Groups : \A e \in members'[h] :
            group'[e] = h \/ \E x \in Frames' : Leaving(x) /\ x.own = e /\ x.group = h
      <4> SUFFICES ASSUME NEW h \in Groups, NEW e \in members[h]
                   PROVE  group'[e] = h \/ \E x \in Frames' : Leaving(x) /\ x.own = e /\ x.group = h
        BY <1>1
      <4>1. CASE e = d
        <5>1. g = h /\ g # None
          BY <2>1, <2>3, <4>1, ConstantsAssumption
        <5> QED BY <1>2, <1>3, <2>1, <4>1, <5>1
      <4>2. CASE e # d
        <5>1. e \in Datas \ {d}
          BY <4>2 DEF VarTypes, DataTypes
        <5>2. group[e] = h \/ \E x \in Frames : Leaving(x) /\ x.own = e /\ x.group = h
          BY DEF GroupInv, Listed, Leaves, Leaving
        <5> QED BY <1>3, <2>1, <5>1, <5>2
      <4> QED BY <4>1, <4>2
    <3>3. \A e \in Datas : group'[e] # None =>
            \/ e \in members'[group'[e]]
            \/ \E x \in Frames' : Joining(x) /\ x.own = e /\ x.group = group'[e]
      BY <1>1, <1>3, <2>1 DEF GroupInv, Listed, Joins, Joining
    <3> QED BY <3>1, <3>2, <3>3 DEF Listed, Leaves, Joins, Leaving, Joining
  <2>7. Turning'
    <3>1. \A x \in Frames' : Joining(x) => group'[x.own] = x.group
      BY <1>3, <2>1, <2>2, <2>5 DEF GroupInv, Turning, Turns
    <3>2. \A x \in Frames' : Leaving(x) \/ Left(x) => x.own # None /\ group'[x.own] = None
      <4>1. \A x \in Frames : Leaving(x) \/ Left(x) => x.own # None /\ group'[x.own] = None
        BY <2>1, <2>5 DEF GroupInv, Turning, Turns
      <4> QED BY <1>2, <1>3, <1>5, <2>1, <4>1
    <3>3. \A x \in Frames' : Left(x) => \A h \in Groups : x.own \notin members'[h]
      <4>1. g = None => \A h \in Groups : d \notin members[h]
        BY <2>1, <2>3, ConstantsAssumption
      <4> QED BY <1>1, <1>2, <1>3, <2>1, <4>1 DEF GroupInv, Turning
    <3>4. \A x, y \in Frames' : Leaving(x) /\ Leaving(y) /\ x.own = y.own => x.group = y.group
      BY <1>2, <1>3, <2>2 DEF GroupInv, Turning
    <3> QED BY <3>1, <3>2, <3>3, <3>4 DEF Turning
  <2>8. Placed'
    <3>1. Leaving(f) => Alone(d)
      BY <1>5, <2>1 DEF Alone, OnlyBorn, ObjectsBorn, PointersBorn
    <3> QED BY <1>1, <1>2, <1>3, <2>1, <2>4, <3>1 DEF GroupInv, Placed
  <2>9. Lone'
    <3> SUFFICES ASSUME NEW v \in Wraps, state'[v] \in {"Initialized", "Closing"}, Alone(data[v])
                 PROVE  group'[data[v]] # None
      BY <1>1 DEF GroupInv, Lone
    <3>1. v # w /\ state'[v] = state[v]
      BY <1>1
    <3>2. data[v] # d /\ data[v] \in Datas
      BY <2>4, <3>1 DEF Alone, VarTypes, WrapTypes
    <3> QED BY <2>1, <3>1, <3>2 DEF GroupInv, Lone
  <2> QED BY <2>6, <2>7, <2>8, <2>9 DEF GroupInv
<1> QED BY <1>4, <1>5

\* So do the callbacks of the event loop.
LEMMA EventGroup ==
  ASSUME GroupInv, OnlyBorn, VarTypes, StackType, NEW t \in Threads, NEW w \in Wraps,
         AsyncCallback(t, w) \/ CloseCallback(t, w) \/ Finalize(t, w)
  PROVE  GroupInv'
<1>1. CASE AsyncCallback(t, w)
  <2>1. UNCHANGED <<group, members, closed, data, thread, state>>
    BY <1>1 DEF AsyncCallback, dataVars
  <2>2. PICK f : Push(t, f) /\ f.op = "pump"
    BY <1>1 DEF AsyncCallback, Pump
  <2>3. SameTurns
    BY <2>2, TurnsMove DEF Turns, Joining, Leaving, Left
  <2> QED BY <2>1, <2>3, GroupQuiet DEF SameLone
<1>2. CASE Finalize(t, w)
  <2>1. Delete(w) /\ UNCHANGED <<group, members, closed, thread, stack>>
    BY <1>2 DEF Finalize
  <2>2. SameLone /\ SameTurns
    BY <2>1 DEF Delete, SameLone, SameTurns, Alone, VarTypes, WrapTypes
  <2> QED BY <2>1, <2>2, GroupQuiet
<1> QED BY <1>1, <1>2, CloseKeepsGroups

\* GroupInv is an invariant.
LEMMA GroupHeld == Spec => []GroupInv
<1>1. Init => GroupInv
  <2> SUFFICES ASSUME Init PROVE GroupInv
    OBVIOUS
  <2>1. Frames = {} /\ \A t \in Threads : \A x : ~In(x, stack[t])
    BY DEF Init, Frames, In
  <2>2. \A w \in Wraps : ~Alone(data[w])
    BY DEF Init, Alone
  <2> QED BY <2>1, <2>2 DEF Init, GroupInv, Listed, Turning, Placed, Lone
<1>2. TypeOK /\ OnlyBorn /\ GroupInv /\ [Next]_vars => GroupInv'
  <2> SUFFICES ASSUME TypeOK, OnlyBorn, GroupInv, [Next]_vars PROVE GroupInv'
    OBVIOUS
  <2>1. VarTypes /\ StackType
    BY TypeParts
  <2>2. CASE UNCHANGED vars
    BY <2>2, GroupQuiet DEF vars, dataVars, wrapVars, SameTurns, SameLone
  <2>3. ASSUME NEW t \in Threads, EnvCleanup(t)
        PROVE  GroupInv'
    <3>1. UNCHANGED <<group, members, closed, data, thread, stack>>
      BY <2>3 DEF EnvCleanup, dataVars
    <3>2. \A w \in Wraps : state'[w] \in {"Initialized", "Closing"} =>
            state[w] \in {"Initialized", "Closing"}
      BY <2>3 DEF EnvCleanup
    <3> QED BY <3>1, <3>2, GroupQuiet DEF SameTurns, SameLone
  <2> QED BY <2>1, <2>2, <2>3, ScriptGroup, ProceedGroup, EventGroup DEF Next
<1> QED BY <1>1, <1>2, TypeCorrect, BornHeld, PTL DEF Spec

\* The snapshot of GetBroadcastChannelTargets misses no open port whose
\* constructor is through and holds no closed one, for any number of groups,
\* ports and threads and wherever between the critical sections of joining,
\* leaving and closing ports it is taken.
THEOREM GroupsExact == Spec => []GroupIsOpenPorts
<1>1. TypeOK /\ GroupInv => GroupIsOpenPorts
  <2> SUFFICES ASSUME TypeOK, GroupInv PROVE GroupIsOpenPorts
    OBVIOUS
  <2>1. ASSUME NEW w \in Wraps, data[w] # None, Twin[data[w]] = data[w],
               state[w] \in {"Initialized", "Closing"}
        PROVE  group[data[w]] # None /\ (data[w] \in members[group[data[w]]] \/ Joins(data[w], group[data[w]]))
    <3>1. data[w] \in Datas /\ Alone(data[w])
      BY <2>1 DEF TypeOK, Alone, Ends
    <3> QED BY <2>1, <3>1 DEF GroupInv, Listed, Lone
  <2>2. ASSUME NEW g \in Groups, NEW d \in members[g]
        PROVE  ~closed[d] /\ (group[d] = g \/ Leaves(d, g))
    <3>1. d \in Datas
      BY DEF TypeOK
    <3> QED BY <3>1 DEF GroupInv, Listed
  <2> QED BY <2>1, <2>2 DEF GroupIsOpenPorts
<1> QED BY <1>1, TypeCorrect, GroupHeld, PTL


(***************************************************************************)
(* NoLostWakeup                                                            *)
(***************************************************************************)

\* NoLostWakeup by its parts: the open port of d has messages, a frame f will
\* look at them or send to its handle, d is taken care of.
Open(d) == attached[d] # None /\ queue[d] # << >> /\ state[attached[d]] = "Initialized"
Wakes(f, d, w) ==
  \/ f.op = "pump" /\ ~f.force /\ f.wrap = w
  \/ f.op = "enqueue" /\ f.pc = "attached" /\ f.target = d
  \/ f.op = "enqueue" /\ f.pc \in {"check", "send"} /\ f.trig = w
Awake(d) == async[attached[d]] \/ \E f \in Frames : Wakes(f, d, attached[d])

\* NoLostWakeup, Data by Data.
LEMMA WakeParts == NoLostWakeup <=> \A d \in Datas : Open(d) => Awake(d)
BY DEF NoLostWakeup, Open, Awake, Wakes

\* The same after a step.
LEMMA WakePartsNext == NoLostWakeup' <=> \A d \in Datas : Open(d)' => Awake(d)'
BY DEF NoLostWakeup, Open, Awake, Wakes

\* A step that attaches nothing, queues nothing, and forgets no wakeup.
Calm ==
  /\ \A d \in Datas : /\ attached'[d] \in {attached[d], None}
                      /\ queue'[d] # << >> => queue[d] # << >>
  /\ \A w \in Wraps : /\ state'[w] = "Initialized" => state[w] = "Initialized"
                      /\ async[w] => async'[w]
\* No frame goes away but those that wake nobody.
LosesNone ==
  \A f \in Frames : \/ f \in Frames'
                    \/ f.op \in {"post", "join", "close"}
                    \/ f.op = "pump" /\ f.force

\* A step that is Calm keeps NoLostWakeup.
LEMMA CalmKept ==
  ASSUME NoLostWakeup, VarTypes, Calm, LosesNone
  PROVE  NoLostWakeup'
<1> SUFFICES ASSUME NEW d \in Datas, Open(d)' PROVE Awake(d)'
  BY WakePartsNext
<1> DEFINE w == attached[d]
<1>1. attached'[d] = w /\ w \in Wraps
  BY DEF Open, Calm, VarTypes, DataTypes
<1>2. Open(d)
  BY <1>1 DEF Open, Calm
<1>3. Awake(d)
  BY <1>2, WakeParts
<1>4. async[w] => async'[w]
  BY <1>1 DEF Calm
<1>5. \A f \in Frames : Wakes(f, d, w) => f \in Frames'
  BY DEF LosesNone, Wakes
<1> QED BY <1>1, <1>3, <1>4, <1>5 DEF Awake

\* A step of a frame that wakes nobody loses no wakeup.
LEMMA StepLosesNone ==
  ASSUME StackType, NEW t \in Threads, NEW f, NEW g,
         \/ UNCHANGED stack
         \/ Push(t, f)
         \/ /\ stack[t] # << >> /\ (Return(t) \/ Continue(t, f) \/ Call(t, f, g))
            /\ Top(t).op \in {"post", "join", "close"} \/ (Top(t).op = "pump" /\ Top(t).force)
  PROVE  LosesNone
<1>1. CASE UNCHANGED stack
  BY <1>1 DEF LosesNone, Frames
<1>2. CASE Push(t, f)
  BY <1>2, FramesMove DEF LosesNone
<1>3. CASE /\ stack[t] # << >> /\ (Return(t) \/ Continue(t, f) \/ Call(t, f, g))
           /\ Top(t).op \in {"post", "join", "close"} \/ (Top(t).op = "pump" /\ Top(t).force)
  <2>1. Frames \subseteq Frames' \cup {Top(t)}
    BY <1>3, FramesMove
  <2> QED BY <1>3, <2>1 DEF LosesNone
<1> QED BY <1>1, <1>2, <1>3

\* A new wrap w takes over the Data p, and is triggered when messages wait.
LEMMA AdoptWoken ==
  ASSUME NoLostWakeup, AttachedInv, VarTypes, NEW t \in Threads, NEW w \in Wraps, NEW p \in Datas,
         ReceivePort(t, w, p),
         \A d \in Datas : queue'[d] # << >> => queue[d] # << >>,
         \A f \in Frames : \A d \in Datas : \A v \in Wraps :
           Wakes(f, d, v) => \E h \in Frames' : Wakes(h, d, v)
  PROVE  NoLostWakeup'
<1> SUFFICES ASSUME NEW d \in Datas, Open(d)' PROVE Awake(d)'
  BY WakePartsNext
<1>0. /\ state[w] = "Unborn"
      /\ attached' = [attached EXCEPT ![p] = w]
      /\ state' = [state EXCEPT ![w] = "Initialized"]
      /\ async' = [async EXCEPT ![w] = queue[p] # << >>]
  BY DEF ReceivePort, NewWrap, WakeNew
<1>1. CASE d = p
  <2>1. attached'[d] = w /\ queue[p] # << >>
    BY <1>0, <1>1 DEF Open, VarTypes, DataTypes
  <2>2. async'[w]
    BY <1>0, <2>1 DEF VarTypes, WrapTypes
  <2> QED BY <2>1, <2>2 DEF Awake
<1>2. CASE d # p
  <2>1. attached'[d] = attached[d] /\ attached[d] \in Wraps
    BY <1>0, <1>2 DEF Open, VarTypes, DataTypes
  <2>2. attached[d] # w
    BY <1>0, <2>1, ConstantsAssumption DEF AttachedInv
  <2>3. state'[attached[d]] = state[attached[d]] /\ async'[attached[d]] = async[attached[d]]
    BY <1>0, <2>1, <2>2 DEF VarTypes, WrapTypes
  <2>4. Open(d)
    BY <2>1, <2>3 DEF Open
  <2>5. Awake(d)
    BY <2>4, WakeParts
  <2> QED BY <2>1, <2>3, <2>5 DEF Awake
<1> QED BY <1>1, <1>2

\* Constructing ports: nothing is queued for them.
LEMMA ConstructWoken ==
  ASSUME NoLostWakeup, AttachedInv, OnlyBorn, VarTypes, NEW N \in SUBSET Wraps,
         \A w \in N : state[w] = "Unborn",
         UNCHANGED <<queue, async>>, Frames \subseteq Frames',
         \A w \in Wraps \ N : state'[w] = state[w],
         \A d \in born : attached'[d] = attached[d]
  PROVE  NoLostWakeup'
<1> SUFFICES ASSUME NEW d \in Datas, Open(d)' PROVE Awake(d)'
  BY WakePartsNext
<1>1. d \in born
  BY DEF Open, OnlyBorn, ObjectsBorn, Fresh
<1>2. attached'[d] = attached[d] /\ attached[d] \in Wraps \ N
  <2>1. attached'[d] = attached[d] /\ attached[d] # None
    BY <1>1 DEF Open
  <2>2. attached[d] \in Wraps
    BY <2>1 DEF VarTypes, DataTypes
  <2>3. state[attached[d]] # "Unborn"
    BY <2>1 DEF AttachedInv
  <2> QED BY <2>1, <2>2, <2>3
<1>3. Open(d)
  BY <1>2 DEF Open
<1>4. Awake(d)
  BY <1>3, WakeParts
<1> QED BY <1>2, <1>4 DEF Awake

\* Taking a message off a queue, whose port may get a new wrap.
LEMMA TakeMessageWoken ==
  ASSUME NoLostWakeup, AttachedInv, VarTypes, NEW t \in Threads, NEW d \in Datas, queue[d] # << >>,
         NEW r \in BOOLEAN, TakeMessage(t, d, r),
         \A f \in Frames : \A e \in Datas : \A v \in Wraps :
           Wakes(f, e, v) => \E h \in Frames' : Wakes(h, e, v)
  PROVE  NoLostWakeup'
<1>1. Head(queue[d]) \in Message /\ queue' = [queue EXCEPT ![d] = Tail(@)]
  BY DEF VarTypes, DataTypes, TakeMessage
<1>2. \A e \in Datas : queue'[e] # << >> => queue[e] # << >>
  BY <1>1 DEF VarTypes, DataTypes
<1>3. CASE Head(queue[d]).port # None /\ r
  <2>1. Head(queue[d]).port \in Datas
    BY <1>1, <1>3 DEF Message
  <2>2. PICK w \in Wraps : ReceivePort(t, w, Head(queue[d]).port)
    BY <1>3 DEF TakeMessage
  <2> QED BY <1>2, <2>1, <2>2, AdoptWoken
<1>4. CASE ~(Head(queue[d]).port # None /\ r)
  <2>1. UNCHANGED <<attached, async, state>>
    BY <1>4 DEF TakeMessage
  <2> SUFFICES ASSUME NEW e \in Datas, Open(e)' PROVE Awake(e)'
    BY WakePartsNext
  <2>2. Open(e) /\ attached[e] \in Wraps
    BY <1>2, <2>1 DEF Open, VarTypes, DataTypes
  <2>3. Awake(e)
    BY <2>2, WakeParts
  <2> QED BY <2>1, <2>2, <2>3 DEF Awake
<1> QED BY <1>3, <1>4


\* Calls from JavaScript lose no wakeup.
LEMMA ScriptWoken ==
  ASSUME NoLostWakeup, AttachedInv, OnlyBorn, VarTypes, StackType, NEW t \in Threads, Script(t)
  PROVE  NoLostWakeup'
<1> USE ConstantsAssumption
<1>0. UNCHANGED stack => LosesNone /\ \A f \in Frames : \A d \in Datas : \A v \in Wraps :
                           Wakes(f, d, v) => \E h \in Frames' : Wakes(h, d, v)
  BY DEF LosesNone, Frames
<1>1. CASE \E v, w \in Wraps, d \in Datas : MessageChannel(t, v, w, d)
  <2>1. PICK v \in Wraps, w \in Wraps, d \in Datas : MessageChannel(t, v, w, d)
    BY <1>1
  <2> DEFINE N == {v, w}
  <2>2. d \notin born /\ Twin[d] \notin born /\ Twin[d] \in Datas
    BY <2>1 DEF MessageChannel, NewData, OnlyBorn, ObjectsBorn, Twinned
  <2>3. \A e \in born : attached'[e] = attached[e]
    BY <2>1, <2>2 DEF MessageChannel, VarTypes, DataTypes
  <2>4. /\ N \in SUBSET Wraps /\ \A u \in N : state[u] = "Unborn"
        /\ \A u \in Wraps \ N : state'[u] = state[u]
        /\ UNCHANGED <<queue, async>> /\ Frames \subseteq Frames'
    BY <2>1 DEF MessageChannel, NewWrap, Frames, VarTypes, WrapTypes
  <2> HIDE DEF N
  <2> QED BY <2>3, <2>4, ConstructWoken
<1>2. CASE \E w \in Wraps, d \in Datas, g \in Groups : BroadcastChannel(t, w, d, g)
  <2>1. PICK w \in Wraps, d \in Datas, g \in Groups : BroadcastChannel(t, w, d, g)
    BY <1>2
  <2> DEFINE N == {w}
  <2>2. \A e \in born : attached'[e] = attached[e]
    BY <2>1 DEF BroadcastChannel, NewData, VarTypes, DataTypes
  <2>3. /\ N \in SUBSET Wraps /\ \A u \in N : state[u] = "Unborn"
        /\ \A u \in Wraps \ N : state'[u] = state[u]
        /\ UNCHANGED <<queue, async>>
    BY <2>1 DEF BroadcastChannel, NewWrap, VarTypes, WrapTypes
  <2>4. Frames \subseteq Frames'
    <3>1. \E f : Push(t, f)
      BY <2>1, Zenon DEF BroadcastChannel
    <3> QED BY <3>1, FramesMove
  <2> HIDE DEF N
  <2> QED BY <2>2, <2>3, <2>4, ConstructWoken
<1>3. CASE \E w \in Wraps, u \in Threads, d \in Datas : StartWorker(t, u, w, d)
  <2>1. PICK w \in Wraps, u \in Threads, d \in Datas : StartWorker(t, u, w, d)
    BY <1>3
  <2> DEFINE N == {w}
  <2>2. \A e \in born : attached'[e] = attached[e]
    BY <2>1 DEF StartWorker, NewData, VarTypes, DataTypes
  <2>3. /\ N \in SUBSET Wraps /\ \A v \in N : state[v] = "Unborn"
        /\ \A v \in Wraps \ N : state'[v] = state[v]
        /\ UNCHANGED <<queue, async>> /\ Frames \subseteq Frames'
    BY <2>1 DEF StartWorker, NewWrap, Frames, VarTypes, WrapTypes
  <2> HIDE DEF N
  <2> QED BY <2>2, <2>3, ConstructWoken
<1>4. CASE \E w \in Wraps : GetEnvMessagePort(t, w)
  <2>1. PICK w \in Wraps : GetEnvMessagePort(t, w)
    BY <1>4
  <2>2. envData[t] \in Datas /\ ReceivePort(t, w, envData[t]) /\ UNCHANGED <<queue, stack>>
    BY <2>1 DEF GetEnvMessagePort, VarTypes, EnvTypes
  <2> QED BY <1>0, <2>2, AdoptWoken
<1>5. CASE \E w \in Wraps, x \in Wraps \cup {None} : PostMessage(t, w, x)
  <2>1. Calm
    BY <1>5 DEF PostMessage, Calm, dataVars, wrapVars
  <2>2. \E f : Push(t, f)
    BY <1>5, Zenon DEF PostMessage
  <2> QED BY <2>1, <2>2, StepLosesNone, CalmKept
<1>6. CASE \E w \in Wraps : DrainMessagePort(t, w)
  <2>1. Calm
    BY <1>6 DEF DrainMessagePort, Calm, dataVars, wrapVars
  <2>2. \E f : Push(t, f)
    BY <1>6, Zenon DEF DrainMessagePort
  <2> QED BY <2>1, <2>2, StepLosesNone, CalmKept
<1>7. CASE \E w \in Wraps : ReceiveMessageOnPort(t, w)
  <2>1. PICK w \in Wraps : ReceiveMessageOnPort(t, w)
    BY <1>7
  <2>2. data[w] \in Datas /\ queue[data[w]] # << >> /\ UNCHANGED stack
    BY <2>1 DEF ReceiveMessageOnPort, VarTypes, WrapTypes
  <2>3. CASE TakeClose(w) /\ UNCHANGED <<thread, data, attached, closed, async>>
    <3>1. Calm
      BY <2>2, <2>3 DEF TakeClose, BeginClosePort, Calm, VarTypes, DataTypes, WrapTypes
    <3> QED BY <1>0, <2>2, <3>1, CalmKept
  <2>4. CASE \E r \in BOOLEAN : TakeMessage(t, data[w], r)
    BY <1>0, <2>2, <2>4, TakeMessageWoken
  <2> QED BY <2>1, <2>3, <2>4 DEF ReceiveMessageOnPort
<1>8. CASE \E w \in Wraps : Start(t, w) \/ Stop(t, w) \/ Close(t, w)
  <2>1. Calm
    BY <1>8 DEF Start, Stop, Close, BeginClosePort, Calm, dataVars, VarTypes, WrapTypes
  <2>2. UNCHANGED stack
    BY <1>8 DEF Start, Stop, Close
  <2> QED BY <1>0, <2>1, <2>2, CalmKept
<1> QED BY <1>1, <1>2, <1>3, <1>4, <1>5, <1>6, <1>7, <1>8 DEF Script

\* The steps of posts and closes lose no wakeup: they wake nobody themselves.
LEMMA PostCloseWoken ==
  ASSUME NoLostWakeup, VarTypes, StackType, NEW t \in Threads,
         \/ PostCloneFails(t) \/ PostOnClosed(t) \/ PostToPeer(t) \/ PostToGroup(t)
         \/ PostDetach(t) \/ PostLost(t) \/ PostMore(t)
         \/ JoinGroup(t) \/ CloseLeave(t) \/ CloseDisentangle(t)
         \/ CloseUnlinkPeer(t) \/ CloseFinish(t)
  PROVE  NoLostWakeup'
<1>1. stack[t] # << >> /\ Top(t).op \in {"post", "join", "close"}
  BY DEF PostCloneFails, PostOnClosed, PostToPeer, PostToGroup, PostDetach, PostLost, PostMore,
     JoinGroup, CloseLeave, CloseDisentangle, CloseUnlinkPeer, CloseFinish, At
<1>2. /\ Top(t).op = "post" => Top(t).xwrap \in Wraps \cup {None} /\ Top(t).wrap \in Wraps
      /\ Top(t).op = "close" => Top(t).wrap \in Wraps
  BY <1>1, TopType DEF PostFrame, CloseFrame
<1>3. Return(t) \/ (\E f : Continue(t, f)) \/ (\E f, g : Call(t, f, g))
  BY Zenon DEF PostCloneFails, PostOnClosed, PostToPeer, PostToGroup, PostDetach, PostLost,
     PostMore, PostNext, JoinGroup, CloseLeave, CloseDisentangle, CloseUnlinkPeer, CloseFinish
<1>4. LosesNone
  BY <1>1, <1>3, StepLosesNone
<1>5. Calm
  <2>1. CASE PostOnClosed(t) \/ PostDetach(t)
    <3>1. Top(t).xwrap \in Wraps \cup {None} /\ DetachTransferredPort(Top(t).xwrap)
          /\ UNCHANGED <<queue, async>>
      BY <1>2, <2>1 DEF PostOnClosed, PostDetach, At
    <3> QED BY <3>1 DEF DetachTransferredPort, ClearAttached, Calm, VarTypes, DataTypes, WrapTypes
  <2>2. CASE \/ PostCloneFails(t) \/ PostToPeer(t) \/ PostToGroup(t) \/ PostMore(t)
             \/ JoinGroup(t) \/ CloseLeave(t) \/ CloseDisentangle(t) \/ CloseUnlinkPeer(t)
    <3>1. UNCHANGED <<attached, queue, state, async>>
      BY <2>2 DEF PostCloneFails, PostToPeer, PostToGroup, PostMore, JoinGroup, CloseLeave,
         CloseDisentangle, CloseUnlinkPeer, dataVars,
         wrapVars
    <3> QED BY <3>1 DEF Calm
  <2>3. CASE PostLost(t)
    BY <2>3 DEF PostLost, BeginClosePort, Calm, dataVars, VarTypes, WrapTypes
  <2>4. CASE CloseFinish(t)
    <3>1. /\ attached' = ClearAttached(Top(t).wrap) /\ async' = async
          /\ Delete(Top(t).wrap) \/ UNCHANGED <<state, queue>>
      BY <2>4 DEF CloseFinish
    <3>2. Top(t).wrap \in Wraps
      BY <1>2, <2>4 DEF CloseFinish, At
    <3>3. \A d \in Datas : attached'[d] \in {attached[d], None}
      BY <3>1, <3>2 DEF ClearAttached, VarTypes, DataTypes
    <3>4. \A d \in Datas : queue'[d] # << >> => queue[d] # << >>
      BY <3>1 DEF Delete, VarTypes, DataTypes
    <3>5. \A w \in Wraps : state'[w] = "Initialized" => state[w] = "Initialized"
      BY <3>1 DEF Delete, VarTypes, WrapTypes
    <3> QED BY <3>1, <3>3, <3>4, <3>5 DEF Calm
  <2> QED BY <2>1, <2>2, <2>3, <2>4
<1> QED BY <1>4, <1>5, CalmKept

\* An enqueue wakes its target in the end.
LEMMA EnqueueWoken ==
  ASSUME NoLostWakeup, VarTypes, StackType, NEW t \in Threads,
         EnqueuePush(t) \/ TriggerReadAttached(t) \/ TriggerCheck(t) \/ TriggerSend(t)
  PROVE  NoLostWakeup'
<1>1. stack[t] # << >> /\ Top(t).op = "enqueue" /\ Top(t) \in EnqueueFrame
  BY TopType DEF EnqueuePush, TriggerReadAttached, TriggerCheck, TriggerSend, At
<1>2. Top(t).target \in Datas /\ Top(t).trig \in Wraps \cup {None}
  BY <1>1 DEF EnqueueFrame
<1> SUFFICES ASSUME NEW d \in Datas, Open(d)' PROVE Awake(d)'
  BY WakePartsNext
<1> DEFINE w == attached[d]
<1>3. UNCHANGED <<attached, state>>
  BY DEF EnqueuePush, TriggerReadAttached, TriggerCheck, TriggerSend, dataVars, wrapVars
<1>4. w \in Wraps /\ attached'[d] = w /\ state[w] = "Initialized"
  BY <1>3 DEF Open, VarTypes, DataTypes
<1>5. async[w] => async'[w]
  <2>1. async' = async \/ async' = [async EXCEPT ![Top(t).trig] = @ \/ state[Top(t).trig] = "Initialized"]
    BY DEF EnqueuePush, TriggerReadAttached, TriggerCheck, TriggerSend, wrapVars
  <2> QED BY <1>4, <2>1 DEF VarTypes, WrapTypes
\* The other frames stay; what becomes of the running one
<1>6. Frames \subseteq Frames' \cup {Top(t)}
  <2>1. Return(t) \/ \E f : Continue(t, f)
    BY Zenon DEF EnqueuePush, TriggerReadAttached, TriggerCheck, TriggerSend
  <2> QED BY <1>1, <2>1, FramesMove
<1>7. queue[d] # << >> /\ ~Wakes(Top(t), d, w) => Awake(d)'
  <2> SUFFICES ASSUME queue[d] # << >>, ~Wakes(Top(t), d, w) PROVE Awake(d)'
    OBVIOUS
  <2>1. Open(d)
    BY <1>3, <1>4 DEF Open
  <2>2. Awake(d)
    BY <2>1, WakeParts
  <2> QED BY <1>4, <1>5, <1>6, <2>2 DEF Awake
<1>8. CASE EnqueuePush(t)
  <2>1. ~Wakes(Top(t), d, w)
    BY <1>1, <1>8 DEF Wakes, EnqueuePush, At
  <2>2. CASE Return(t) /\ UNCHANGED queue
    <3>1. queue[d] # << >>
      BY <2>2 DEF Open
    <3> QED BY <1>7, <2>1, <3>1
  <2>3. CASE /\ queue' = [queue EXCEPT ![Top(t).target] = Append(@, Top(t).msg)]
             /\ Continue(t, [Top(t) EXCEPT !.pc = "attached"])
    <3> DEFINE f == [Top(t) EXCEPT !.pc = "attached"]
    <3>1. f.op = "enqueue" /\ f.pc = "attached" /\ f.target = Top(t).target
      BY <1>1 DEF EnqueueFrame
    <3> HIDE DEF f
    <3>2. f \in Frames'
      BY <1>1, <2>3, FramesMove DEF f
    <3>3. CASE d = Top(t).target
      BY <3>1, <3>2, <3>3 DEF Awake, Wakes
    <3>4. CASE d # Top(t).target
      <4>1. queue[d] # << >>
        BY <2>3, <3>4 DEF Open, VarTypes, DataTypes
      <4> QED BY <1>7, <2>1, <4>1
    <3> QED BY <3>3, <3>4
  <2> QED BY <1>8, <2>2, <2>3 DEF EnqueuePush
<1>9. ASSUME UNCHANGED queue PROVE queue[d] # << >>
  BY <1>9 DEF Open
<1>10. CASE TriggerReadAttached(t)
  <2>1. queue[d] # << >> /\ Top(t).pc = "attached"
    BY <1>9, <1>10 DEF TriggerReadAttached, dataVars, At
  <2>2. CASE d = Top(t).target
    <3> DEFINE f == [Top(t) EXCEPT !.pc = "check", !.trig = attached[Top(t).target]]
    <3>1. f.op = "enqueue" /\ f.pc = "check" /\ f.trig = w
      BY <1>1, <2>2 DEF EnqueueFrame
    <3>2. Continue(t, f)
      BY <1>3, <1>10, <2>2 DEF TriggerReadAttached, Open
    <3> HIDE DEF f
    <3>3. f \in Frames'
      BY <1>1, <3>2, FramesMove
    <3> QED BY <1>4, <3>1, <3>3 DEF Awake, Wakes
  <2>3. CASE d # Top(t).target
    <3>1. ~Wakes(Top(t), d, w)
      BY <1>1, <2>1, <2>3 DEF Wakes
    <3> QED BY <1>7, <2>1, <3>1
  <2> QED BY <2>2, <2>3
<1>11. CASE TriggerCheck(t)
  <2>1. queue[d] # << >> /\ Top(t).pc = "check"
    BY <1>9, <1>11 DEF TriggerCheck, dataVars, At
  <2>2. CASE Top(t).trig = w
    <3> DEFINE f == [Top(t) EXCEPT !.pc = "send"]
    <3>1. f.op = "enqueue" /\ f.pc = "send" /\ f.trig = w
      BY <1>1, <2>2 DEF EnqueueFrame
    <3>2. Continue(t, f)
      BY <1>4, <1>11, <2>2 DEF TriggerCheck
    <3> HIDE DEF f
    <3>3. f \in Frames'
      BY <1>1, <3>2, FramesMove
    <3> QED BY <1>4, <3>1, <3>3 DEF Awake, Wakes
  <2>3. CASE Top(t).trig # w
    <3>1. ~Wakes(Top(t), d, w)
      BY <1>1, <2>1, <2>3 DEF Wakes
    <3> QED BY <1>7, <2>1, <3>1
  <2> QED BY <2>2, <2>3
<1>12. CASE TriggerSend(t)
  <2>1. queue[d] # << >> /\ Top(t).pc = "send"
    BY <1>9, <1>12 DEF TriggerSend, dataVars, At
  <2>2. CASE Top(t).trig = w
    <3>1. async'[w]
      BY <1>4, <1>12, <2>2 DEF TriggerSend, VarTypes, WrapTypes
    <3> QED BY <1>4, <3>1 DEF Awake
  <2>3. CASE Top(t).trig # w
    <3>1. ~Wakes(Top(t), d, w)
      BY <1>1, <2>1, <2>3 DEF Wakes
    <3> QED BY <1>7, <2>1, <3>1
  <2> QED BY <2>2, <2>3
<1> QED BY <1>8, <1>10, <1>11, <1>12

\* The pump looks again, or makes the handle run again.
LEMMA PumpWoken ==
  ASSUME NoLostWakeup, AttachedInv, VarTypes, StackType, NEW t \in Threads,
         PumpMessage(t) \/ PumpReturn(t) \/ PumpClose(t) \/ PumpEnd(t)
  PROVE  NoLostWakeup'
<1>1. stack[t] # << >> /\ Top(t).op = "pump" /\ Top(t) \in PumpFrame
  BY TopType DEF PumpMessage, PumpReturn, PumpClose, PumpEnd, At
<1>2. Top(t).wrap \in Wraps
  BY <1>1 DEF PumpFrame
<1>3. Return(t) \/ \E f : Continue(t, f)
  BY Zenon DEF PumpMessage, PumpReturn, PumpClose, PumpEnd
<1>4. Frames \subseteq Frames' \cup {Top(t)}
  BY <1>1, <1>3, FramesMove
<1>5. CASE PumpMessage(t) \/ PumpReturn(t)
  <2>1. PICK f : Continue(t, f) /\ f.op = "pump" /\ f.force = Top(t).force /\ f.wrap = Top(t).wrap
    <3>1. CASE PumpReturn(t)
      <4> DEFINE f == [Top(t) EXCEPT !.pc = "loop"]
      <4>1. f.op = "pump" /\ f.force = Top(t).force /\ f.wrap = Top(t).wrap
        BY <1>1 DEF PumpFrame
      <4>2. Continue(t, f)
        BY <3>1 DEF PumpReturn
      <4> HIDE DEF f
      <4> QED BY <4>1, <4>2
    <3>2. CASE PumpMessage(t)
      <4> DEFINE f == [Top(t) EXCEPT !.pc = "emit",
                         !.left = IF Top(t).force THEN @ ELSE @ - 1]
      <4>1. f.op = "pump" /\ f.force = Top(t).force /\ f.wrap = Top(t).wrap
        BY <1>1 DEF PumpFrame
      <4>2. Continue(t, f)
        BY <3>2 DEF PumpMessage
      <4> HIDE DEF f
      <4> QED BY <4>1, <4>2
    <3> QED BY <1>5, <3>1, <3>2
  <2>2. f \in Frames'
    BY <1>1, <2>1, FramesMove
  <2>3. \A x \in Frames : \A e \in Datas : \A v \in Wraps :
          Wakes(x, e, v) => \E h \in Frames' : Wakes(h, e, v)
    <3> SUFFICES ASSUME NEW x \in Frames, NEW e \in Datas, NEW v \in Wraps, Wakes(x, e, v)
                 PROVE  \E h \in Frames' : Wakes(h, e, v)
      OBVIOUS
    <3>1. CASE x \in Frames'
      BY <3>1
    <3>2. CASE x = Top(t)
      <4>1. Wakes(f, e, v)
        BY <1>1, <2>1, <3>2 DEF Wakes
      <4> QED BY <2>2, <4>1
    <3> QED BY <1>4, <3>1, <3>2
  <2>4. CASE PumpReturn(t)
    <3>1. UNCHANGED <<attached, queue, state, async>>
      BY <2>4 DEF PumpReturn, dataVars, wrapVars
    <3> SUFFICES ASSUME NEW e \in Datas, Open(e)' PROVE Awake(e)'
      BY WakePartsNext
    <3>2. Open(e) /\ attached[e] \in Wraps
      BY <3>1 DEF Open, VarTypes, DataTypes
    <3>3. Awake(e)
      BY <3>2, WakeParts
    <3> QED BY <2>3, <3>1, <3>2, <3>3 DEF Awake
  <2>5. CASE PumpMessage(t)
    <3>1. data[Top(t).wrap] \in Datas /\ queue[data[Top(t).wrap]] # << >>
      BY <1>2, <2>5 DEF PumpMessage, PumpHas, VarTypes, WrapTypes
    <3>2. \E r \in BOOLEAN : TakeMessage(t, data[Top(t).wrap], r)
      BY <2>5, ConstantsAssumption DEF PumpMessage
    <3> QED BY <2>3, <3>1, <3>2, TakeMessageWoken
  <2> QED BY <1>5, <2>4, <2>5
<1>6. CASE PumpClose(t) \/ PumpEnd(t)
  <2> SUFFICES ASSUME NEW d \in Datas, Open(d)' PROVE Awake(d)'
    BY WakePartsNext
  <2> DEFINE w == attached[d]
             x == Top(t).wrap
  <2>1. UNCHANGED attached
    BY <1>6 DEF PumpClose, PumpEnd, dataVars
  <2>2. w \in Wraps /\ attached'[d] = w
    BY <2>1 DEF Open, VarTypes, DataTypes
  <2>3. CASE PumpClose(t)
    <3>1. TakeClose(x) /\ async' = async
      BY <2>3 DEF PumpClose
    <3>2. Open(d) /\ w # x
      BY <1>2, <2>2, <3>1 DEF Open, TakeClose, BeginClosePort, VarTypes, DataTypes, WrapTypes
    <3>3. Awake(d)
      BY <3>2, WakeParts
    <3>4. ~Wakes(Top(t), d, w)
      BY <1>1, <3>2 DEF Wakes
    <3> QED BY <1>4, <2>2, <3>1, <3>3, <3>4 DEF Awake
  <2>4. CASE PumpEnd(t)
    <3>1. /\ async' = IF PumpAgain(Top(t)) THEN [async EXCEPT ![attached[data[x]]] = TRUE] ELSE async
          /\ UNCHANGED <<queue, state>>
      BY <2>4 DEF PumpEnd, dataVars
    <3>2. async[w] => async'[w]
      BY <2>2, <3>1 DEF VarTypes, WrapTypes
    <3>3. Open(d)
      BY <2>2, <3>1 DEF Open
    <3>4. Awake(d)
      BY <3>3, WakeParts
    <3>5. CASE Wakes(Top(t), d, w)
      <4>1. ~Top(t).force /\ x = w
        BY <1>1, <3>5 DEF Wakes
      <4>2. data[w] = d
        BY <3>3 DEF Open, AttachedInv
      <4>3. PumpAgain(Top(t)) /\ attached[data[x]] = w
        BY <3>3, <4>1, <4>2, ConstantsAssumption DEF Open, PumpAgain
      <4>4. async'[w]
        BY <2>2, <3>1, <4>3 DEF VarTypes, WrapTypes
      <4> QED BY <2>2, <4>4 DEF Awake
    <3>6. CASE ~Wakes(Top(t), d, w)
      BY <1>4, <2>2, <3>2, <3>4, <3>6 DEF Awake
    <3> QED BY <3>5, <3>6
  <2> QED BY <1>6, <2>3, <2>4
<1> QED BY <1>5, <1>6

\* Callbacks of the event loop and garbage collection lose no wakeup.
LEMMA EventWoken ==
  ASSUME NoLostWakeup, VarTypes, StackType, NEW t \in Threads, NEW w \in Wraps,
         AsyncCallback(t, w) \/ CloseCallback(t, w) \/ Finalize(t, w)
  PROVE  NoLostWakeup'
<1>1. CASE AsyncCallback(t, w)
  <2>1. PICK k : Push(t, Pump(w, FALSE, k))
    BY <1>1, Zenon DEF AsyncCallback
  <2>2. /\ UNCHANGED <<attached, queue, state>>
        /\ \A v \in Wraps \ {w} : async'[v] = async[v]
    BY <1>1 DEF AsyncCallback, dataVars, VarTypes, WrapTypes
  <2> DEFINE f == Pump(w, FALSE, k)
  <2>3. f.op = "pump" /\ ~f.force /\ f.wrap = w
    BY DEF Pump
  <2> HIDE DEF f
  <2>4. f \in Frames' /\ Frames \subseteq Frames'
    BY <2>1, FramesMove DEF f
  <2> SUFFICES ASSUME NEW d \in Datas, Open(d)' PROVE Awake(d)'
    BY WakePartsNext
  <2>5. Open(d) /\ attached[d] \in Wraps
    BY <2>2 DEF Open, VarTypes, DataTypes
  <2>6. Awake(d)
    BY <2>5, WakeParts
  <2>7. CASE attached[d] = w
    BY <2>2, <2>3, <2>4, <2>7 DEF Awake, Wakes
  <2>8. CASE attached[d] # w
    BY <2>2, <2>4, <2>5, <2>6, <2>8 DEF Awake
  <2> QED BY <2>7, <2>8
<1>2. CASE CloseCallback(t, w)
  <2>1. \E f : Push(t, f)
    BY <1>2, Zenon DEF CloseCallback
  <2>2. Calm
    BY <1>2 DEF CloseCallback, Calm, VarTypes, WrapTypes
  <2> QED BY <2>1, <2>2, StepLosesNone, CalmKept
<1>3. CASE Finalize(t, w)
  <2>1. LosesNone
    BY <1>3, StepLosesNone DEF Finalize
  <2>2. Calm
    BY <1>3 DEF Finalize, Delete, Calm, VarTypes, DataTypes, WrapTypes
  <2> QED BY <2>1, <2>2, CalmKept
<1> QED BY <1>1, <1>2, <1>3

\* No wakeup is lost, for any number of threads, ports and messages: whenever
\* an open port has messages, its handle is pending, it is being pumped, or a
\* poster is on its way to TriggerPortAsync, however the posts, the transfers
\* and the port's own pump interleave.
THEOREM WakeupsKept == Spec => []NoLostWakeup
<1>1. Init => NoLostWakeup
  BY DEF Init, NoLostWakeup
<1>2. TypeOK /\ AttachedInv /\ OnlyBorn /\ NoLostWakeup /\ [Next]_vars => NoLostWakeup'
  <2> SUFFICES ASSUME TypeOK, AttachedInv, OnlyBorn, NoLostWakeup, [Next]_vars PROVE NoLostWakeup'
    OBVIOUS
  <2>1. VarTypes /\ StackType
    BY TypeParts
  <2>2. CASE UNCHANGED vars
    <3>1. Calm /\ UNCHANGED stack
      BY <2>2 DEF vars, dataVars, wrapVars, Calm
    <3> QED BY <2>1, <3>1, CalmKept DEF LosesNone, Frames
  <2>3. ASSUME NEW t \in Threads, EnvCleanup(t)
        PROVE  NoLostWakeup'
    <3>1. Calm /\ UNCHANGED stack
      BY <2>1, <2>3 DEF EnvCleanup, dataVars, Calm, VarTypes, WrapTypes
    <3> QED BY <2>1, <3>1, CalmKept DEF LosesNone, Frames
  <2> QED BY <2>1, <2>2, <2>3, ScriptWoken, PostCloseWoken, EnqueueWoken, PumpWoken, EventWoken
          DEF Next, Proceed
<1> QED BY <1>1, <1>2, TypeCorrect, AttachedHeld, BornHeld, PTL DEF Spec


=============================================================================
