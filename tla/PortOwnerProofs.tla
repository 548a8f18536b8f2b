-------------------------- MODULE PortOwnerProofs --------------------------
(***************************************************************************)
(* Proofs about the owner of a Data and the two ends of a channel in       *)
(* MessagePort, for every set of threads, ports and bounds and for clones  *)
(* that run no JavaScript.  In the first part a Data has one owner, and a  *)
(* closed Data stays closed; the inductive invariant is FrameInv (what the *)
(* frames of the stacks wait for and whose wraps they use) with OwnInv (who*)
(* holds a Data, and which Datas are closed).  ShutInv is about the time   *)
(* between the closing of a wrap and that of its Data.  The second part is *)
(* about the links between Datas.                                          *)
(***************************************************************************)
EXTENDS MessagePortProofs, FiniteSetTheorems

(***************************************************************************)
(* The running frame and the frames below it                               *)
(***************************************************************************)

\* A frame that waits for JavaScript it has called, or for a frame above it.
Paused(f) ==
  \/ f.op = "post" /\ f.pc \in {"push", "warn"}
  \/ f.op = "pump" /\ f.pc = "emit"
  \/ f.op = "close" /\ f.pc = "onclose"

\* JavaScript may run on thread t.
Resting(t) == stack[t] = << >> \/ Paused(Top(t))
Running(t, f) == stack[t] # << >> /\ Top(t) = f
Below == \A t \in Threads : \A i \in DOMAIN stack[t] :
  i = Len(stack[t]) \/ Paused(stack[t][i])

\* What is the case of the frame x of the thread t, with the threads, states of
\* the wraps and environments th, st and cl.
FrameSound(x, t, th, st, cl) ==
  /\ x.op # "enqueue" => th[x.wrap] = t /\ st[x.wrap] # "Unborn"
  /\ x.op = "post" /\ x.xwrap # None => th[x.xwrap] = t /\ st[x.xwrap] # "Unborn"
  /\ x.op = "close" => st[x.wrap] \in {"Closed", "Deleted"}
  /\ cl[t] => x.op \in {"close", "enqueue"}
  /\ x.op = "join" => Twin[x.own] = x.own
  /\ x.op = "post" /\ x.pc = "push" => x.xdata = None /\ \A p \in x.targets : Twin[p] = p
  /\ x.op = "post" /\ x.pc = "detach" => \A p, q \in x.targets : Twin[p] = p \/ p = q
FramesSound == \A t \in Threads : \A x : In(x, stack[t]) => FrameSound(x, t, thread, state, cleanup)

\* A stack that grows, loses its last frame, or has it replaced.
LEMMA TopOps ==
  ASSUME NEW S, NEW s \in Seq(S), NEW f \in S
  PROVE  /\ Append(s, f) # << >> /\ Append(s, f)[Len(Append(s, f))] = f
         /\ \A i \in DOMAIN Append(s, f) : i = Len(Append(s, f)) \/ (i \in DOMAIN s /\ Append(s, f)[i] = s[i])
<1>1. Len(s) \in Nat /\ DOMAIN s = 1..Len(s)
  BY LenProperties
<1>2. /\ Append(s, f) \in Seq(S) /\ Len(Append(s, f)) = Len(s) + 1
      /\ Append(s, f)[Len(s) + 1] = f
      /\ \A i \in 1..Len(s) : Append(s, f)[i] = s[i]
  BY <1>1
<1>3. DOMAIN Append(s, f) = 1..(Len(s) + 1)
  BY <1>2, LenProperties
<1>4. \A i \in 1..(Len(s) + 1) : i = Len(s) + 1 \/ i \in 1..Len(s)
  BY <1>1
<1>5. Append(s, f) # << >>
  BY <1>1, <1>2
<1> QED BY <1>1, <1>2, <1>3, <1>4, <1>5

\* A stack that loses its last frame.
LEMMA PopOps ==
  ASSUME NEW S, NEW s \in Seq(S), s # << >>
  PROVE  /\ Pop(s) \in Seq(S)
         /\ \A i \in DOMAIN Pop(s) : i \in DOMAIN s /\ i # Len(s) /\ Pop(s)[i] = s[i]
         /\ Pop(s) # << >> => Len(Pop(s)) \in DOMAIN Pop(s)
<1>1. Len(s) \in Nat /\ DOMAIN s = 1..Len(s) /\ \A i \in 1..Len(s) : s[i] \in S
  BY ElementOfSeq, LenProperties
<1>2. Len(s) # 0
  BY EmptySeq
<1> DEFINE n == Len(s) - 1
<1>3. n \in Nat /\ n + 1 = Len(s) /\ n <= Len(s)
  BY <1>1, <1>2
<1>4. \A i \in 1..n : s[i] \in S /\ 1 + i - 1 = i
  BY <1>1, <1>3
<1> DEFINE p == SubSeq(s, 1, n)
<1>5. p \in Seq(S) /\ Len(p) = n /\ \A i \in 1..n : p[i] = s[i]
  <2>1. (\A i \in 1..n : s[i] \in S) /\ 1 \in Int /\ n \in Int
    BY <1>3, <1>4
  <2> HIDE DEF n
  <2>2. /\ p \in Seq(S)
        /\ Len(p) = IF 1 <= n THEN n - 1 + 1 ELSE 0
        /\ \A i \in 1..n - 1 + 1 : p[i] = s[1 + i - 1]
    BY <2>1, SubSeqProperties
  <2> HIDE DEF p
  <2>3. n - 1 + 1 = n /\ (IF 1 <= n THEN n - 1 + 1 ELSE 0) = n
    BY <1>3
  <2> QED BY <1>4, <2>2, <2>3
<1>6. Pop(s) = p
  BY DEF Pop
<1> HIDE DEF p, n
<1>7. DOMAIN p = 1..n
  BY <1>5, LenProperties
<1>8. \A i \in 1..n : i \in 1..Len(s) /\ i # Len(s)
  <2>1. \A m \in Nat : \A i \in 1..m : i \in 1..(m + 1) /\ i # m + 1
    OBVIOUS
  <2> QED BY <1>3, <2>1
<1>9. p # << >> => Len(p) \in 1..n
  <2>1. p # << >> => Len(p) # 0
    BY <1>5, EmptySeq
  <2> QED BY <1>3, <1>5, <2>1
<1> QED BY <1>1, <1>5, <1>6, <1>7, <1>8, <1>9

\* Which frame is on top after a step of the stack of t; what is below it is
\* paused.
LEMMA TopMove ==
  ASSUME StackType, Below, NEW t \in Threads, NEW f, NEW g
  PROVE  /\ Resting(t) /\ Push(t, f) => Below' /\ stack'[t] # << >> /\ Top(t)' = f
         /\ stack[t] # << >> /\ Return(t) => Below' /\ Resting(t)'
         /\ stack[t] # << >> /\ Continue(t, f) => Below' /\ stack'[t] # << >> /\ Top(t)' = f
         /\ stack[t] # << >> /\ Paused(f) /\ Call(t, f, g) => Below' /\ stack'[t] # << >> /\ Top(t)' = g
<1> DEFINE S == Frame \cup {f, g}
           s == stack[t]
           Low(r) == \A i \in DOMAIN r : i = Len(r) \/ Paused(r[i])
<1>1. s \in Seq(S) /\ f \in S /\ g \in S
  <2>1. s \in Seq(Frame)
    BY DEF StackType
  <2> HIDE DEF s
  <2> QED BY <2>1
<1>2. Low(s)
  BY DEF Below
<1>3. ASSUME NEW r, stack' = [stack EXCEPT ![t] = r], Low(r)
      PROVE  Below' /\ stack'[t] = r
  <2>1. stack'[t] = r /\ DOMAIN stack' = Threads /\ \A u \in Threads \ {t} : stack'[u] = stack[u]
    BY <1>3 DEF StackType
  <2> QED BY <1>3, <2>1 DEF Below
<1> HIDE DEF S
<1>4. ASSUME NEW r \in Seq(S), Low(r), r = << >> \/ Paused(r[Len(r)]), NEW h \in S
      PROVE  Low(Append(r, h)) /\ Append(r, h) # << >> /\ Append(r, h)[Len(Append(r, h))] = h
  <2>1. /\ Append(r, h) # << >> /\ Append(r, h)[Len(Append(r, h))] = h
        /\ \A i \in DOMAIN Append(r, h) :
             i = Len(Append(r, h)) \/ (i \in DOMAIN r /\ Append(r, h)[i] = r[i])
    BY TopOps
  <2>2. \A i \in DOMAIN r : Paused(r[i])
    <3>1. CASE r = << >>
      BY <3>1
    <3>2. CASE Paused(r[Len(r)])
      BY <1>4, <3>2
    <3> QED BY <1>4, <3>1, <3>2
  <2> QED BY <2>1, <2>2
<1>5. s # << >> =>
        Pop(s) \in Seq(S) /\ Low(Pop(s)) /\ (Pop(s) = << >> \/ Paused(Pop(s)[Len(Pop(s))]))
  <2> SUFFICES ASSUME s # << >>
               PROVE  Pop(s) \in Seq(S) /\ Low(Pop(s)) /\ (Pop(s) = << >> \/ Paused(Pop(s)[Len(Pop(s))]))
    OBVIOUS
  <2> HIDE DEF s
  <2>1. /\ Pop(s) \in Seq(S)
        /\ \A i \in DOMAIN Pop(s) : i \in DOMAIN s /\ i # Len(s) /\ Pop(s)[i] = s[i]
        /\ Pop(s) # << >> => Len(Pop(s)) \in DOMAIN Pop(s)
    BY <1>1, PopOps
  <2> QED BY <1>2, <2>1
<1>6. ASSUME NEW r, stack'[t] = r PROVE (r # << >> => Top(t)' = r[Len(r)])
  BY <1>6 DEF Top
<1>7. ASSUME Resting(t), Push(t, f) PROVE Below' /\ stack'[t] # << >> /\ Top(t)' = f
  <2>1. stack' = [stack EXCEPT ![t] = Append(s, f)]
    BY <1>7 DEF Push
  <2>2. s = << >> \/ Paused(s[Len(s)])
    BY <1>7 DEF Resting, Top
  <2> HIDE DEF s
  <2>3. Low(Append(s, f)) /\ Append(s, f) # << >> /\ Append(s, f)[Len(Append(s, f))] = f
    BY <1>1, <1>2, <1>4, <2>2
  <2> HIDE DEF Low
  <2> DEFINE r == Append(s, f)
  <2> HIDE DEF r
  <2>4. stack' = [stack EXCEPT ![t] = r] /\ Low(r) /\ r # << >> /\ r[Len(r)] = f
    BY <2>1, <2>3 DEF r
  <2> QED BY <1>3, <1>6, <2>4
<1>8. ASSUME s # << >>, Return(t) PROVE Below' /\ Resting(t)'
  <2>1. stack' = [stack EXCEPT ![t] = Pop(s)]
    BY <1>8 DEF Return
  <2> DEFINE r == Pop(s)
  <2> HIDE DEF s, Low, r
  <2>2. stack' = [stack EXCEPT ![t] = r] /\ Low(r) /\ (r = << >> \/ Paused(r[Len(r)]))
    BY <1>5, <1>8, <2>1 DEF r
  <2>3. Below' /\ stack'[t] = r
    BY <1>3, <2>2
  <2> QED BY <1>6, <2>2, <2>3 DEF Resting
<1>9. ASSUME s # << >>, NEW h \in S
      PROVE  /\ Goto(s, h) \in Seq(S) /\ Low(Goto(s, h)) /\ Goto(s, h) # << >>
             /\ Goto(s, h)[Len(Goto(s, h))] = h
  <2> DEFINE p == Pop(s)
  <2>1. p \in Seq(S) /\ Low(p) /\ (p = << >> \/ Paused(p[Len(p)]))
    BY <1>5, <1>9
  <2>2. Goto(s, h) = Append(p, h)
    BY DEF Goto
  <2> HIDE DEF s, p
  <2>3. Low(Append(p, h)) /\ Append(p, h) # << >> /\ Append(p, h)[Len(Append(p, h))] = h
    BY <1>4, <2>1
  <2>4. Append(p, h) \in Seq(S)
    BY <2>1
  <2> QED BY <2>2, <2>3, <2>4
<1>10. ASSUME s # << >>, Continue(t, f) PROVE Below' /\ stack'[t] # << >> /\ Top(t)' = f
  <2>1. stack' = [stack EXCEPT ![t] = Goto(s, f)]
    BY <1>10 DEF Continue
  <2> DEFINE r == Goto(s, f)
  <2>2. stack' = [stack EXCEPT ![t] = r] /\ Low(r) /\ r # << >> /\ r[Len(r)] = f
    BY <1>1, <1>9, <1>10, <2>1
  <2> HIDE DEF s, Low, r
  <2> QED BY <1>3, <1>6, <2>2
<1>11. ASSUME s # << >>, Paused(f), Call(t, f, g) PROVE Below' /\ stack'[t] # << >> /\ Top(t)' = g
  <2> DEFINE q == Goto(s, f)
             r == Append(q, g)
  <2>1. stack' = [stack EXCEPT ![t] = r]
    BY <1>11 DEF Call
  <2>2. q \in Seq(S) /\ Low(q) /\ q # << >> /\ q[Len(q)] = f
    BY <1>1, <1>9, <1>11
  <2> HIDE DEF s, q
  <2>3. Low(r) /\ r # << >> /\ r[Len(r)] = g
    BY <1>1, <1>4, <1>11, <2>2
  <2> HIDE DEF Low, r
  <2> QED BY <1>3, <1>6, <2>1, <2>3
<1> QED BY <1>7, <1>8, <1>10, <1>11

\* The other stacks stay, and the frames of this one are old or new.
LEMMA StacksMove ==
  ASSUME StackType, NEW t \in Threads, NEW f, NEW g,
         \/ UNCHANGED stack
         \/ Push(t, f)
         \/ stack[t] # << >> /\ (Return(t) \/ Continue(t, f) \/ Call(t, f, g))
  PROVE  /\ \A u \in Threads \ {t} : stack'[u] = stack[u]
         /\ \A x : In(x, stack'[t]) => \/ In(x, stack[t])
                                       \/ x = f /\ (Push(t, f) \/ Continue(t, f) \/ Call(t, f, g))
                                       \/ x = g /\ Call(t, f, g)
         /\ stack[t] # << >> => In(Top(t), stack[t])
<1> DEFINE S == Frame \cup {f, g}
           s == stack[t]
<1>1. s \in Seq(S) /\ f \in S /\ g \in S
  <2>1. s \in Seq(Frame)
    BY DEF StackType
  <2> HIDE DEF s
  <2> QED BY <2>1
<1> HIDE DEF S
<1>2. \A r : [stack EXCEPT ![t] = r][t] = r /\ \A u \in Threads \ {t} : [stack EXCEPT ![t] = r][u] = stack[u]
  BY DEF StackType
<1>3. s # << >> => Pop(s) \in Seq(S) /\ (\A x : In(x, Pop(s)) => In(x, s)) /\ In(Top(t), s)
  <2> SUFFICES ASSUME s # << >>
               PROVE  Pop(s) \in Seq(S) /\ (\A x : In(x, Pop(s)) => In(x, s)) /\ In(Top(t), s)
    OBVIOUS
  <2>1. Top(t) = s[Len(s)]
    BY DEF Top
  <2> HIDE DEF s
  <2> QED BY <1>1, <2>1, PopMove DEF In
<1>4. CASE UNCHANGED stack
  BY <1>3, <1>4
<1>5. CASE Push(t, f)
  <2>1. stack' = [stack EXCEPT ![t] = Append(s, f)]
    BY <1>5 DEF Push
  <2>2. \A x : In(x, Append(s, f)) <=> x = f \/ In(x, s)
    <3> HIDE DEF s
    <3> QED BY <1>1, AppendMove
  <2> QED BY <1>2, <1>3, <1>5, <2>1, <2>2
<1>6. CASE s # << >> /\ Return(t)
  <2>1. stack' = [stack EXCEPT ![t] = Pop(s)]
    BY <1>6 DEF Return
  <2> QED BY <1>2, <1>3, <1>6, <2>1
<1>7. ASSUME s # << >> PROVE \A x : In(x, Goto(s, f)) <=> x = f \/ In(x, Pop(s))
  <2> DEFINE p == Pop(s)
  <2>1. p \in Seq(S) /\ Goto(s, f) = Append(p, f)
    BY <1>3, <1>7 DEF Goto
  <2> HIDE DEF s, p
  <2>2. \A x : In(x, Append(p, f)) <=> x = f \/ In(x, p)
    BY <1>1, <2>1, AppendMove
  <2> QED BY <2>1, <2>2 DEF p
<1>8. CASE s # << >> /\ Continue(t, f)
  <2>1. stack' = [stack EXCEPT ![t] = Goto(s, f)]
    BY <1>8 DEF Continue
  <2> QED BY <1>2, <1>3, <1>7, <1>8, <2>1
<1>9. CASE s # << >> /\ Call(t, f, g)
  <2>1. stack' = [stack EXCEPT ![t] = Append(Goto(s, f), g)]
    BY <1>9 DEF Call
  <2> DEFINE p == Pop(s)
  <2>2. \A x : In(x, Append(Goto(s, f), g)) <=> x = f \/ x = g \/ In(x, p)
    <3>1. p \in Seq(S) /\ Goto(s, f) = Append(p, f)
      BY <1>3, <1>9 DEF Goto
    <3> HIDE DEF s, p
    <3>2. \A x : In(x, Append(Append(p, f), g)) <=> x = f \/ x = g \/ In(x, p)
      BY <1>1, <3>1, AppendTwo
    <3> QED BY <3>1, <3>2
  <2> QED BY <1>2, <1>3, <1>9, <2>1, <2>2
<1> QED BY <1>4, <1>5, <1>6, <1>8, <1>9

(***************************************************************************)
(* The life of a wrap                                                      *)
(***************************************************************************)

\* What a step of thread t may do to the wrap w: make it, close it, take its
\* Data away or delete it, and nothing to a wrap of another thread.
WrapMove(t, w) ==
  \/ state'[w] = state[w] /\ thread'[w] = thread[w] /\ data'[w] = data[w]
  \/ /\ thread'[w] = t
     /\ \/ state[w] = "Unborn" /\ state'[w] = "Initialized" /\ ~cleanup[t]
        \/ /\ thread[w] = t
           /\ \/ state[w] = "Initialized" /\ state'[w] = "Closing" /\ data'[w] \in {data[w], None}
              \/ state[w] = "Closing" /\ state'[w] = "Closed" /\ data'[w] = data[w]
              \/ state[w] \in {"Closed", "Deleted"} /\ state'[w] = "Deleted" /\ data'[w] = None

\* Only a wrap that exists has a Data; none is open in an environment that is
\* cleaned up.
WrapsSound == \A w \in Wraps :
  /\ data[w] # None => Live(w)
  /\ state[w] = "Initialized" => ~cleanup[thread[w]]

\* Links and groups of Datas.
TwinsSound ==
  /\ \A d \in Datas : sibling[d] # None => sibling[d] = Twin[d] /\ Twin[d] # d
  /\ \A g \in Groups : \A d \in members[g] : Twin[d] = d

FrameInv == Below /\ FramesSound /\ WrapsSound /\ TwinsSound

\* One frame comes.
LEMMA FramesOne ==
  ASSUME StackType, NEW t \in Threads, NEW f,
         Push(t, f) \/ (stack[t] # << >> /\ Continue(t, f))
  PROVE  \A x : In(x, stack'[t]) => In(x, stack[t]) \/ x = f
<1> DEFINE S == Frame \cup {f}
           s == stack[t]
           p == Pop(s)
<1>1. s \in Seq(S) /\ f \in S
  <2>1. s \in Seq(Frame)
    BY DEF StackType
  <2> HIDE DEF s
  <2> QED BY <2>1
<1>2. CASE Push(t, f)
  <2>1. stack'[t] = Append(s, f)
    BY <1>2 DEF Push, StackType
  <2> HIDE DEF s, S
  <2>2. \A x : In(x, Append(s, f)) <=> x = f \/ In(x, s)
    BY <1>1, AppendMove
  <2> QED BY <2>1, <2>2 DEF s
<1>3. CASE s # << >> /\ Continue(t, f)
  <2>1. stack'[t] = Append(p, f)
    BY <1>3 DEF Continue, Goto, StackType
  <2> HIDE DEF s, S
  <2>2. p \in Seq(S) /\ \A x : In(x, p) => In(x, s)
    BY <1>1, <1>3, PopMove
  <2> HIDE DEF p
  <2>3. \A x : In(x, Append(p, f)) <=> x = f \/ In(x, p)
    BY <1>1, <2>2, AppendMove
  <2> QED BY <2>1, <2>2, <2>3 DEF s
<1> QED BY <1>2, <1>3

\* Frames stay sound when wraps age and the new ones are sound.
LEMMA FramesSoundStep ==
  ASSUME FrameInv, VarTypes, StackType, NEW t \in Threads, NEW f, NEW g,
         \A w \in Wraps : WrapMove(t, w), UNCHANGED cleanup,
         \/ UNCHANGED stack
         \/ /\ Resting(t) /\ Push(t, f)
            /\ FrameSound(f, t, thread', state', cleanup')
         \/ stack[t] # << >> /\ Return(t)
         \/ /\ stack[t] # << >> /\ Continue(t, f)
            /\ FrameSound(f, t, thread', state', cleanup')
         \/ /\ stack[t] # << >> /\ Paused(f) /\ Call(t, f, g)
            /\ FrameSound(f, t, thread', state', cleanup')
            /\ FrameSound(g, t, thread', state', cleanup')
  PROVE  Below' /\ FramesSound'
<1>1. Below'
  <2>1. CASE UNCHANGED stack
    BY <2>1 DEF FrameInv, Below
  <2>2. Below
    BY DEF FrameInv
  <2> QED BY <2>1, <2>2, TopMove
<1>2. /\ \A u \in Threads \ {t} : stack'[u] = stack[u]
      /\ \A x : In(x, stack'[t]) => \/ In(x, stack[t])
                                    \/ FrameSound(x, t, thread', state', cleanup')
  <2>1. /\ \A u \in Threads \ {t} : stack'[u] = stack[u]
        /\ \A x : In(x, stack'[t]) => \/ In(x, stack[t])
                                      \/ x = f /\ (Push(t, f) \/ Continue(t, f) \/ Call(t, f, g))
                                      \/ x = g /\ Call(t, f, g)
    BY StacksMove
  <2>2. CASE FrameSound(f, t, thread', state', cleanup') /\ FrameSound(g, t, thread', state', cleanup')
    BY <2>1, <2>2
  <2>3. CASE UNCHANGED stack
    BY <2>3
  <2>4. CASE stack[t] # << >> /\ Return(t)
    <3>1. \A x : In(x, stack'[t]) => In(x, stack[t])
      <4>1. stack[t] \in Seq(Frame) /\ stack'[t] = Pop(stack[t])
        BY <2>4 DEF StackType, Return
      <4> QED BY <2>4, <4>1, PopMove
    <3> QED BY <2>1, <3>1
  <2>5. ASSUME stack[t] # << >> \/ Resting(t), Push(t, f) \/ Continue(t, f),
               Push(t, f) \/ stack[t] # << >>,
               FrameSound(f, t, thread', state', cleanup')
        PROVE  \A x : In(x, stack'[t]) => In(x, stack[t]) \/ FrameSound(x, t, thread', state', cleanup')
    <3>1. \A x : In(x, stack'[t]) => In(x, stack[t]) \/ x = f
      BY <2>5, StacksMove, FramesOne
    <3> QED BY <2>5, <3>1
  <2> QED BY <2>1, <2>2, <2>3, <2>4, <2>5
<1>3. ASSUME NEW u \in Threads, NEW x, In(x, stack[u])
      PROVE  FrameSound(x, u, thread', state', cleanup')
  <2>1. FrameSound(x, u, thread, state, cleanup)
    BY <1>3 DEF FrameInv, FramesSound
  <2>2. /\ x.op # "enqueue" => x.wrap \in Wraps
        /\ x.op = "post" => x.xwrap \in Wraps \cup {None}
    <3>1. x \in Frame
      <4>1. stack[u] \in Seq(Frame)
        BY DEF StackType
      <4> QED BY <1>3, <4>1, ElementOfSeq, LenProperties DEF In
    <3> QED BY <3>1 DEF Frame, PostFrame, EnqueueFrame, JoinFrame, CloseFrame, PumpFrame
  <2>3. \A w \in Wraps : state[w] # "Unborn" => state'[w] # "Unborn" /\ thread'[w] = thread[w]
    BY DEF WrapMove
  <2>4. \A w \in Wraps : state[w] \in {"Closed", "Deleted"} => state'[w] \in {"Closed", "Deleted"}
    BY DEF WrapMove
  <2> QED BY <2>1, <2>2, <2>3, <2>4 DEF FrameSound
<1> QED BY <1>1, <1>2, <1>3 DEF FramesSound


\* WrapMoves keep WrapsSound.
LEMMA WrapsSoundStep ==
  ASSUME WrapsSound, VarTypes, NEW t \in Threads, \A w \in Wraps : WrapMove(t, w),
         UNCHANGED cleanup
  PROVE  WrapsSound'
<1>1. ASSUME NEW w \in Wraps
      PROVE  /\ data'[w] # None => state'[w] \in {"Initialized", "Closing", "Closed"}
             /\ state'[w] = "Initialized" => ~cleanup'[thread'[w]]
  <2>1. WrapMove(t, w) /\ (data[w] # None => state[w] \in {"Initialized", "Closing", "Closed"})
        /\ (state[w] = "Initialized" => ~cleanup[thread[w]])
    BY DEF WrapsSound, Live
  <2>2. CASE state'[w] = state[w] /\ thread'[w] = thread[w] /\ data'[w] = data[w]
    BY <2>1, <2>2
  <2>3. CASE thread'[w] = t /\ state[w] = "Unborn" /\ state'[w] = "Initialized" /\ ~cleanup[t]
    BY <2>1, <2>3
  <2>4. CASE thread[w] = t /\ state[w] = "Initialized" /\ state'[w] = "Closing"
    BY <2>1, <2>4
  <2>5. CASE thread[w] = t /\ state[w] = "Closing" /\ state'[w] = "Closed"
    BY <2>1, <2>5
  <2>6. CASE thread[w] = t /\ state'[w] = "Deleted" /\ data'[w] = None
    BY <2>1, <2>6
  <2> QED BY <2>1, <2>2, <2>3, <2>4, <2>5, <2>6 DEF WrapMove
<1> QED BY <1>1 DEF WrapsSound, Live

\* JavaScript runs only where the running frame, if any, waits for it.
LEMMA JSRests ==
  ASSUME ~CloneRunsJS, NEW t \in Threads, InJS(t)
  PROVE  Resting(t)
BY DEF InJS, Resting, Paused, At

\* A wrap is made for a Data.
LEMMA AdoptMoves ==
  ASSUME VarTypes, NEW t \in Threads, NEW w \in Wraps, NEW p, state[w] = "Unborn", ~cleanup[t],
         thread' = [thread EXCEPT ![w] = t], data' = [data EXCEPT ![w] = p],
         state' = [state EXCEPT ![w] = "Initialized"]
  PROVE  \A v \in Wraps : WrapMove(t, v)
BY DEF WrapMove, VarTypes, WrapTypes

\* The pieces of the handlers move the wraps of their own thread only.
LEMMA ReceiveMoves ==
  ASSUME VarTypes, NEW t \in Threads, NEW w \in Wraps, NEW p, ReceivePort(t, w, p), ~cleanup[t]
  PROVE  \A v \in Wraps : WrapMove(t, v)
<1>1. /\ state[w] = "Unborn"
      /\ thread' = [thread EXCEPT ![w] = t] /\ data' = [data EXCEPT ![w] = p]
      /\ state' = [state EXCEPT ![w] = "Initialized"]
  BY DEF ReceivePort, NewWrap
<1> QED BY <1>1, AdoptMoves

\* The same for a message that is taken,
LEMMA TakeMessageMoves ==
  ASSUME VarTypes, NEW t \in Threads, NEW d \in Datas, NEW r \in BOOLEAN, TakeMessage(t, d, r),
         ~cleanup[t]
  PROVE  \A v \in Wraps : WrapMove(t, v)
<1>1. CASE UNCHANGED <<thread, data, state>>
  BY <1>1 DEF WrapMove
<1>2. CASE \E w \in Wraps : ReceivePort(t, w, Head(queue[d]).port)
  BY <1>2, ReceiveMoves
<1> QED BY <1>1, <1>2 DEF TakeMessage

\* a wrap that begins to close,
LEMMA BeginCloseMoves ==
  ASSUME VarTypes, NEW t \in Threads, NEW w \in Wraps, state[w] # "Unborn", thread[w] = t,
         state' = BeginClosePort(w), UNCHANGED <<thread, data>>
  PROVE  \A v \in Wraps : WrapMove(t, v)
BY DEF WrapMove, VarTypes, WrapTypes, BeginClosePort

\* a port that is transferred,
LEMMA DetachMoves ==
  ASSUME VarTypes, NEW t \in Threads, NEW x \in Wraps \cup {None}, x # None => thread[x] = t,
         DetachTransferredPort(x), UNCHANGED thread
  PROVE  \A v \in Wraps : WrapMove(t, v)
<1>1. CASE UNCHANGED <<data, state>>
  BY <1>1 DEF WrapMove
<1>2. CASE /\ x # None /\ Usable(x)
           /\ data'  = [data EXCEPT ![x] = None]
           /\ state' = [state EXCEPT ![x] = "Closing"]
  BY <1>2 DEF WrapMove, VarTypes, WrapTypes, Usable
<1> QED BY <1>1, <1>2 DEF DetachTransferredPort

\* and a wrap that is deleted.
LEMMA DeleteMoves ==
  ASSUME VarTypes, NEW t \in Threads, NEW w \in Wraps, thread[w] = t,
         state[w] \in {"Closed", "Deleted"}, Delete(w), UNCHANGED thread
  PROVE  \A v \in Wraps : WrapMove(t, v)
BY DEF WrapMove, VarTypes, WrapTypes, Delete

\* Calls from JavaScript keep FrameInv.
LEMMA ScriptFrames ==
  ASSUME FrameInv, VarTypes, StackType, ~CloneRunsJS, NEW t \in Threads, Script(t)
  PROVE  FrameInv' /\ \A w \in Wraps : WrapMove(t, w)
<1> USE ConstantsAssumption
<1>0. Resting(t) /\ ~cleanup[t] /\ WrapsSound /\ TwinsSound
  BY JSRests DEF Script, CanCall, FrameInv
<1>1. ASSUME \A w \in Wraps : WrapMove(t, w), UNCHANGED <<stack, cleanup>>, TwinsSound'
      PROVE  FrameInv'
  <2>1. Below' /\ FramesSound'
    BY <1>1, FramesSoundStep
  <2> QED BY <1>0, <1>1, <2>1, WrapsSoundStep DEF FrameInv
<1>2. CASE \E v, w \in Wraps, d \in Datas : MessageChannel(t, v, w, d)
  <2>1. PICK v \in Wraps, w \in Wraps, d \in Datas : MessageChannel(t, v, w, d)
    BY <1>2
  <2>2. /\ state[v] = "Unborn" /\ state[w] = "Unborn"
        /\ state' = [state EXCEPT ![v] = "Initialized", ![w] = "Initialized"]
        /\ thread' = [thread EXCEPT ![v] = t, ![w] = t]
        /\ data' = [data EXCEPT ![v] = d, ![w] = Twin[d]]
        /\ UNCHANGED <<stack, cleanup, members>>
    BY <2>1 DEF MessageChannel, NewWrap, envVars
  <2>3. \A u \in Wraps : WrapMove(t, u)
    BY <1>0, <2>2 DEF WrapMove, VarTypes, WrapTypes
  <2>4. TwinsSound'
    <3>1. sibling' = [sibling EXCEPT ![d] = Twin[d], ![Twin[d]] = d] /\ Twin[d] # d
      BY <2>1 DEF MessageChannel
    <3> QED BY <1>0, <2>2, <3>1 DEF TwinsSound, VarTypes, DataTypes
  <2> QED BY <1>1, <2>2, <2>3, <2>4
<1>3. CASE \E w \in Wraps, d \in Datas, g \in Groups : BroadcastChannel(t, w, d, g)
  <2>1. PICK w \in Wraps, d \in Datas, g \in Groups : BroadcastChannel(t, w, d, g)
    BY <1>3
  <2>2. /\ state[w] = "Unborn"
        /\ state' = [state EXCEPT ![w] = "Initialized"]
        /\ thread' = [thread EXCEPT ![w] = t]
        /\ data' = [data EXCEPT ![w] = d]
        /\ UNCHANGED <<cleanup, sibling, members>> /\ Twin[d] = d
    BY <2>1 DEF BroadcastChannel, NewWrap, envVars
  <2>3. \A u \in Wraps : WrapMove(t, u)
    BY <1>0, <2>2, AdoptMoves
  <2> DEFINE f == [op |-> "join", pc |-> "list", wrap |-> w, own |-> d, group |-> g]
  <2>4. f.op = "join" /\ f.wrap = w /\ f.own = d
    OBVIOUS
  <2>5. Push(t, f)
    BY <2>1 DEF BroadcastChannel
  <2> HIDE DEF f
  <2>6. FrameSound(f, t, thread', state', cleanup')
    BY <1>0, <2>2, <2>4 DEF FrameSound, VarTypes, WrapTypes
  <2>7. Below' /\ FramesSound'
    BY <1>0, <2>2, <2>3, <2>5, <2>6, FramesSoundStep
  <2> QED BY <1>0, <2>2, <2>3, <2>7, WrapsSoundStep DEF FrameInv, TwinsSound
<1>4. CASE \E w \in Wraps, u \in Threads, d \in Datas : StartWorker(t, u, w, d)
  <2>1. PICK w \in Wraps, u \in Threads, d \in Datas : StartWorker(t, u, w, d)
    BY <1>4
  <2>2. /\ state[w] = "Unborn"
        /\ state' = [state EXCEPT ![w] = "Initialized"]
        /\ thread' = [thread EXCEPT ![w] = t]
        /\ data' = [data EXCEPT ![w] = d]
        /\ UNCHANGED <<stack, cleanup, members>>
    BY <2>1 DEF StartWorker, NewWrap
  <2>3. \A v \in Wraps : WrapMove(t, v)
    BY <1>0, <2>2, AdoptMoves
  <2>4. TwinsSound'
    <3>1. sibling' = [sibling EXCEPT ![d] = Twin[d], ![Twin[d]] = d] /\ Twin[d] # d
      BY <2>1 DEF StartWorker
    <3> QED BY <1>0, <2>2, <3>1 DEF TwinsSound, VarTypes, DataTypes
  <2> QED BY <1>1, <2>2, <2>3, <2>4
<1>5. CASE \E w \in Wraps : GetEnvMessagePort(t, w)
  <2>1. PICK w \in Wraps : GetEnvMessagePort(t, w)
    BY <1>5
  <2>2. ReceivePort(t, w, envData[t]) /\ UNCHANGED <<stack, cleanup, members, sibling>>
    BY <2>1 DEF GetEnvMessagePort
  <2>3. \A v \in Wraps : WrapMove(t, v)
    BY <1>0, <2>2, ReceiveMoves
  <2> QED BY <1>0, <1>1, <2>2, <2>3 DEF TwinsSound
<1>6. CASE \E w \in Wraps, x \in Wraps \cup {None} : Own(t, w) /\ PostMessage(t, w, x)
  <2>1. PICK w \in Wraps, x \in Wraps \cup {None} : Own(t, w) /\ PostMessage(t, w, x)
    BY <1>6
  <2> DEFINE f == [op |-> "post", pc |-> "clone", wrap |-> w, xwrap |-> x,
                   xdata |-> IF x = None THEN None ELSE data[x],
                   targets |-> {}, lost |-> FALSE]
  <2>2. Push(t, f) /\ UNCHANGED <<dataVars, wrapVars, envVars>>
    BY <2>1 DEF PostMessage
  <2>3. /\ f.op = "post" /\ f.pc = "clone" /\ f.wrap = w /\ f.xwrap = x
        /\ thread[w] = t /\ state[w] # "Unborn"
        /\ x # None => thread[x] = t /\ state[x] # "Unborn"
    BY <2>1 DEF PostMessage, Transferable, Own, Live
  <2> HIDE DEF f
  <2>4. UNCHANGED <<thread, state, data, cleanup, sibling, members>>
    BY <2>2 DEF dataVars, wrapVars, envVars
  <2>5. FrameSound(f, t, thread', state', cleanup')
    BY <1>0, <2>3, <2>4 DEF FrameSound
  <2>6. \A v \in Wraps : WrapMove(t, v)
    BY <2>4 DEF WrapMove
  <2>7. Below' /\ FramesSound'
    BY <1>0, <2>2, <2>4, <2>5, <2>6, FramesSoundStep
  <2> QED BY <1>0, <2>4, <2>6, <2>7, WrapsSoundStep DEF FrameInv, TwinsSound
<1>7. CASE \E w \in Wraps : DrainMessagePort(t, w)
  <2>1. PICK w \in Wraps : DrainMessagePort(t, w)
    BY <1>7
  <2> DEFINE f == Pump(w, TRUE, 0)
  <2>2. Push(t, f) /\ UNCHANGED <<dataVars, wrapVars, envVars>>
    BY <2>1 DEF DrainMessagePort
  <2>3. f.op = "pump" /\ f.wrap = w /\ thread[w] = t /\ state[w] # "Unborn"
    BY <2>1 DEF DrainMessagePort, Own, Live, Pump
  <2> HIDE DEF f
  <2>4. UNCHANGED <<thread, state, data, cleanup, sibling, members>>
    BY <2>2 DEF dataVars, wrapVars, envVars
  <2>5. FrameSound(f, t, thread', state', cleanup')
    BY <1>0, <2>3, <2>4 DEF FrameSound
  <2>6. \A v \in Wraps : WrapMove(t, v)
    BY <2>4 DEF WrapMove
  <2>7. Below' /\ FramesSound'
    BY <1>0, <2>2, <2>4, <2>5, <2>6, FramesSoundStep
  <2> QED BY <1>0, <2>4, <2>6, <2>7, WrapsSoundStep DEF FrameInv, TwinsSound
<1>8. CASE \E w \in Wraps : ReceiveMessageOnPort(t, w)
  <2>1. PICK w \in Wraps : ReceiveMessageOnPort(t, w)
    BY <1>8
  <2>2. data[w] \in Datas /\ thread[w] = t /\ state[w] # "Unborn"
        /\ UNCHANGED <<stack, cleanup, members, sibling>>
    BY <2>1 DEF ReceiveMessageOnPort, Own, Live, VarTypes, WrapTypes, envVars
  <2>3. \A v \in Wraps : WrapMove(t, v)
    <3>1. CASE TakeClose(w) /\ UNCHANGED <<thread, data, attached, closed, async>>
      BY <2>2, <3>1, BeginCloseMoves DEF TakeClose
    <3>2. CASE \E r \in BOOLEAN : TakeMessage(t, data[w], r)
      BY <1>0, <2>2, <3>2, TakeMessageMoves
    <3> QED BY <2>1, <3>1, <3>2 DEF ReceiveMessageOnPort
  <2> QED BY <1>0, <1>1, <2>2, <2>3 DEF TwinsSound
<1>9. CASE \E w \in Wraps : Start(t, w) \/ Stop(t, w)
  <2>1. UNCHANGED <<thread, state, data, stack, cleanup, sibling, members>>
    BY <1>9 DEF Start, Stop, dataVars, envVars
  <2> QED BY <1>0, <1>1, <2>1 DEF TwinsSound, WrapMove
<1>10. CASE \E w \in Wraps : Close(t, w)
  <2>1. PICK w \in Wraps : Close(t, w)
    BY <1>10
  <2>2. \A v \in Wraps : WrapMove(t, v)
    BY <2>1, BeginCloseMoves DEF Close, Own, Live
  <2>3. UNCHANGED <<stack, cleanup, sibling, members>>
    BY <2>1 DEF Close, dataVars, envVars
  <2> QED BY <1>0, <1>1, <2>2, <2>3 DEF TwinsSound
<1> QED BY <1>2, <1>3, <1>4, <1>5, <1>6, <1>7, <1>8, <1>9, <1>10 DEF Script


\* The running frame is sound.
LEMMA TopSound ==
  ASSUME FramesSound, StackType, NEW t \in Threads, stack[t] # << >>
  PROVE  FrameSound(Top(t), t, thread, state, cleanup)
<1>1. stack[t] \in Seq(Frame)
  BY DEF StackType
<1>2. In(Top(t), stack[t])
  BY <1>1, PopMove DEF Top, In
<1> QED BY <1>2 DEF FramesSound

\* A frame above the same wraps.
LEMMA FrameNext ==
  ASSUME VarTypes, NEW t \in Threads, NEW f, NEW g, FrameSound(f, t, thread, state, cleanup),
         \A w \in Wraps : WrapMove(t, w), UNCHANGED cleanup,
         g.op = f.op, f.op # "enqueue" => g.wrap = f.wrap /\ f.wrap \in Wraps,
         f.op = "post" => g.xwrap = f.xwrap /\ f.xwrap \in Wraps \cup {None},
         f.op = "post" => g.pc = "warn", f.op # "join"
  PROVE  FrameSound(g, t, thread', state', cleanup')
<1>1. \A w \in Wraps : state[w] # "Unborn" => state'[w] # "Unborn" /\ thread'[w] = thread[w]
  BY DEF WrapMove
<1>2. \A w \in Wraps : state[w] \in {"Closed", "Deleted"} => state'[w] \in {"Closed", "Deleted"}
  BY DEF WrapMove
<1> QED BY <1>1, <1>2 DEF FrameSound

\* One more target of a post.
LEMMA PostNextFrames ==
  ASSUME FrameInv, VarTypes, StackType, NEW t \in Threads, stack[t] # << >>,
         Top(t).op = "post", Top(t).pc \in {"detach", "push"}, PostNext(t, Top(t)),
         \A w \in Wraps : WrapMove(t, w), UNCHANGED cleanup
  PROVE  Below' /\ FramesSound'
<1>1. Top(t) \in PostFrame /\ FrameSound(Top(t), t, thread, state, cleanup)
  BY TopType, TopSound DEF FrameInv
<1>2. PICK d \in Top(t).targets :
        LET call == Enqueue(d, Payload(Top(t).xdata)) IN
          IF Top(t).targets = {d}
          THEN Continue(t, call)
          ELSE Call(t, [Top(t) EXCEPT !.pc = "push", !.targets = @ \ {d}, !.xdata = None], call)
  BY DEF PostNext
<1> DEFINE f == [Top(t) EXCEPT !.pc = "push", !.targets = @ \ {d}, !.xdata = None]
           g == Enqueue(d, Payload(Top(t).xdata))
<1>3. FrameSound(g, t, thread', state', cleanup')
  BY DEF FrameSound, Enqueue
<1>4. /\ f.op = "post" /\ f.pc = "push" /\ f.xdata = None /\ f.targets = Top(t).targets \ {d}
      /\ f.wrap = Top(t).wrap /\ f.xwrap = Top(t).xwrap
      /\ Top(t).wrap \in Wraps /\ Top(t).xwrap \in Wraps \cup {None}
  BY <1>1 DEF PostFrame
<1>5. Continue(t, g) \/ (Call(t, f, g) /\ Top(t).targets # {d})
  BY <1>2
<1> HIDE DEF f, g
<1>6. CASE Continue(t, g)
  BY <1>3, <1>6, FramesSoundStep
<1>7. CASE Call(t, f, g) /\ Top(t).targets # {d}
  <2>1. \A w \in Wraps : state[w] # "Unborn" => state'[w] # "Unborn" /\ thread'[w] = thread[w]
    BY DEF WrapMove
  <2>2. \A p \in f.targets : Twin[p] = p
    BY <1>1, <1>4, <1>7 DEF FrameSound
  <2>3. FrameSound(f, t, thread', state', cleanup')
    BY <1>1, <1>4, <2>1, <2>2 DEF FrameSound
  <2>4. Paused(f)
    BY <1>4 DEF Paused
  <2> QED BY <1>3, <1>7, <2>3, <2>4, FramesSoundStep
<1> QED BY <1>5, <1>6, <1>7

\* The steps of a post keep FrameInv.
LEMMA PostFrames ==
  ASSUME FrameInv, VarTypes, StackType, NEW t \in Threads,
         \/ PostCloneFails(t) \/ PostOnClosed(t) \/ PostToPeer(t) \/ PostToGroup(t)
         \/ PostDetach(t) \/ PostLost(t) \/ PostMore(t)
  PROVE  FrameInv' /\ \A w \in Wraps : WrapMove(t, w)
<1>1. stack[t] # << >> /\ Top(t).op = "post" /\ Top(t) \in PostFrame
  BY TopType DEF PostCloneFails, PostOnClosed, PostToPeer, PostToGroup, PostDetach, PostLost,
     PostMore, At
<1>2. UNCHANGED <<thread, cleanup, sibling, members>>
  BY DEF PostCloneFails, PostOnClosed, PostToPeer, PostToGroup, PostDetach, PostLost,
     PostMore, dataVars, wrapVars, envVars
<1>3. /\ Top(t).wrap \in Wraps /\ Top(t).xwrap \in Wraps \cup {None}
      /\ Top(t).xdata \in Datas \cup {None} /\ Top(t).targets \subseteq Datas
  BY <1>1 DEF PostFrame
<1>4. FrameSound(Top(t), t, thread, state, cleanup)
  BY <1>1, TopSound DEF FrameInv
<1>5. \A w \in Wraps : WrapMove(t, w)
  <2>1. CASE PostCloneFails(t) \/ PostToPeer(t) \/ PostToGroup(t) \/ PostMore(t)
    BY <2>1 DEF PostCloneFails, PostToPeer, PostToGroup, PostMore, wrapVars, WrapMove
  <2>2. CASE PostOnClosed(t) \/ PostDetach(t)
    <3>1. DetachTransferredPort(Top(t).xwrap)
      BY <2>2 DEF PostOnClosed, PostDetach
    <3>2. Top(t).xwrap # None => thread[Top(t).xwrap] = t
      BY <1>1, <1>4 DEF FrameSound
    <3> QED BY <1>2, <1>3, <3>1, <3>2, DetachMoves
  <2>3. CASE PostLost(t)
    <3>1. state' = BeginClosePort(Top(t).wrap) /\ UNCHANGED <<thread, data>>
      BY <2>3 DEF PostLost
    <3>2. thread[Top(t).wrap] = t /\ state[Top(t).wrap] # "Unborn"
      BY <1>1, <1>4 DEF FrameSound
    <3> QED BY <1>3, <3>1, <3>2, BeginCloseMoves
  <2> QED BY <2>1, <2>2, <2>3
<1>6. WrapsSound' /\ TwinsSound'
  <2>1. WrapsSound /\ TwinsSound
    BY DEF FrameInv
  <2> QED BY <1>2, <1>5, <2>1, WrapsSoundStep DEF TwinsSound
<1>7. Below' /\ FramesSound'
  <2>1. CASE Return(t)
    BY <1>1, <1>2, <1>5, <2>1, FramesSoundStep
  <2>2. CASE PostToPeer(t)
    <3> DEFINE peer == Lock(data[Top(t).wrap])
               f == [Top(t) EXCEPT !.pc = "detach",
                       !.targets = IF Top(t).xdata = peer THEN {} ELSE {peer},
                       !.lost = Top(t).xdata = peer]
               g == Enqueue(peer, Payload(None))
    <3>1. Continue(t, g) \/ Continue(t, f)
      BY <2>2 DEF PostToPeer
    <3> HIDE DEF peer
    <3>2. FrameSound(g, t, thread', state', cleanup')
      BY DEF FrameSound, Enqueue
    <3>3. /\ f.op = "post" /\ f.pc = "detach" /\ f.wrap = Top(t).wrap /\ f.xwrap = Top(t).xwrap
          /\ f.targets \subseteq {peer}
      BY <1>1 DEF PostFrame
    <3> HIDE DEF f, g
    <3>4. \A w \in Wraps : state[w] # "Unborn" => state'[w] # "Unborn" /\ thread'[w] = thread[w]
      BY <1>5 DEF WrapMove
    <3>5. FrameSound(f, t, thread', state', cleanup')
      BY <1>1, <1>2, <1>3, <1>4, <3>3, <3>4 DEF FrameSound
    <3> QED BY <1>1, <1>2, <1>5, <3>1, <3>2, <3>5, FramesSoundStep
  <2>3. CASE PostToGroup(t)
    <3> DEFINE all == BroadcastTargets(data[Top(t).wrap])
               f == [Top(t) EXCEPT !.pc = "detach", !.targets = all]
    <3>1. Return(t) \/ Continue(t, f)
      BY <2>3 DEF PostToGroup
    <3>2. \A p \in all : Twin[p] = p
      <4>1. data[Top(t).wrap] \in Datas
        BY <1>3, <2>3 DEF PostToGroup, Usable, VarTypes, WrapTypes
      <4>2. group[data[Top(t).wrap]] # None => group[data[Top(t).wrap]] \in Groups
        BY <4>1 DEF VarTypes, DataTypes
      <4> QED BY <4>2 DEF BroadcastTargets, FrameInv, TwinsSound
    <3> HIDE DEF all
    <3>3. /\ f.op = "post" /\ f.pc = "detach" /\ f.wrap = Top(t).wrap /\ f.xwrap = Top(t).xwrap
          /\ f.targets = all
      BY <1>1 DEF PostFrame
    <3> HIDE DEF f
    <3>4. \A w \in Wraps : state[w] # "Unborn" => state'[w] # "Unborn" /\ thread'[w] = thread[w]
      BY <1>5 DEF WrapMove
    <3>5. FrameSound(f, t, thread', state', cleanup')
      BY <1>1, <1>2, <1>3, <1>4, <3>2, <3>3, <3>4 DEF FrameSound
    <3> QED BY <1>1, <1>2, <1>5, <3>1, <3>5, FramesSoundStep
  <2>4. CASE PostDetach(t)
    <3> DEFINE f == [Top(t) EXCEPT !.pc = "warn"]
    <3>1. /\ f.op = "post" /\ f.pc = "warn" /\ f.wrap = Top(t).wrap /\ f.xwrap = Top(t).xwrap
      BY <1>1 DEF PostFrame
    <3>2. Continue(t, f) \/ PostNext(t, Top(t)) \/ Return(t)
      BY <2>4 DEF PostDetach
    <3>3. Top(t).pc = "detach"
      BY <2>4 DEF PostDetach, At
    <3> HIDE DEF f
    <3>4. FrameSound(f, t, thread', state', cleanup')
      BY <1>1, <1>2, <1>3, <1>4, <1>5, <3>1, FrameNext
    <3> QED BY <1>1, <1>2, <1>5, <2>1, <3>2, <3>3, <3>4, FramesSoundStep, PostNextFrames
  <2>5. CASE PostMore(t)
    <3>1. Top(t).pc = "push" /\ PostNext(t, Top(t))
      BY <2>5 DEF PostMore, At
    <3> QED BY <1>1, <1>2, <1>5, <3>1, PostNextFrames
  <2> QED BY <2>1, <2>2, <2>3, <2>4, <2>5 DEF PostCloneFails, PostOnClosed, PostLost
<1> QED BY <1>5, <1>6, <1>7 DEF FrameInv

\* The steps of the other frames keep FrameInv.
LEMMA OtherFrames ==
  ASSUME FrameInv, VarTypes, StackType, NEW t \in Threads,
         \/ EnqueuePush(t) \/ TriggerReadAttached(t) \/ TriggerCheck(t) \/ TriggerSend(t)
         \/ PumpMessage(t) \/ PumpReturn(t) \/ PumpClose(t) \/ PumpEnd(t)
         \/ JoinGroup(t) \/ CloseLeave(t) \/ CloseDisentangle(t)
         \/ CloseUnlinkPeer(t) \/ CloseFinish(t)
  PROVE  FrameInv' /\ \A w \in Wraps : WrapMove(t, w)
<1>1. stack[t] # << >> /\ Top(t) \in Frame
  BY TopType DEF EnqueuePush, TriggerReadAttached, TriggerCheck, TriggerSend, PumpMessage,
     PumpReturn, PumpClose, PumpEnd, JoinGroup, CloseLeave, CloseDisentangle,
     CloseUnlinkPeer, CloseFinish, At
<1>2. /\ UNCHANGED cleanup
      /\ JoinGroup(t) \/ CloseLeave(t) \/ UNCHANGED members
  BY DEF EnqueuePush, TriggerReadAttached, TriggerCheck, TriggerSend, PumpMessage, PumpReturn,
     PumpClose, PumpEnd, JoinGroup, CloseLeave, CloseDisentangle, CloseUnlinkPeer, CloseFinish,
     dataVars, wrapVars, envVars
<1>3. FrameSound(Top(t), t, thread, state, cleanup)
  BY <1>1, TopSound DEF FrameInv
<1>4. WrapsSound /\ TwinsSound
  BY DEF FrameInv
<1>5. \A w \in Wraps : WrapMove(t, w)
  <2>1. CASE EnqueuePush(t) \/ TriggerReadAttached(t) \/ TriggerCheck(t) \/ TriggerSend(t)
             \/ PumpReturn(t) \/ PumpEnd(t) \/ JoinGroup(t) \/ CloseLeave(t)
             \/ CloseDisentangle(t) \/ CloseUnlinkPeer(t)
    BY <2>1 DEF EnqueuePush, TriggerReadAttached, TriggerCheck, TriggerSend, PumpReturn,
       PumpEnd, JoinGroup, CloseLeave, CloseDisentangle, CloseUnlinkPeer, wrapVars, WrapMove
  <2>2. CASE PumpMessage(t) \/ PumpClose(t)
    <3>1. Top(t).op = "pump" /\ Top(t) \in PumpFrame
      BY <2>2, TopType DEF PumpMessage, PumpClose, At
    <3>2. /\ Top(t).wrap \in Wraps /\ ~cleanup[t]
          /\ thread[Top(t).wrap] = t /\ state[Top(t).wrap] # "Unborn"
      BY <1>3, <3>1 DEF FrameSound, PumpFrame
    <3>3. CASE PumpMessage(t)
      <4>1. data[Top(t).wrap] \in Datas
        BY <3>2, <3>3 DEF PumpMessage, PumpHas, VarTypes, WrapTypes
      <4>2. PICK r \in BOOLEAN : TakeMessage(t, data[Top(t).wrap], r)
        <5>1. \E ok \in {TRUE, ~MayFail} : TakeMessage(t, data[Top(t).wrap], ok)
          BY <3>3 DEF PumpMessage
        <5> QED BY <5>1
      <4> QED BY <3>2, <4>1, <4>2, TakeMessageMoves
    <3>4. CASE PumpClose(t)
      <4>1. state' = BeginClosePort(Top(t).wrap) /\ UNCHANGED <<thread, data>>
        BY <3>4 DEF PumpClose, TakeClose
      <4> QED BY <3>2, <4>1, BeginCloseMoves
    <3> QED BY <2>2, <3>3, <3>4
  <2>3. CASE CloseFinish(t)
    <3>1. Top(t).op = "close" /\ Top(t) \in CloseFrame
      BY <2>3, TopType DEF CloseFinish, At
    <3>2. /\ Top(t).wrap \in Wraps
          /\ thread[Top(t).wrap] = t /\ state[Top(t).wrap] \in {"Closed", "Deleted"}
      BY <1>3, <3>1 DEF FrameSound, CloseFrame
    <3>3. UNCHANGED thread /\ (Delete(Top(t).wrap) \/ UNCHANGED <<state, data>>)
      BY <2>3 DEF CloseFinish
    <3> QED BY <3>2, <3>3, DeleteMoves DEF WrapMove
  <2> QED BY <2>1, <2>2, <2>3
<1>6. WrapsSound'
  BY <1>2, <1>4, <1>5, WrapsSoundStep
<1>7. TwinsSound'
  <2>1. CASE CloseUnlinkPeer(t) \/ CloseDisentangle(t)
    <3>1. \E e : sibling' = [sibling EXCEPT ![e] = None]
      BY <2>1 DEF CloseUnlinkPeer, CloseDisentangle, Unlinked
    <3>2. UNCHANGED members
      BY <2>1 DEF CloseUnlinkPeer, CloseDisentangle
    <3> QED BY <1>4, <3>1, <3>2 DEF TwinsSound, VarTypes, DataTypes
  <2>2. CASE JoinGroup(t)
    <3>1. Top(t).op = "join"
      BY <2>2 DEF JoinGroup, At
    <3>2. Twin[Top(t).own] = Top(t).own
      BY <1>3, <3>1 DEF FrameSound
    <3>3. /\ UNCHANGED sibling
          /\ members' = [members EXCEPT ![Top(t).group] = @ \cup {Top(t).own}]
      BY <2>2 DEF JoinGroup
    <3> QED BY <1>4, <3>2, <3>3 DEF TwinsSound, VarTypes, DataTypes
  <2>3. CASE CloseLeave(t)
    <3>1. /\ UNCHANGED sibling
          /\ members' = [members EXCEPT ![Top(t).group] = @ \ {Top(t).own}]
      BY <2>3 DEF CloseLeave
    <3> QED BY <1>4, <3>1 DEF TwinsSound, VarTypes, DataTypes
  <2>4. CASE UNCHANGED <<sibling, members>>
    BY <1>4, <2>4 DEF TwinsSound
  <2>5. \/ CloseUnlinkPeer(t) \/ CloseDisentangle(t) \/ JoinGroup(t) \/ CloseLeave(t)
        \/ UNCHANGED sibling
    BY DEF EnqueuePush, TriggerReadAttached, TriggerCheck, TriggerSend, PumpMessage,
       PumpReturn, PumpClose, PumpEnd, CloseFinish, dataVars
  <2> QED BY <1>2, <2>1, <2>2, <2>3, <2>4, <2>5
<1>8. Below' /\ FramesSound'
  <2>1. CASE Return(t)
    BY <1>1, <1>2, <1>5, <2>1, FramesSoundStep
  <2>2. CASE EnqueuePush(t) \/ TriggerReadAttached(t) \/ TriggerCheck(t)
    <3>1. Top(t) \in EnqueueFrame /\ Top(t).op = "enqueue"
      BY <2>2, TopType DEF EnqueuePush, TriggerReadAttached, TriggerCheck, At
    <3>2. ASSUME NEW c, NEW w
          PROVE  /\ [Top(t) EXCEPT !.pc = c, !.trig = w].op = "enqueue"
                 /\ [Top(t) EXCEPT !.pc = c].op = "enqueue"
      BY <3>1 DEF EnqueueFrame
    <3>3. Return(t) \/ \E f : Continue(t, f) /\ f.op = "enqueue"
      <4>1. CASE EnqueuePush(t)
        BY <3>2, <4>1 DEF EnqueuePush
      <4>2. CASE TriggerReadAttached(t)
        <5> DEFINE f == [Top(t) EXCEPT !.pc = "check", !.trig = attached[Top(t).target]]
        <5>1. Return(t) \/ Continue(t, f)
          BY <4>2 DEF TriggerReadAttached
        <5>2. f.op = "enqueue"
          BY <3>1 DEF EnqueueFrame
        <5> HIDE DEF f
        <5> QED BY <5>1, <5>2
      <4>3. CASE TriggerCheck(t)
        BY <3>2, <4>3 DEF TriggerCheck
      <4> QED BY <2>2, <4>1, <4>2, <4>3
    <3>4. \A f : f.op = "enqueue" => FrameSound(f, t, thread', state', cleanup')
      BY DEF FrameSound
    <3> QED BY <1>1, <1>2, <1>5, <2>1, <3>3, <3>4, FramesSoundStep
  <2>3. CASE PumpMessage(t) \/ PumpReturn(t)
    <3>1. Top(t) \in PumpFrame /\ Top(t).op = "pump"
      BY <2>3, TopType DEF PumpMessage, PumpReturn, At
    <3>2. PICK f : Continue(t, f) /\ f.op = "pump" /\ f.wrap = Top(t).wrap
      <4>1. CASE PumpReturn(t)
        <5>1. [Top(t) EXCEPT !.pc = "loop"].op = "pump" /\ [Top(t) EXCEPT !.pc = "loop"].wrap = Top(t).wrap
          BY <3>1 DEF PumpFrame
        <5> QED BY <4>1, <5>1 DEF PumpReturn
      <4>2. CASE PumpMessage(t)
        <5> DEFINE f == [Top(t) EXCEPT !.pc = "emit",
                           !.left = IF Top(t).force THEN @ ELSE @ - 1]
        <5>1. f.op = "pump" /\ f.wrap = Top(t).wrap
          BY <3>1 DEF PumpFrame
        <5>2. Continue(t, f)
          BY <4>2 DEF PumpMessage
        <5> HIDE DEF f
        <5> QED BY <5>1, <5>2
      <4> QED BY <2>3, <4>1, <4>2
    <3>3. FrameSound(f, t, thread', state', cleanup')
      <4>1. f.op = Top(t).op /\ Top(t).wrap \in Wraps
        BY <3>1, <3>2 DEF PumpFrame
      <4> QED BY <1>2, <1>3, <1>5, <3>1, <3>2, <4>1, FrameNext
    <3> QED BY <1>1, <1>2, <1>5, <3>2, <3>3, FramesSoundStep
  <2>4. CASE CloseUnlinkPeer(t)
    <3> DEFINE f == [Top(t) EXCEPT !.pc = "onclose", !.peer = None]
               g == Enqueue(Top(t).peer, CloseMsg)
    <3>1. Top(t) \in CloseFrame /\ Top(t).op = "close"
      BY <2>4, TopType DEF CloseUnlinkPeer, At
    <3>2. f.op = "close" /\ f.wrap = Top(t).wrap /\ f.wrap \in Wraps /\ f.pc = "onclose"
      BY <3>1 DEF CloseFrame
    <3>3. FrameSound(g, t, thread', state', cleanup')
      BY DEF FrameSound, Enqueue
    <3>4. Call(t, f, g)
      BY <2>4 DEF CloseUnlinkPeer
    <3> HIDE DEF f, g
    <3>5. FrameSound(f, t, thread', state', cleanup') /\ Paused(f)
      BY <1>2, <1>3, <1>5, <3>1, <3>2, FrameNext DEF Paused
    <3> QED BY <1>1, <1>2, <1>5, <3>3, <3>4, <3>5, FramesSoundStep
  <2>5. CASE CloseLeave(t) \/ CloseDisentangle(t)
    <3>1. Top(t) \in CloseFrame /\ Top(t).op = "close"
      BY <2>5, TopType DEF CloseLeave, CloseDisentangle, At
    <3>2. PICK f : Continue(t, f) /\ f.op = Top(t).op /\ f.wrap = Top(t).wrap
      BY <2>5, CloseGoesOn
    <3>3. Top(t).wrap \in Wraps
      BY <3>1 DEF CloseFrame
    <3>4. FrameSound(f, t, thread', state', cleanup')
      BY <1>2, <1>3, <1>5, <3>1, <3>2, <3>3, FrameNext
    <3> QED BY <1>1, <1>2, <1>5, <3>2, <3>4, FramesSoundStep
  <2> QED BY <2>1, <2>2, <2>3, <2>4, <2>5 DEF TriggerSend, PumpClose, PumpEnd, JoinGroup, CloseFinish
<1> QED BY <1>5, <1>6, <1>7, <1>8 DEF FrameInv


\* The frame that a close callback begins with.
LEMMA CloseStarts ==
  ASSUME NEW t \in Threads, NEW w \in Wraps, CloseCallback(t, w)
  PROVE  \E f : /\ Push(t, f) /\ f.op = "close" /\ f.wrap = w /\ f.own = data[w]
                /\ f.peer = None /\ f.pc \in {"leave", "disentangle", "onclose"}
                /\ f.pc = "onclose" <=> data[w] = None
<1> DEFINE g == IF data[w] = None THEN None ELSE group[data[w]]
           c == IF data[w] = None THEN "onclose" ELSE IF g = None THEN "disentangle" ELSE "leave"
           f == [op |-> "close", wrap |-> w, own |-> data[w], group |-> g, peer |-> None, pc |-> c]
<1>1. Push(t, f)
  BY DEF CloseCallback
<1>2. c \in {"leave", "disentangle", "onclose"} /\ (c = "onclose" <=> data[w] = None)
  OBVIOUS
<1> HIDE DEF c, g
<1>3. /\ f.op = "close" /\ f.wrap = w /\ f.own = data[w] /\ f.peer = None /\ f.pc = c
  OBVIOUS
<1> HIDE DEF f
<1> QED BY <1>1, <1>2, <1>3

\* The callbacks of the loop keep FrameInv.
LEMMA EventFrames ==
  ASSUME FrameInv, VarTypes, StackType, NEW t \in Threads, NEW w \in Wraps,
         AsyncCallback(t, w) \/ CloseCallback(t, w) \/ Finalize(t, w)
  PROVE  FrameInv' /\ \A v \in Wraps : WrapMove(t, v)
<1>1. thread[w] = t /\ UNCHANGED <<thread, cleanup>> /\ WrapsSound /\ TwinsSound
  BY DEF AsyncCallback, CloseCallback, Finalize, Own, envVars, FrameInv
<1>2. CASE AsyncCallback(t, w)
  <2> DEFINE n == Len(queue[data[w]])
             f == Pump(w, FALSE, IF n > PumpLimit THEN n ELSE PumpLimit)
  <2>1. Push(t, f) /\ stack[t] = << >> /\ state[w] = "Initialized"
        /\ UNCHANGED <<state, data, sibling, members>>
    BY <1>2 DEF AsyncCallback, Usable, dataVars
  <2>2. f.op = "pump" /\ f.wrap = w
    BY DEF Pump
  <2> HIDE DEF f
  <2>3. ~cleanup[t]
    BY <1>1, <2>1 DEF WrapsSound
  <2>4. FrameSound(f, t, thread', state', cleanup')
    BY <1>1, <2>1, <2>2, <2>3 DEF FrameSound
  <2>5. \A v \in Wraps : WrapMove(t, v)
    BY <1>1, <2>1 DEF WrapMove
  <2>6. Below' /\ FramesSound'
    BY <1>1, <2>1, <2>4, <2>5, FramesSoundStep DEF Resting
  <2> QED BY <1>1, <2>1, <2>5, <2>6, WrapsSoundStep DEF FrameInv, TwinsSound
<1>3. CASE CloseCallback(t, w)
  <2>1. /\ stack[t] = << >> /\ state[w] = "Closing"
        /\ state' = [state EXCEPT ![w] = "Closed"] /\ UNCHANGED <<data, sibling, members>>
    BY <1>3 DEF CloseCallback
  <2>2. PICK f : Push(t, f) /\ f.op = "close" /\ f.wrap = w
    BY <1>3, CloseStarts
  <2>3. TwinsSound'
    BY <1>1, <2>1 DEF TwinsSound
  <2>4. FrameSound(f, t, thread', state', cleanup')
    BY <1>1, <2>1, <2>2 DEF FrameSound, VarTypes, WrapTypes
  <2>5. \A v \in Wraps : WrapMove(t, v)
    BY <1>1, <2>1 DEF WrapMove, VarTypes, WrapTypes
  <2>6. Below' /\ FramesSound'
    BY <1>1, <2>1, <2>2, <2>4, <2>5, FramesSoundStep DEF Resting
  <2> QED BY <1>1, <2>3, <2>5, <2>6, WrapsSoundStep DEF FrameInv
<1>4. CASE Finalize(t, w)
  <2>1. state[w] = "Closed" /\ Delete(w) /\ UNCHANGED <<stack, sibling, members>>
    BY <1>4 DEF Finalize
  <2>2. \A v \in Wraps : WrapMove(t, v)
    BY <1>1, <2>1, DeleteMoves
  <2>3. Below' /\ FramesSound'
    BY <1>1, <2>1, <2>2, FramesSoundStep
  <2> QED BY <1>1, <2>1, <2>2, <2>3, WrapsSoundStep DEF FrameInv, TwinsSound
<1> QED BY <1>2, <1>3, <1>4

\* The cleanup begins on an empty stack and closes every wrap of its thread.
LEMMA CleanupFrames ==
  ASSUME FrameInv, VarTypes, StackType, NEW t \in Threads, EnvCleanup(t)
  PROVE  FrameInv' /\ \A w \in Wraps : WrapMove(t, w)
<1>1. /\ stack[t] = << >> /\ cleanup' = [cleanup EXCEPT ![t] = TRUE]
      /\ state' = [w \in Wraps |-> IF thread[w] = t /\ state[w] = "Initialized"
                                   THEN "Closing" ELSE state[w]]
      /\ UNCHANGED <<thread, data, stack, sibling, members>>
  BY DEF EnvCleanup, dataVars
<1>2. \A w \in Wraps : WrapMove(t, w)
  BY <1>1 DEF WrapMove
<1>3. \A w \in Wraps : state'[w] = IF thread[w] = t /\ state[w] = "Initialized"
                                   THEN "Closing" ELSE state[w]
  BY <1>1
<1>4. \A u \in Threads \ {t} : cleanup'[u] = cleanup[u]
  BY <1>1 DEF VarTypes, EnvTypes
<1>5. Below' /\ TwinsSound'
  BY <1>1 DEF FrameInv, Below, TwinsSound
<1>6. WrapsSound'
  <2>1. WrapsSound
    BY DEF FrameInv
  <2>2. \A w \in Wraps : thread[w] \in Threads
    BY DEF VarTypes, WrapTypes
  <2> QED BY <1>1, <1>3, <1>4, <2>1, <2>2 DEF WrapsSound, Live
<1>7. FramesSound'
  <2> SUFFICES ASSUME NEW u \in Threads, NEW x, In(x, stack'[u])
               PROVE  FrameSound(x, u, thread', state', cleanup')
    BY DEF FramesSound
  <2>1. In(x, stack[u]) /\ u # t
    BY <1>1 DEF In
  <2>2. FrameSound(x, u, thread, state, cleanup)
    BY <2>1 DEF FrameInv, FramesSound
  <2>3. x \in Frame
    <3>1. stack[u] \in Seq(Frame)
      BY DEF StackType
    <3> QED BY <2>1, <3>1, ElementOfSeq, LenProperties DEF In
  <2>4. /\ x.op # "enqueue" => x.wrap \in Wraps
        /\ x.op = "post" => x.xwrap \in Wraps \cup {None}
    BY <2>3 DEF Frame, PostFrame, EnqueueFrame, JoinFrame, CloseFrame, PumpFrame
  <2> QED BY <1>1, <1>3, <1>4, <2>1, <2>2, <2>4 DEF FrameSound
<1> QED BY <1>2, <1>5, <1>6, <1>7 DEF FrameInv

\* FrameInv is an invariant.
LEMMA FrameHeld == ASSUME ~CloneRunsJS PROVE Spec => []FrameInv
<1>1. Init => FrameInv
  <2> SUFFICES ASSUME Init PROVE FrameInv
    OBVIOUS
  <2>1. \A t \in Threads : stack[t] = << >> /\ \A x : ~In(x, stack[t])
    BY DEF Init, In
  <2> QED BY <2>1 DEF Init, FrameInv, Below, FramesSound, WrapsSound, TwinsSound
<1>2. TypeOK /\ FrameInv /\ [Next]_vars => FrameInv'
  <2> SUFFICES ASSUME TypeOK, FrameInv, [Next]_vars PROVE FrameInv'
    OBVIOUS
  <2>1. VarTypes /\ StackType
    BY TypeParts
  <2>2. CASE UNCHANGED vars
    BY <2>2 DEF FrameInv, Below, FramesSound, WrapsSound, TwinsSound, Live, vars, dataVars,
       wrapVars, envVars
  <2>3. ASSUME NEW t \in Threads, Script(t) \/ Proceed(t) \/ EnvCleanup(t)
        PROVE  FrameInv'
    BY <2>1, <2>3, ScriptFrames, PostFrames, OtherFrames, CleanupFrames DEF Proceed
  <2>4. ASSUME NEW t \in Threads, NEW w \in Wraps,
               AsyncCallback(t, w) \/ CloseCallback(t, w) \/ Finalize(t, w)
        PROVE  FrameInv'
    BY <2>1, <2>4, EventFrames
  <2> QED BY <2>2, <2>3, <2>4 DEF Next
<1> QED BY <1>1, <1>2, TypeCorrect, PTL DEF Spec


(***************************************************************************)
(* The running frame after a step                                          *)
(***************************************************************************)

\* The running frame of t has a Data in its hands: one to be transferred, a
\* message to be queued, the Data that it closes or a peer to be unlinked.
Busy(t) ==
  /\ stack[t] # << >>
  /\ \/ Top(t).op = "post" /\ Top(t).pc \in {"clone", "detach"}
     \/ Top(t).op = "enqueue" /\ Top(t).pc = "push"
     \/ Top(t).op = "close" /\ Top(t).pc \in {"leave", "disentangle", "peer"}

\* A thread that may run JavaScript has no Data in its hands.
LEMMA RestIsCalm ==
  /\ \A t \in Threads : Resting(t) => ~Busy(t)
  /\ \A t \in Threads : Resting(t)' => ~Busy(t)'
BY DEF Resting, Busy, Paused

\* A step of thread t moves no other stack.
Others(t) == \A u \in Threads \ {t} : stack'[u] = stack[u]

\* A step of thread t moves no other stack.
LEMMA OthersStay ==
  ASSUME StackType, NEW t \in Threads,
         \/ Script(t) \/ Proceed(t) \/ EnvCleanup(t)
         \/ \E w \in Wraps : AsyncCallback(t, w) \/ CloseCallback(t, w) \/ Finalize(t, w)
  PROVE  Others(t)
<1>1. \A r : \A u \in Threads \ {t} : [stack EXCEPT ![t] = r][u] = stack[u]
  BY DEF StackType
<1>2. /\ UNCHANGED stack => Others(t)
      /\ \A f : Push(t, f) \/ Continue(t, f) => Others(t)
      /\ Return(t) => Others(t)
      /\ \A f, g : Call(t, f, g) => Others(t)
  BY <1>1 DEF Others, Push, Continue, Return, Call
<1>3. PostNext(t, Top(t)) => Others(t)
  BY <1>2 DEF PostNext
<1>4. CASE Script(t)
  <2>1. UNCHANGED stack \/ \E f : Push(t, f)
    BY <1>4 DEF Script, MessageChannel, BroadcastChannel, StartWorker, GetEnvMessagePort, PostMessage,
       DrainMessagePort, ReceiveMessageOnPort, Start, Stop, Close
  <2> QED BY <1>2, <2>1
<1>5. CASE Proceed(t)
  <2>1. CASE PostCloneFails(t) \/ PostOnClosed(t) \/ PostLost(t)
    BY <1>2, <2>1 DEF PostCloneFails, PostOnClosed, PostLost
  <2>2. CASE PostToPeer(t)
    BY <1>2, <2>2 DEF PostToPeer
  <2>3. CASE PostToGroup(t)
    BY <1>2, <2>3 DEF PostToGroup
  <2>4. CASE PostDetach(t) \/ PostMore(t)
    BY <1>2, <1>3, <2>4 DEF PostDetach, PostMore
  <2>5. CASE EnqueuePush(t) \/ TriggerReadAttached(t) \/ TriggerCheck(t) \/ TriggerSend(t)
    BY <1>2, <2>5 DEF EnqueuePush, TriggerReadAttached, TriggerCheck, TriggerSend
  <2>6. CASE PumpMessage(t) \/ PumpReturn(t) \/ PumpClose(t) \/ PumpEnd(t)
    BY <1>2, <2>6 DEF PumpMessage, PumpReturn, PumpClose, PumpEnd
  <2>7. CASE JoinGroup(t) \/ CloseLeave(t) \/ CloseDisentangle(t) \/ CloseUnlinkPeer(t) \/ CloseFinish(t)
    BY <1>2, <2>7 DEF JoinGroup, CloseLeave, CloseDisentangle, CloseUnlinkPeer, CloseFinish
  <2> QED BY <1>5, <2>1, <2>2, <2>3, <2>4, <2>5, <2>6, <2>7 DEF Proceed
<1>6. CASE EnvCleanup(t)
  BY <1>2, <1>6 DEF EnvCleanup
<1>7. CASE \E w \in Wraps : AsyncCallback(t, w) \/ CloseCallback(t, w) \/ Finalize(t, w)
  BY <1>2, <1>7 DEF AsyncCallback, CloseCallback, Finalize
<1> QED BY <1>4, <1>5, <1>6, <1>7

\* Calls and callbacks other than postMessage and OnMessagePortClosed leave a
\* thread that is not busy.
LEMMA CalmEvents ==
  ASSUME FrameInv, StackType, ~CloneRunsJS, NEW t \in Threads,
         \/ Script(t) /\ ~\E w \in Wraps, x \in Wraps \cup {None} : PostMessage(t, w, x)
         \/ \E w \in Wraps : AsyncCallback(t, w) \/ Finalize(t, w)
         \/ EnvCleanup(t)
  PROVE  Resting(t) /\ ~Busy(t)'
<1>1. Resting(t)
  <2>1. CASE Script(t)
    BY <2>1, JSRests DEF Script, CanCall
  <2>2. CASE \E w \in Wraps : Finalize(t, w)
    BY <2>2, JSRests DEF Finalize
  <2>3. CASE EnvCleanup(t) \/ \E w \in Wraps : AsyncCallback(t, w)
    BY <2>3 DEF EnvCleanup, AsyncCallback, Resting
  <2> QED BY <2>1, <2>2, <2>3
<1>2. UNCHANGED stack \/ \E f : Push(t, f) /\ f.op \in {"join", "pump"}
  <2>1. \A w, b, n : Pump(w, b, n).op = "pump"
    BY DEF Pump
  <2>2. CASE Script(t) /\ ~\E w \in Wraps, x \in Wraps \cup {None} : PostMessage(t, w, x)
    <3>1. \/ UNCHANGED stack \/ \E w \in Wraps : DrainMessagePort(t, w)
          \/ \E w \in Wraps, d \in Datas, g \in Groups : BroadcastChannel(t, w, d, g)
      BY <2>2 DEF Script, MessageChannel, StartWorker, GetEnvMessagePort,
         ReceiveMessageOnPort, Start, Stop, Close
    <3>2. ASSUME NEW w \in Wraps, NEW d \in Datas, NEW g \in Groups, BroadcastChannel(t, w, d, g)
          PROVE  \E f : Push(t, f) /\ f.op = "join"
      <4> DEFINE f == [op |-> "join", pc |-> "list", wrap |-> w, own |-> d, group |-> g]
      <4>1. Push(t, f) /\ f.op = "join"
        BY <3>2 DEF BroadcastChannel
      <4> HIDE DEF f
      <4> QED BY <4>1
    <3> QED BY <2>1, <3>1, <3>2 DEF DrainMessagePort
  <2>3. CASE \E w \in Wraps : AsyncCallback(t, w)
    <3>1. PICK w \in Wraps : AsyncCallback(t, w)
      BY <2>3
    <3>2. \E n : Push(t, Pump(w, FALSE, n))
      BY <3>1 DEF AsyncCallback
    <3> QED BY <2>1, <3>2
  <2>4. CASE EnvCleanup(t) \/ \E w \in Wraps : Finalize(t, w)
    BY <2>4 DEF EnvCleanup, Finalize
  <2> QED BY <2>2, <2>3, <2>4
<1>3. CASE UNCHANGED stack
  BY <1>1, <1>3, RestIsCalm DEF Busy, Top
<1>4. ASSUME NEW f, Push(t, f), f.op \in {"join", "pump"} PROVE ~Busy(t)'
  <2>1. Top(t)' = f
    BY <1>1, <1>4, TopMove DEF FrameInv
  <2> QED BY <1>4, <2>1 DEF Busy
<1> QED BY <1>1, <1>2, <1>3, <1>4

\* The steps of frames that leave a thread not busy.
LEMMA CalmFrames ==
  ASSUME FrameInv, StackType, NEW t \in Threads,
         \/ PostCloneFails(t) \/ PostOnClosed(t) \/ PostLost(t)
         \/ EnqueuePush(t) \/ TriggerReadAttached(t) \/ TriggerCheck(t) \/ TriggerSend(t)
         \/ PumpMessage(t) \/ PumpReturn(t) \/ PumpClose(t) \/ PumpEnd(t) \/ JoinGroup(t) \/ CloseFinish(t)
  PROVE  ~Busy(t)'
<1>1. stack[t] # << >> /\ Below
  BY DEF FrameInv, PostCloneFails, PostOnClosed, PostLost, EnqueuePush, TriggerReadAttached,
     TriggerCheck, TriggerSend, PumpMessage, PumpReturn, PumpClose, PumpEnd, JoinGroup, CloseFinish, At
<1>2. CASE Return(t)
  BY <1>1, <1>2, TopMove, RestIsCalm
<1>3. ASSUME NEW f, Continue(t, f), f.op = "pump" \/ (f.op = "enqueue" /\ f.pc # "push")
      PROVE  ~Busy(t)'
  <2>1. Top(t)' = f
    BY <1>1, <1>3, TopMove
  <2> QED BY <1>3, <2>1 DEF Busy
<1>4. CASE EnqueuePush(t) \/ TriggerReadAttached(t) \/ TriggerCheck(t)
  <2>1. Top(t) \in EnqueueFrame
    BY <1>4, TopType DEF EnqueuePush, TriggerReadAttached, TriggerCheck, At
  <2>2. CASE EnqueuePush(t)
    <3> DEFINE f == [Top(t) EXCEPT !.pc = "attached"]
    <3>1. Return(t) \/ Continue(t, f)
      BY <2>2 DEF EnqueuePush
    <3>2. f.op = "enqueue" /\ f.pc = "attached"
      BY <2>1 DEF EnqueueFrame
    <3> HIDE DEF f
    <3> QED BY <1>2, <1>3, <3>1, <3>2
  <2>3. CASE TriggerReadAttached(t)
    <3> DEFINE f == [Top(t) EXCEPT !.pc = "check", !.trig = attached[Top(t).target]]
    <3>1. Return(t) \/ Continue(t, f)
      BY <2>3 DEF TriggerReadAttached
    <3>2. f.op = "enqueue" /\ f.pc = "check"
      BY <2>1 DEF EnqueueFrame
    <3> HIDE DEF f
    <3> QED BY <1>2, <1>3, <3>1, <3>2
  <2>4. CASE TriggerCheck(t)
    <3> DEFINE f == [Top(t) EXCEPT !.pc = "send"]
    <3>1. Return(t) \/ Continue(t, f)
      BY <2>4 DEF TriggerCheck
    <3>2. f.op = "enqueue" /\ f.pc = "send"
      BY <2>1 DEF EnqueueFrame
    <3> HIDE DEF f
    <3> QED BY <1>2, <1>3, <3>1, <3>2
  <2> QED BY <1>4, <2>2, <2>3, <2>4
<1>5. CASE PumpMessage(t) \/ PumpReturn(t)
  <2>1. Top(t) \in PumpFrame
    BY <1>5, TopType DEF PumpMessage, PumpReturn, At
  <2>2. CASE PumpReturn(t)
    <3> DEFINE f == [Top(t) EXCEPT !.pc = "loop"]
    <3>1. Continue(t, f)
      BY <2>2 DEF PumpReturn
    <3>2. f.op = "pump"
      BY <2>1 DEF PumpFrame
    <3> HIDE DEF f
    <3> QED BY <1>3, <3>1, <3>2
  <2>3. CASE PumpMessage(t)
    <3> DEFINE f == [Top(t) EXCEPT !.pc = "emit", !.left = IF Top(t).force THEN @ ELSE @ - 1]
    <3>1. Continue(t, f)
      BY <2>3 DEF PumpMessage
    <3>2. f.op = "pump"
      BY <2>1 DEF PumpFrame
    <3> HIDE DEF f
    <3> QED BY <1>3, <3>1, <3>2
  <2> QED BY <1>5, <2>2, <2>3
<1> QED BY <1>2, <1>4, <1>5 DEF PostCloneFails, PostOnClosed, PostLost, TriggerSend, PumpClose,
        PumpEnd, JoinGroup, CloseFinish


(***************************************************************************)
(* Every Data has one owner                                                *)
(***************************************************************************)

\* The message on its way into a queue, or the environment, that owns d.
Sends(t, d) == stack[t] # << >> /\ InFlight(Top(t), d)
InEnv(t, d) == envData[t] = d /\ ~envPort[t]
Loose(d) == (\E q \in Datas : Carries(q, d)) \/ \E t \in Threads : Sends(t, d) \/ InEnv(t, d)

\* A Data is in at most one place, and in a queue at most once.
Single(d) == \E p : Owners(d) \subseteq {p}
Once(d) == \A q \in Datas : \A i, j \in DOMAIN queue[q] :
  queue[q][i].port = d /\ queue[q][j].port = d => i = j
Owned == \A d \in Datas : Single(d) /\ Once(d)

\* A Data without a wrap is not closed; a wrap is closed before its Data is.
LooseOpen == \A d \in Datas : Loose(d) => ~closed[d]
OpenWraps == \A w \in Wraps : data[w] # None => (closed[data[w]] => state[w] = "Closed")

\* OnMessagePortClosed has not closed the Data of its wrap yet.
Shutting(t) ==
  stack[t] # << >> /\ Top(t).op = "close" /\ Top(t).pc \in {"leave", "disentangle"}

\* A port in a transfer list stays as it was found until it is detached, and
\* the Data of a closed wrap stays with it until it is closed as well.
Passing(t) ==
  \/ stack[t] # << >> /\ Top(t).op = "post" /\ Top(t).pc \in {"clone", "detach"}
  \/ Shutting(t)
PassOK(f, da, st) ==
  IF f.op = "close" THEN f.own \in Datas /\ da[f.wrap] = f.own /\ st[f.wrap] = "Closed"
  ELSE IF f.xwrap = None THEN f.xdata = None
  ELSE /\ f.xdata \in Datas /\ da[f.xwrap] = f.xdata /\ st[f.xwrap] = "Initialized"
       /\ Twin[f.xdata] # f.xdata /\ f.xwrap # f.wrap
Transfers == \A t \in Threads : Passing(t) => PassOK(Top(t), data, state)

OwnInv == Owned /\ LooseOpen /\ OpenWraps /\ Transfers

\* Who the owners of d are, when only running frames are busy.
LEMMA OwnersAre ==
  ASSUME Below, StackType, NEW d \in Datas
  PROVE  \A p : p \in Owners(d) <=>
           \/ \E w \in Wraps : p = <<"wrap", w>> /\ data[w] = d
           \/ \E q \in Datas : p = <<"queue", q>> /\ Carries(q, d)
           \/ \E t \in Threads : p = <<"frame", t>> /\ Sends(t, d)
           \/ \E t \in Threads : p = <<"env", t>> /\ InEnv(t, d)
<1>1. ASSUME NEW t \in Threads
      PROVE  (\E i \in DOMAIN stack[t] : InFlight(stack[t][i], d)) <=> Sends(t, d)
  <2>1. \A f : InFlight(f, d) => ~Paused(f)
    BY DEF InFlight, Paused
  <2>2. stack[t] # << >> => Len(stack[t]) \in DOMAIN stack[t]
    <3>1. stack[t] \in Seq(Frame)
      BY DEF StackType
    <3> QED BY <3>1, PopMove
  <2>3. \A i \in DOMAIN stack[t] : stack[t] # << >>
    <3> SUFFICES ASSUME stack[t] = << >> PROVE DOMAIN stack[t] = {}
      OBVIOUS
    <3> QED OBVIOUS
  <2> QED BY <2>1, <2>2, <2>3 DEF Below, Sends, Top
<1> QED BY <1>1 DEF Owners, InEnv

\* The same after a step.
LEMMA OwnersAreNext ==
  ASSUME Below', StackType', NEW d \in Datas
  PROVE  \A p : p \in Owners(d)' <=>
           \/ \E w \in Wraps : p = <<"wrap", w>> /\ data'[w] = d
           \/ \E q \in Datas : p = <<"queue", q>> /\ Carries(q, d)'
           \/ \E t \in Threads : p = <<"frame", t>> /\ Sends(t, d)'
           \/ \E t \in Threads : p = <<"env", t>> /\ InEnv(t, d)'
<1>1. ASSUME NEW t \in Threads
      PROVE  (\E i \in DOMAIN stack'[t] : InFlight(stack'[t][i], d)) <=> Sends(t, d)'
  <2>1. \A f : InFlight(f, d) => ~Paused(f)
    BY DEF InFlight, Paused
  <2>2. stack'[t] # << >> => Len(stack'[t]) \in DOMAIN stack'[t]
    <3>1. stack'[t] \in Seq(Frame)
      BY DEF StackType
    <3> QED BY <3>1, PopMove
  <2>3. \A i \in DOMAIN stack'[t] : stack'[t] # << >>
    <3> SUFFICES ASSUME stack'[t] = << >> PROVE DOMAIN stack'[t] = {}
      OBVIOUS
    <3> QED OBVIOUS
  <2> QED BY <2>1, <2>2, <2>3 DEF Below, Sends, Top
<1> QED BY <1>1 DEF Owners, InEnv

\* What a single owner excludes.
LEMMA SingleMeans ==
  ASSUME Below, StackType, NEW d \in Datas, Single(d)
  PROVE  /\ \A v, w \in Wraps : data[v] = d /\ data[w] = d => v = w
         /\ \A w \in Wraps : data[w] = d => ~Loose(d)
         /\ \A q, r \in Datas : Carries(q, d) /\ Carries(r, d) => q = r
         /\ \A q \in Datas, t \in Threads : Carries(q, d) => ~Sends(t, d) /\ ~InEnv(t, d)
         /\ \A t, u \in Threads : Sends(t, d) /\ Sends(u, d) => t = u
         /\ \A t, u \in Threads : Sends(t, d) => ~InEnv(u, d)
         /\ \A t, u \in Threads : InEnv(t, d) /\ InEnv(u, d) => t = u
<1>1. PICK p : \A x : x \in Owners(d) => x = p
  BY DEF Single
<1>2. /\ \A w \in Wraps : data[w] = d => p = <<"wrap", w>>
      /\ \A q \in Datas : Carries(q, d) => p = <<"queue", q>>
      /\ \A t \in Threads : Sends(t, d) => p = <<"frame", t>>
      /\ \A t \in Threads : InEnv(t, d) => p = <<"env", t>>
  BY <1>1, OwnersAre
<1> QED BY <1>2 DEF Loose

\* A Data that is nowhere else than in p has one owner.
LEMMA OnlyOwner ==
  ASSUME Below', StackType', NEW d \in Datas, NEW p,
         \A w \in Wraps : data'[w] = d => p = <<"wrap", w>>,
         \A q \in Datas : Carries(q, d)' => p = <<"queue", q>>,
         \A t \in Threads : Sends(t, d)' => p = <<"frame", t>>,
         \A t \in Threads : InEnv(t, d)' => p = <<"env", t>>
  PROVE  Single(d)'
<1>1. \A x : x \in Owners(d)' => x = p
  BY OwnersAreNext
<1> QED BY <1>1 DEF Single

\* A step that gives d to nobody.
Fewer(d) ==
  /\ \A w \in Wraps : data'[w] = d => data[w] = d
  /\ \A q \in Datas : Carries(q, d)' => Carries(q, d)
  /\ \A t \in Threads : Sends(t, d)' => Sends(t, d)
  /\ \A t \in Threads : InEnv(t, d)' => InEnv(t, d)

\* Owners that go away keep a Data single.
LEMMA FewerKept ==
  ASSUME Below, StackType, Below', StackType', NEW d \in Datas, Fewer(d), Single(d)
  PROVE  Single(d)' /\ (Loose(d)' => Loose(d))
<1>1. \A x : x \in Owners(d)' => x \in Owners(d)
  BY OwnersAre, OwnersAreNext DEF Fewer
<1> QED BY <1>1 DEF Single, Loose, Fewer

\* Queues lose messages only.
Shrinks == \A q \in Datas :
  \/ queue'[q] = queue[q]
  \/ queue'[q] = << >>
  \/ queue[q] # << >> /\ queue'[q] = Tail(queue[q])

\* The elements of a queue that loses its first one, by their places.
LEMMA TailIndex ==
  ASSUME NEW S, NEW s \in Seq(S), s # << >>
  PROVE  /\ 1 \in DOMAIN s /\ Head(s) = s[1]
         /\ \A i \in DOMAIN Tail(s) : i + 1 \in DOMAIN s /\ Tail(s)[i] = s[i + 1] /\ i + 1 # 1 /\ i \in Nat
<1>1. Len(s) \in Nat /\ DOMAIN s = 1..Len(s) /\ Len(s) # 0
  BY LenProperties, EmptySeq
<1>2. 1 \in 1..Len(s) /\ Head(s) = s[1]
  BY <1>1
<1>3. ASSUME NEW i \in DOMAIN Tail(s)
      PROVE  i + 1 \in 1..Len(s) /\ Tail(s)[i] = s[i + 1] /\ i + 1 # 1 /\ i \in Nat
  BY <1>1, <1>3
<1> QED BY <1>1, <1>2, <1>3

\* Queues that lose messages carry no more than before.
LEMMA ShrinksCarries ==
  ASSUME VarTypes, Shrinks, NEW d \in Datas, Once(d)
  PROVE  Once(d)' /\ \A q \in Datas : Carries(q, d)' => Carries(q, d)
<1> SUFFICES ASSUME NEW q \in Datas
             PROVE  /\ \A i, j \in DOMAIN queue'[q] : queue'[q][i].port = d /\ queue'[q][j].port = d => i = j
                    /\ Carries(q, d)' => Carries(q, d)
  BY DEF Once
<1>1. CASE queue'[q] = queue[q]
  BY <1>1 DEF Once, Carries
<1>2. CASE queue'[q] = << >>
  <2>1. DOMAIN queue'[q] = {}
    BY <1>2
  <2> QED BY <2>1 DEF Carries
<1>3. CASE queue[q] # << >> /\ queue'[q] = Tail(queue[q])
  <2> DEFINE s == queue[q]
  <2>1. s \in Seq(Message) /\ s # << >>
    BY <1>3 DEF VarTypes, DataTypes
  <2>2. \A i, j \in DOMAIN s : s[i].port = d /\ s[j].port = d => i = j
    BY DEF Once
  <2> HIDE DEF s
  <2>3. \A i \in DOMAIN Tail(s) : i + 1 \in DOMAIN s /\ Tail(s)[i] = s[i + 1] /\ i \in Nat
    BY <2>1, TailIndex
  <2>4. \A i, j \in DOMAIN Tail(s) : Tail(s)[i].port = d /\ Tail(s)[j].port = d => i = j
    <3> SUFFICES ASSUME NEW i \in DOMAIN Tail(s), NEW j \in DOMAIN Tail(s),
                        Tail(s)[i].port = d, Tail(s)[j].port = d
                 PROVE  i = j
      OBVIOUS
    <3>1. i + 1 = j + 1 /\ i \in Nat /\ j \in Nat
      BY <2>2, <2>3
    <3> QED BY <3>1
  <2>5. (\E i \in DOMAIN Tail(s) : Tail(s)[i].port = d) => \E i \in DOMAIN s : s[i].port = d
    BY <2>3
  <2> QED BY <1>3, <2>4, <2>5 DEF Carries, s
<1> QED BY <1>1, <1>2, <1>3 DEF Shrinks


\* A step that gives no Data away and closes none.
LEMMA QuietOwn ==
  ASSUME OwnInv, FrameInv, FrameInv', VarTypes, StackType, StackType', NEW t \in Threads,
         \A w \in Wraps : WrapMove(t, w), UNCHANGED closed,
         \A d \in Datas : Fewer(d) /\ Once(d)',
         \A w \in Wraps : state[w] = "Unborn" => state'[w] # "Initialized"
  PROVE  Owned' /\ LooseOpen' /\ OpenWraps'
<1>1. Below /\ Below' /\ Owned /\ LooseOpen /\ OpenWraps
  BY DEF FrameInv, OwnInv
<1>2. \A d \in Datas : Single(d)' /\ (Loose(d)' => Loose(d))
  BY <1>1, FewerKept DEF Owned
<1>3. Owned' /\ LooseOpen'
  BY <1>1, <1>2 DEF Owned, LooseOpen
<1>4. ASSUME NEW w \in Wraps, data'[w] # None
      PROVE  closed'[data'[w]] => state'[w] = "Closed"
  <2>1. data'[w] = data[w] /\ (state[w] = "Closed" => state'[w] = "Closed")
    BY <1>4 DEF WrapMove
  <2> QED BY <1>1, <1>4, <2>1 DEF OpenWraps
<1> QED BY <1>3, <1>4 DEF OpenWraps

\* The other threads' transfers do not change; this one's must be sound.
LEMMA TransfersStep ==
  ASSUME Transfers, FrameInv, VarTypes, StackType, NEW t \in Threads,
         \A w \in Wraps : WrapMove(t, w), Others(t),
         Passing(t)' => PassOK(Top(t)', data', state')
  PROVE  Transfers'
<1> SUFFICES ASSUME NEW u \in Threads, Passing(u)', u # t PROVE PassOK(Top(u), data, state)'
  BY DEF Transfers
<1>1. stack'[u] = stack[u] /\ Top(u)' = Top(u) /\ Passing(u)
  BY DEF Others, Passing, Shutting, Top
<1>2. PassOK(Top(u), data, state)
  BY <1>1 DEF Transfers
<1>3. /\ Top(u).op # "enqueue" => thread[Top(u).wrap] = u
      /\ Top(u).op = "post" /\ Top(u).xwrap # None => thread[Top(u).xwrap] = u
  BY <1>1, TopSound DEF FrameInv, FrameSound, Passing, Shutting
<1> DEFINE f == Top(u)
<1>4. \/ f.op = "post" /\ f.xwrap \in Wraps \cup {None}
      \/ f.op = "close" /\ f.wrap \in Wraps
  BY <1>1, TopType DEF Passing, Shutting, PostFrame, CloseFrame
<1>5. PassOK(f, data', state')
  <2>1. CASE f.op = "close" /\ f.wrap \in Wraps
    <3>1. data'[f.wrap] = data[f.wrap] /\ state'[f.wrap] = state[f.wrap]
      BY <1>2, <1>3, <2>1 DEF WrapMove, PassOK
    <3> QED BY <1>2, <2>1, <3>1 DEF PassOK
  <2>2. CASE f.op = "post" /\ f.xwrap \in Wraps \cup {None}
    <3>1. f.xwrap # None => data'[f.xwrap] = data[f.xwrap] /\ state'[f.xwrap] = state[f.xwrap]
      BY <1>2, <1>3, <2>2 DEF WrapMove, PassOK
    <3> QED BY <1>2, <2>2, <3>1 DEF PassOK
  <2> QED BY <1>4, <2>1, <2>2
<1> QED BY <1>1, <1>5 DEF PassOK

\* A thread with nothing in its hands sends and passes nothing.
LEMMA CalmIsQuiet ==
  ASSUME NEW t \in Threads, Others(t), ~Busy(t)'
  PROVE  ~Passing(t)' /\ \A u \in Threads : \A d : Sends(u, d)' => Sends(u, d)
<1>1. ~Passing(t)' /\ \A d : ~Sends(t, d)'
  BY DEF Busy, Passing, Shutting, Sends, InFlight
<1>2. \A u \in Threads \ {t} : stack'[u] = stack[u]
  BY DEF Others
<1> QED BY <1>1, <1>2 DEF Sends, Top

\* Nothing moves but frames that give up what they hold.
LEMMA StillFewer ==
  ASSUME Owned, UNCHANGED <<queue, data, envData, envPort>>,
         \A u \in Threads : \A e : Sends(u, e)' => Sends(u, e)
  PROVE  \A e \in Datas : Fewer(e) /\ Once(e)'
<1> SUFFICES ASSUME NEW e \in Datas PROVE Fewer(e) /\ Once(e)'
  OBVIOUS
<1>1. Once(e)'
  BY DEF Owned, Once
<1>2. \A q \in Datas : Carries(q, e)' <=> Carries(q, e)
  BY DEF Carries
<1>3. \A u \in Threads : InEnv(u, e)' <=> InEnv(u, e)
  BY DEF InEnv
<1> QED BY <1>1, <1>2, <1>3 DEF Fewer

\* A port comes out of a queue or an environment and gets a wrap.
LEMMA ReceiveOwn ==
  ASSUME OwnInv, FrameInv, FrameInv', VarTypes, StackType, StackType', NEW t \in Threads,
         NEW w \in Wraps, NEW p \in Datas, ReceivePort(t, w, p), \A v \in Wraps : WrapMove(t, v),
         Loose(p),
         \A q \in Datas : ~Carries(q, p)',
         \A u \in Threads : ~Sends(u, p)' /\ ~InEnv(u, p)',
         \A d \in Datas : Once(d)',
         \A d \in Datas \ {p} : /\ \A q \in Datas : Carries(q, d)' => Carries(q, d)
                                /\ \A u \in Threads : Sends(u, d)' => Sends(u, d)
                                /\ \A u \in Threads : InEnv(u, d)' => InEnv(u, d)
  PROVE  Owned' /\ LooseOpen' /\ OpenWraps' /\ UNCHANGED closed
<1>1. Below /\ Below' /\ Owned /\ LooseOpen /\ OpenWraps /\ WrapsSound
  BY DEF FrameInv, OwnInv
<1>2. /\ state[w] = "Unborn" /\ data' = [data EXCEPT ![w] = p]
      /\ closed' = [closed EXCEPT ![p] = FALSE] /\ state' = [state EXCEPT ![w] = "Initialized"]
  BY DEF ReceivePort, NewWrap
<1>3. ~closed[p]
  BY <1>1 DEF LooseOpen
<1>4. UNCHANGED closed
  BY <1>2, <1>3 DEF VarTypes, DataTypes
<1>5. /\ data'[w] = p /\ state'[w] = "Initialized"
      /\ \A v \in Wraps \ {w} : data'[v] = data[v] /\ state'[v] = state[v]
  BY <1>2 DEF VarTypes, WrapTypes
<1>6. Single(p)' /\ ~Loose(p)'
  <2>1. \A v \in Wraps : data[v] # p
    BY <1>1, SingleMeans DEF Owned
  <2> DEFINE o == <<"wrap", w>>
  <2>2. \A v \in Wraps : data'[v] = p => o = <<"wrap", v>>
    BY <1>5, <2>1
  <2> HIDE DEF o
  <2>3. Single(p)'
    BY <1>1, <2>2, OnlyOwner
  <2> QED BY <2>3 DEF Loose
<1>7. ASSUME NEW d \in Datas \ {p} PROVE Single(d)' /\ (Loose(d)' => Loose(d))
  <2>1. Fewer(d)
    BY <1>5 DEF Fewer
  <2> QED BY <1>1, <2>1, FewerKept DEF Owned
<1>8. Owned' /\ LooseOpen'
  BY <1>1, <1>4, <1>6, <1>7 DEF Owned, LooseOpen
<1>9. OpenWraps'
  BY <1>1, <1>3, <1>4, <1>5 DEF OpenWraps
<1> QED BY <1>4, <1>8, <1>9

\* A message is taken off a queue.
LEMMA TakeMessageOwn ==
  ASSUME OwnInv, FrameInv, FrameInv', VarTypes, StackType, StackType', NEW t \in Threads,
         NEW d \in Datas, queue[d] # << >>, NEW r \in BOOLEAN, TakeMessage(t, d, r),
         \A v \in Wraps : WrapMove(t, v), UNCHANGED envVars,
         \A u \in Threads : \A e : Sends(u, e)' => Sends(u, e)
  PROVE  Owned' /\ LooseOpen' /\ OpenWraps' /\ UNCHANGED closed
<1>1. Below /\ Owned /\ queue' = [queue EXCEPT ![d] = Tail(@)]
  BY DEF FrameInv, OwnInv, TakeMessage
<1>2. Shrinks
  BY <1>1 DEF Shrinks, VarTypes, DataTypes
<1>3. \A e \in Datas : Once(e)' /\ \A q \in Datas : Carries(q, e)' => Carries(q, e)
  BY <1>1, <1>2, ShrinksCarries DEF Owned
<1>4. \A u \in Threads : \A e : InEnv(u, e)' <=> InEnv(u, e)
  BY DEF InEnv, envVars
<1>5. CASE Head(queue[d]).port # None /\ r
  <2> DEFINE s == queue[d]
  <2>2. s \in Seq(Message) /\ s # << >>
    BY DEF VarTypes, DataTypes
  <2>3. /\ 1 \in DOMAIN s /\ Head(s) = s[1]
        /\ \A i \in DOMAIN Tail(s) : i + 1 \in DOMAIN s /\ Tail(s)[i] = s[i + 1] /\ i + 1 # 1
    <3> HIDE DEF s
    <3> QED BY <2>2, TailIndex
  <2>4. PICK p \in Datas : p = Head(queue[d]).port /\ p = s[1].port
    <3>1. s[1] \in Message
      <4> HIDE DEF s
      <4> QED BY <2>2, <2>3, ElementOfSeq, LenProperties
    <3> QED BY <1>5, <2>3, <3>1 DEF Message
  <2>1. PICK w \in Wraps : ReceivePort(t, w, p)
    BY <1>5, <2>4 DEF TakeMessage
  <2>5. Carries(d, p) /\ Loose(p)
    BY <2>3, <2>4 DEF Carries, Loose
  <2>6. \A q \in Datas : ~Carries(q, p)'
    <3>1. \A q \in Datas : Carries(q, p)' => q = d
      BY <1>1, <1>3, <2>4, <2>5, SingleMeans DEF Owned
    <3>2. \A i, j \in DOMAIN s : s[i].port = p /\ s[j].port = p => i = j
      BY <1>1, <2>4 DEF Owned, Once
    <3>3. queue'[d] = Tail(s)
      BY <1>1 DEF VarTypes, DataTypes
    <3> HIDE DEF s
    <3>4. \A i \in DOMAIN Tail(s) : Tail(s)[i].port # p
      BY <2>3, <2>4, <3>2
    <3> QED BY <3>1, <3>3, <3>4 DEF Carries
  <2>7. \A u \in Threads : ~Sends(u, p)' /\ ~InEnv(u, p)'
    BY <1>1, <1>4, <2>4, <2>5, SingleMeans DEF Owned
  <2> QED BY <1>3, <1>4, <2>1, <2>4, <2>5, <2>6, <2>7, ReceiveOwn
<1>6. CASE ~(Head(queue[d]).port # None /\ r)
  <2>1. UNCHANGED <<thread, data, closed, state>>
    BY <1>6 DEF TakeMessage
  <2>2. \A e \in Datas : Fewer(e)
    BY <1>3, <1>4, <2>1 DEF Fewer
  <2> QED BY <1>3, <2>1, <2>2, QuietOwn
<1> QED BY <1>5, <1>6

\* The Data of a new port was nowhere.
LEMMA NowhereBefore ==
  ASSUME OnlyBorn, StackType, NEW e \in Datas, e \notin born
  PROVE  /\ \A w \in Wraps : data[w] # e
         /\ \A q \in Datas : ~Carries(q, e)
         /\ \A t \in Threads : ~Sends(t, e) /\ envData[t] # e
         /\ ~closed[e]
<1>1. ObjectsBorn /\ FramesBorn /\ e # None
  BY ConstantsAssumption DEF OnlyBorn
<1>2. /\ \A w \in Wraps : data[w] # e
      /\ \A t \in Threads : envData[t] # e
      /\ ~closed[e]
  BY <1>1 DEF ObjectsBorn, PointersBorn, Fresh
<1>3. \A q \in Datas : ~Carries(q, e)
  BY <1>1 DEF ObjectsBorn, QueuesBorn, Carries, In
<1>4. \A t \in Threads : ~Sends(t, e)
  <2>1. \A t \in Threads : stack[t] # << >> => Refers(Top(t), born)
    BY <1>1, FramesMove DEF FramesBorn
  <2> QED BY <1>1, <2>1 DEF Refers, Sends, InFlight
<1> QED BY <1>2, <1>3, <1>4


\* New Datas have the owners p and q, and no other Data moves.
LEMMA CreateOwn ==
  ASSUME OwnInv, OnlyBorn, FrameInv, FrameInv', StackType, StackType',
         NEW d \in Datas, d \notin born, NEW p, NEW q, UNCHANGED <<queue, closed>>,
         \A u \in Threads : \A e : Sends(u, e)' => Sends(u, e),
         \A w \in Wraps : data'[w] = d => data[w] = d \/ p = <<"wrap", w>>,
         \A u \in Threads : envData'[u] # d,
         Twin[d] # d =>
           /\ \A w \in Wraps : data'[w] = Twin[d] => data[w] = Twin[d] \/ q = <<"wrap", w>>
           /\ \A u \in Threads : envData'[u] = Twin[d] => envData[u] = Twin[d] \/ q = <<"env", u>>,
         \A w \in Wraps : \/ data'[w] = data[w] /\ state'[w] = state[w]
                          \/ data'[w] \in {d, Twin[d]} /\ state'[w] = "Initialized",
         \A u \in Threads : \A e \in Datas \ {d, Twin[d]} : InEnv(u, e)' => InEnv(u, e)
  PROVE  Owned' /\ LooseOpen' /\ OpenWraps'
<1>1. Below /\ Below' /\ Owned /\ LooseOpen /\ OpenWraps
  BY DEF FrameInv, OwnInv
<1>2. Twin[d] \in Datas /\ Twin[d] \notin born
  BY ConstantsAssumption DEF OnlyBorn, ObjectsBorn, Twinned
<1>3. \A e \in Datas : Once(e)' /\ \A r \in Datas : Carries(r, e)' <=> Carries(r, e)
  BY <1>1 DEF Owned, Once, Carries
<1>4. Single(d)' /\ ~closed'[d]
  <2>1. /\ \A w \in Wraps : data[w] # d
        /\ \A r \in Datas : ~Carries(r, d)
        /\ \A u \in Threads : ~Sends(u, d) /\ envData[u] # d
        /\ ~closed[d]
    BY NowhereBefore
  <2>2. /\ \A w \in Wraps : data'[w] = d => p = <<"wrap", w>>
        /\ \A r \in Datas : ~Carries(r, d)'
        /\ \A u \in Threads : ~Sends(u, d)'
        /\ \A u \in Threads : ~InEnv(u, d)'
    BY <1>3, <2>1 DEF InEnv
  <2>3. Single(d)'
    BY <1>1, <2>2, OnlyOwner
  <2> QED BY <2>1, <2>3
<1>5. Single(Twin[d])' /\ ~closed'[Twin[d]]
  <2>1. CASE Twin[d] = d
    BY <1>4, <2>1
  <2>2. CASE Twin[d] # d
    <3> DEFINE e == Twin[d]
    <3>1. e \in Datas /\ e \notin born /\ e # d
      BY <1>2, <2>2
    <3>2. /\ \A w \in Wraps : data'[w] = e => data[w] = e \/ q = <<"wrap", w>>
          /\ \A u \in Threads : envData'[u] = e => envData[u] = e \/ q = <<"env", u>>
      BY <2>2
    <3> HIDE DEF e
    <3>3. /\ \A w \in Wraps : data[w] # e
          /\ \A r \in Datas : ~Carries(r, e)
          /\ \A u \in Threads : ~Sends(u, e) /\ envData[u] # e
          /\ ~closed[e]
      BY <3>1, NowhereBefore
    <3>4. /\ \A w \in Wraps : data'[w] = e => q = <<"wrap", w>>
          /\ \A r \in Datas : ~Carries(r, e)'
          /\ \A u \in Threads : ~Sends(u, e)'
          /\ \A u \in Threads : InEnv(u, e)' => q = <<"env", u>>
      BY <1>3, <3>1, <3>2, <3>3 DEF InEnv
    <3>5. Single(e)'
      BY <1>1, <3>1, <3>4, OnlyOwner
    <3> QED BY <3>3, <3>5 DEF e
  <2> QED BY <2>1, <2>2
<1>6. ASSUME NEW e \in Datas \ {d, Twin[d]} PROVE Single(e)' /\ (Loose(e)' => Loose(e))
  <2>1. Fewer(e)
    BY <1>3 DEF Fewer
  <2> QED BY <1>1, <2>1, FewerKept DEF Owned
<1>7. Owned' /\ LooseOpen'
  BY <1>1, <1>3, <1>4, <1>5, <1>6 DEF Owned, LooseOpen
<1>8. OpenWraps'
  BY <1>1, <1>4, <1>5 DEF OpenWraps
<1> QED BY <1>7, <1>8

\* Calls from JavaScript keep one owner.
LEMMA ScriptOwn ==
  ASSUME OwnInv, OnlyBorn, FrameInv, FrameInv', VarTypes, StackType, StackType', ~CloneRunsJS,
         NEW t \in Threads, Script(t), \A w \in Wraps : WrapMove(t, w)
  PROVE  OwnInv'
<1> USE ConstantsAssumption
<1>0. Others(t) /\ WrapsSound /\ Transfers /\ Owned
  BY OthersStay DEF FrameInv, OwnInv
<1>1. CASE \E w \in Wraps, x \in Wraps \cup {None} : PostMessage(t, w, x)
  <2>1. PICK w \in Wraps, x \in Wraps \cup {None} : PostMessage(t, w, x)
    BY <1>1
  <2> DEFINE f == [op |-> "post", pc |-> "clone", wrap |-> w, xwrap |-> x,
                   xdata |-> IF x = None THEN None ELSE data[x],
                   targets |-> {}, lost |-> FALSE]
  <2>2. Push(t, f) /\ UNCHANGED <<dataVars, wrapVars, envVars>>
    BY <2>1 DEF PostMessage
  <2>3. PassOK(f, data, state)
    <3>1. CASE x = None
      BY <3>1 DEF PassOK
    <3>2. CASE x # None
      <4>1. /\ x # w /\ state[x] = "Initialized" /\ data[x] # None /\ Lock(data[x]) # None
        BY <2>1, <3>2 DEF PostMessage, Transferable, Usable
      <4>2. data[x] \in Datas
        BY <3>2, <4>1 DEF VarTypes, WrapTypes
      <4>3. sibling[data[x]] # None
        BY <4>1 DEF Lock
      <4>4. Twin[data[x]] # data[x]
        BY <4>2, <4>3 DEF FrameInv, TwinsSound
      <4> QED BY <3>2, <4>1, <4>2, <4>4 DEF PassOK
    <3> QED BY <3>1, <3>2
  <2>4. f.op = "post"
    OBVIOUS
  <2>5. Resting(t)
    BY JSRests DEF Script, CanCall
  <2> HIDE DEF f
  <2>6. Top(t)' = f
    BY <2>2, <2>5, TopMove DEF FrameInv
  <2>7. \A u \in Threads : \A e : Sends(u, e)' => Sends(u, e)
    BY <1>0, <2>4, <2>6 DEF Others, Sends, InFlight, Top
  <2>8. UNCHANGED <<queue, closed, data, state, envData, envPort>>
    BY <2>2 DEF dataVars, wrapVars, envVars
  <2>9. \A e \in Datas : Fewer(e) /\ Once(e)'
    BY <1>0, <2>7, <2>8, StillFewer
  <2>10. Owned' /\ LooseOpen' /\ OpenWraps'
    BY <2>8, <2>9, QuietOwn
  <2>11. PassOK(Top(t)', data', state')
    BY <2>3, <2>6, <2>8
  <2> QED BY <1>0, <2>10, <2>11, TransfersStep DEF OwnInv
<1>2. ASSUME ~\E w \in Wraps, x \in Wraps \cup {None} : PostMessage(t, w, x) PROVE OwnInv'
  <2>1. ~Busy(t)'
    BY <1>2, CalmEvents
  <2>2. /\ ~Passing(t)'
        /\ \A u \in Threads : \A e : Sends(u, e)' => Sends(u, e)
    BY <1>0, <2>1, CalmIsQuiet
  <2>3. Transfers'
    BY <1>0, <2>2, TransfersStep
  <2>4. ASSUME UNCHANGED <<queue, closed, data, envData, envPort>>,
               \A w \in Wraps : state[w] = "Unborn" => state'[w] # "Initialized"
        PROVE  Owned' /\ LooseOpen' /\ OpenWraps'
    <3>1. \A e \in Datas : Fewer(e) /\ Once(e)'
      BY <1>0, <2>2, <2>4, StillFewer
    <3> QED BY <2>4, <3>1, QuietOwn
  <2>5. CASE \E v, w \in Wraps, d \in Datas : MessageChannel(t, v, w, d)
    <3>1. PICK v \in Wraps, w \in Wraps, d \in Datas : MessageChannel(t, v, w, d)
      BY <2>5
    <3>2. /\ v # w /\ d \notin born /\ Twin[d] \in Datas /\ Twin[d] # d
          /\ state' = [state EXCEPT ![v] = "Initialized", ![w] = "Initialized"]
          /\ data' = [data EXCEPT ![v] = d, ![w] = Twin[d]]
          /\ UNCHANGED <<queue, closed, envData, envPort>>
      BY <3>1 DEF MessageChannel, NewData, envVars
    <3>3. /\ data'[v] = d /\ data'[w] = Twin[d] /\ state'[v] = "Initialized" /\ state'[w] = "Initialized"
          /\ \A u \in Wraps \ {v, w} : data'[u] = data[u] /\ state'[u] = state[u]
      BY <3>2 DEF VarTypes, WrapTypes
    <3>4. \A u \in Threads : envData'[u] # d
      BY <3>2, NowhereBefore
    <3> DEFINE p == <<"wrap", v>>
               q == <<"wrap", w>>
    <3>5. /\ \A u \in Wraps : data'[u] = d => data[u] = d \/ p = <<"wrap", u>>
          /\ \A u \in Wraps : data'[u] = Twin[d] => data[u] = Twin[d] \/ q = <<"wrap", u>>
          /\ \A u \in Wraps : \/ data'[u] = data[u] /\ state'[u] = state[u]
                              \/ data'[u] \in {d, Twin[d]} /\ state'[u] = "Initialized"
      BY <3>2, <3>3
    <3>6. /\ \A u \in Threads : \A e \in Datas \ {d, Twin[d]} : InEnv(u, e)' => InEnv(u, e)
          /\ \A u \in Threads : envData'[u] = Twin[d] => envData[u] = Twin[d] \/ q = <<"env", u>>
      BY <3>2 DEF InEnv
    <3>7. d \notin born /\ UNCHANGED <<queue, closed>>
      BY <3>2
    <3> HIDE DEF p, q
    <3>8. Owned' /\ LooseOpen' /\ OpenWraps'
      BY <2>2, <3>4, <3>5, <3>6, <3>7, CreateOwn
    <3> QED BY <2>3, <3>8 DEF OwnInv
  <2>6. CASE \E w \in Wraps, d \in Datas, g \in Groups : BroadcastChannel(t, w, d, g)
    <3>1. PICK w \in Wraps, d \in Datas, g \in Groups : BroadcastChannel(t, w, d, g)
      BY <2>6
    <3>2. /\ d \notin born /\ Twin[d] = d
          /\ state' = [state EXCEPT ![w] = "Initialized"] /\ data' = [data EXCEPT ![w] = d]
          /\ UNCHANGED <<queue, closed, envData, envPort>>
      BY <3>1 DEF BroadcastChannel, NewData, envVars
    <3>3. /\ data'[w] = d /\ state'[w] = "Initialized"
          /\ \A u \in Wraps \ {w} : data'[u] = data[u] /\ state'[u] = state[u]
      BY <3>2 DEF VarTypes, WrapTypes
    <3>4. \A u \in Threads : envData'[u] # d
      BY <3>2, NowhereBefore
    <3> DEFINE p == <<"wrap", w>>
    <3>5. /\ \A u \in Wraps : data'[u] = d => data[u] = d \/ p = <<"wrap", u>>
          /\ \A u \in Wraps : \/ data'[u] = data[u] /\ state'[u] = state[u]
                              \/ data'[u] \in {d, Twin[d]} /\ state'[u] = "Initialized"
      BY <3>2, <3>3
    <3>6. \A u \in Threads : \A e : InEnv(u, e)' => InEnv(u, e)
      BY <3>2 DEF InEnv
    <3> HIDE DEF p
    <3>7. Owned' /\ LooseOpen' /\ OpenWraps'
      BY <2>2, <3>2, <3>4, <3>5, <3>6, CreateOwn
    <3> QED BY <2>3, <3>7 DEF OwnInv
  <2>7. CASE \E w \in Wraps, u \in Threads, d \in Datas : StartWorker(t, u, w, d)
    <3>1. PICK w \in Wraps, v \in Threads, d \in Datas : StartWorker(t, v, w, d)
      BY <2>7
    <3>2. /\ d \notin born /\ Twin[d] \in Datas /\ Twin[d] # d
          /\ state' = [state EXCEPT ![w] = "Initialized"] /\ data' = [data EXCEPT ![w] = d]
          /\ envData' = [envData EXCEPT ![v] = Twin[d]]
          /\ UNCHANGED <<queue, closed, envPort>>
      BY <3>1 DEF StartWorker, NewData
    <3>3. /\ data'[w] = d /\ state'[w] = "Initialized"
          /\ \A u \in Wraps \ {w} : data'[u] = data[u] /\ state'[u] = state[u]
          /\ envData'[v] = Twin[d] /\ \A u \in Threads \ {v} : envData'[u] = envData[u]
      BY <3>2 DEF VarTypes, WrapTypes, EnvTypes
    <3>4. \A u \in Threads : envData'[u] # d
      BY <3>2, <3>3, NowhereBefore
    <3> DEFINE p == <<"wrap", w>>
               q == <<"env", v>>
    <3>5. /\ \A u \in Wraps : data'[u] = d => data[u] = d \/ p = <<"wrap", u>>
          /\ \A u \in Wraps : data'[u] = Twin[d] => data[u] = Twin[d] \/ q = <<"wrap", u>>
          /\ \A u \in Threads : envData'[u] = Twin[d] => envData[u] = Twin[d] \/ q = <<"env", u>>
          /\ \A u \in Wraps : \/ data'[u] = data[u] /\ state'[u] = state[u]
                              \/ data'[u] \in {d, Twin[d]} /\ state'[u] = "Initialized"
      BY <3>2, <3>3
    <3>6. \A u \in Threads : \A e \in Datas \ {d, Twin[d]} : InEnv(u, e)' => InEnv(u, e)
      BY <3>2, <3>3 DEF InEnv
    <3> HIDE DEF p, q
    <3>7. Owned' /\ LooseOpen' /\ OpenWraps'
      BY <2>2, <3>2, <3>4, <3>5, <3>6, CreateOwn
    <3> QED BY <2>3, <3>7 DEF OwnInv
  <2>8. CASE \E w \in Wraps : GetEnvMessagePort(t, w)
    <3>1. PICK w \in Wraps : GetEnvMessagePort(t, w)
      BY <2>8
    <3>2. PICK p \in Datas : p = envData[t]
      BY <3>1 DEF GetEnvMessagePort, VarTypes, EnvTypes
    <3>3. /\ ReceivePort(t, w, p) /\ ~envPort[t] /\ envPort' = [envPort EXCEPT ![t] = TRUE]
          /\ UNCHANGED <<queue, envData>>
      BY <3>1, <3>2 DEF GetEnvMessagePort
    <3>4. InEnv(t, p) /\ Loose(p)
      BY <3>2, <3>3 DEF InEnv, Loose
    <3>5. \A u \in Threads : \A e : InEnv(u, e)' => InEnv(u, e) /\ u # t
      BY <3>3 DEF InEnv, VarTypes, EnvTypes
    <3>6. \A e \in Datas : Once(e)' /\ \A q \in Datas : Carries(q, e)' <=> Carries(q, e)
      BY <1>0, <3>3 DEF Owned, Once, Carries
    <3>7. /\ \A q \in Datas : ~Carries(q, p)'
          /\ \A u \in Threads : ~Sends(u, p)' /\ ~InEnv(u, p)'
      <4>1. Below /\ Single(p)
        BY <1>0 DEF FrameInv, Owned
      <4>2. /\ \A q \in Datas, u \in Threads : Carries(q, p) => ~InEnv(u, p)
            /\ \A u, v \in Threads : Sends(u, p) => ~InEnv(v, p)
            /\ \A u, v \in Threads : InEnv(u, p) /\ InEnv(v, p) => u = v
        BY <4>1, SingleMeans
      <4> QED BY <2>2, <3>4, <3>5, <3>6, <4>2
    <3>8. Owned' /\ LooseOpen' /\ OpenWraps'
      BY <2>2, <3>3, <3>4, <3>5, <3>6, <3>7, ReceiveOwn
    <3> QED BY <2>3, <3>8 DEF OwnInv
  <2>9. CASE \E w \in Wraps : ReceiveMessageOnPort(t, w)
    <3>1. PICK w \in Wraps : ReceiveMessageOnPort(t, w)
      BY <2>9
    <3>2. data[w] \in Datas /\ queue[data[w]] # << >> /\ UNCHANGED envVars
      BY <3>1 DEF ReceiveMessageOnPort, VarTypes, WrapTypes
    <3>3. CASE \E r \in BOOLEAN : TakeMessage(t, data[w], r)
      BY <2>2, <2>3, <3>2, <3>3, TakeMessageOwn DEF OwnInv
    <3>4. CASE TakeClose(w) /\ UNCHANGED <<thread, data, attached, closed, async>>
      <4>1. /\ queue' = [queue EXCEPT ![data[w]] = Tail(@)] /\ state' = BeginClosePort(w)
            /\ UNCHANGED <<data, closed, envData, envPort>>
        BY <3>2, <3>4 DEF TakeClose, envVars
      <4>2. Shrinks
        BY <3>2, <4>1 DEF Shrinks, VarTypes, DataTypes
      <4>3. \A e \in Datas : Fewer(e) /\ Once(e)'
        BY <1>0, <2>2, <4>1, <4>2, ShrinksCarries DEF Fewer, InEnv, Owned
      <4>4. \A v \in Wraps : state[v] = "Unborn" => state'[v] # "Initialized"
        BY <4>1 DEF BeginClosePort, VarTypes, WrapTypes
      <4> QED BY <2>3, <4>1, <4>3, <4>4, QuietOwn DEF OwnInv
    <3> QED BY <3>1, <3>3, <3>4 DEF ReceiveMessageOnPort
  <2>10. CASE \E w \in Wraps : DrainMessagePort(t, w) \/ Start(t, w) \/ Stop(t, w)
    <3>1. UNCHANGED <<queue, closed, data, envData, envPort, state>>
      BY <2>10 DEF DrainMessagePort, Start, Stop, dataVars, wrapVars, envVars
    <3> QED BY <2>3, <2>4, <3>1 DEF OwnInv
  <2>11. CASE \E w \in Wraps : Close(t, w)
    <3>1. PICK w \in Wraps : Close(t, w)
      BY <2>11
    <3>2. UNCHANGED <<queue, closed, data, envData, envPort>> /\ state' = BeginClosePort(w)
      BY <3>1 DEF Close, dataVars, envVars
    <3>3. \A v \in Wraps : state[v] = "Unborn" => state'[v] # "Initialized"
      BY <3>2 DEF BeginClosePort, VarTypes, WrapTypes
    <3> QED BY <2>3, <2>4, <3>2, <3>3 DEF OwnInv
  <2> QED BY <1>2, <2>5, <2>6, <2>7, <2>8, <2>9, <2>10, <2>11 DEF Script
<1> QED BY <1>1, <1>2


\* A Data moves to p, or the step moves none.
LEMMA MoveOwn ==
  ASSUME OwnInv, FrameInv, FrameInv', VarTypes, StackType, StackType', NEW t \in Threads,
         \A w \in Wraps : WrapMove(t, w), UNCHANGED closed, NEW m \in Datas, NEW p, ~closed[m],
         \A w \in Wraps : data'[w] = m => p = <<"wrap", w>>,
         \A q \in Datas : Carries(q, m)' => p = <<"queue", q>>,
         \A u \in Threads : Sends(u, m)' => p = <<"frame", u>>,
         \A u \in Threads : InEnv(u, m)' => p = <<"env", u>>,
         \A d \in Datas \ {m} : Fewer(d),
         \A d \in Datas : Once(d)',
         \A w \in Wraps : state[w] = "Unborn" => state'[w] # "Initialized"
  PROVE  Owned' /\ LooseOpen' /\ OpenWraps'
<1>1. Below /\ Below' /\ Owned /\ LooseOpen /\ OpenWraps
  BY DEF FrameInv, OwnInv
<1>2. \A d \in Datas \ {m} : Single(d)' /\ (Loose(d)' => Loose(d))
  BY <1>1, FewerKept DEF Owned
<1>3. Single(m)'
  BY <1>1, OnlyOwner
<1>4. Owned' /\ LooseOpen'
  BY <1>1, <1>2, <1>3 DEF Owned, LooseOpen
<1>5. ASSUME NEW w \in Wraps, data'[w] # None
      PROVE  closed'[data'[w]] => state'[w] = "Closed"
  <2>1. data'[w] = data[w] /\ (state[w] = "Closed" => state'[w] = "Closed")
    BY <1>5 DEF WrapMove
  <2> QED BY <1>1, <1>5, <2>1 DEF OpenWraps
<1> QED BY <1>4, <1>5 DEF OpenWraps

\* A wrap goes with its Data's queue.
LEMMA DeleteOwn ==
  ASSUME OwnInv, FrameInv, FrameInv', VarTypes, StackType, StackType', NEW t \in Threads,
         \A w \in Wraps : WrapMove(t, w), NEW w \in Wraps, Delete(w),
         UNCHANGED <<closed, envData, envPort>>,
         \A u \in Threads : \A e : Sends(u, e)' => Sends(u, e)
  PROVE  Owned' /\ LooseOpen' /\ OpenWraps'
<1>1. /\ state' = [state EXCEPT ![w] = "Deleted"] /\ data' = [data EXCEPT ![w] = None]
      /\ UNCHANGED queue \/ queue' = [queue EXCEPT ![data[w]] = << >>]
  BY DEF Delete
<1>2. Shrinks
  BY <1>1 DEF Shrinks, VarTypes, DataTypes
<1>3. \A e \in Datas : Once(e)' /\ \A q \in Datas : Carries(q, e)' => Carries(q, e)
  BY <1>2, ShrinksCarries DEF OwnInv, Owned
<1>4. \A u \in Threads : \A e : InEnv(u, e)' => InEnv(u, e)
  BY DEF InEnv
<1>5. \A v \in Wraps : data'[v] \in {data[v], None} /\ state'[v] \in {state[v], "Deleted"}
  BY <1>1 DEF VarTypes, WrapTypes
<1>6. \A e \in Datas : Fewer(e)
  <2>1. None \notin Datas
    BY ConstantsAssumption
  <2> QED BY <1>3, <1>4, <1>5, <2>1 DEF Fewer
<1>7. \A v \in Wraps : state[v] = "Unborn" => state'[v] # "Initialized"
  BY <1>5
<1> QED BY <1>3, <1>6, <1>7, QuietOwn

\* A close message leaves a queue.
LEMMA TakeCloseOwn ==
  ASSUME OwnInv, FrameInv, FrameInv', VarTypes, StackType, StackType', NEW t \in Threads,
         \A w \in Wraps : WrapMove(t, w), NEW w \in Wraps, TakeClose(w),
         queue[data[w]] # << >>, UNCHANGED <<data, closed, envData, envPort>>,
         \A u \in Threads : \A e : Sends(u, e)' => Sends(u, e)
  PROVE  Owned' /\ LooseOpen' /\ OpenWraps'
<1>1. queue' = [queue EXCEPT ![data[w]] = Tail(@)] /\ state' = BeginClosePort(w)
  BY DEF TakeClose
<1>2. Shrinks
  BY <1>1 DEF Shrinks, VarTypes, DataTypes
<1>3. \A e \in Datas : Fewer(e) /\ Once(e)'
  BY <1>2, ShrinksCarries DEF Fewer, InEnv, OwnInv, Owned
<1>4. \A v \in Wraps : state[v] = "Unborn" => state'[v] # "Initialized"
  BY <1>1 DEF BeginClosePort, VarTypes, WrapTypes
<1> QED BY <1>3, <1>4, QuietOwn

\* A message comes to the end of a queue.
LEMMA AppendOnce ==
  ASSUME Owned, VarTypes, NEW d \in Datas, NEW m \in Message,
         queue' = [queue EXCEPT ![d] = Append(@, m)],
         \A q \in Datas : m.port # None => ~Carries(q, m.port)
  PROVE  /\ \A e \in Datas : Once(e)'
         /\ \A e \in Datas \ {m.port} : \A q \in Datas : Carries(q, e)' => Carries(q, e)
         /\ m.port # None => \A q \in Datas : Carries(q, m.port)' => q = d
<1> DEFINE s == queue[d]
           r == Append(s, m)
<1>1. queue'[d] = r /\ \A q \in Datas \ {d} : queue'[q] = queue[q]
  BY DEF VarTypes, DataTypes
<1>2. s \in Seq(Message)
  BY DEF VarTypes, DataTypes
<1> HIDE DEF s
<1>3. /\ \A i \in DOMAIN r : i = Len(r) \/ (i \in DOMAIN s /\ r[i] = s[i])
      /\ r[Len(r)] = m
  BY <1>2, TopOps
<1> HIDE DEF r
<1>4. None \notin Datas
  BY ConstantsAssumption
<1>5. ASSUME NEW e \in Datas, NEW q \in Datas, NEW i \in DOMAIN queue'[q], NEW j \in DOMAIN queue'[q],
             queue'[q][i].port = e, queue'[q][j].port = e
      PROVE  i = j
  <2>1. \A k, l \in DOMAIN queue[q] : queue[q][k].port = e /\ queue[q][l].port = e => k = l
    BY DEF Owned, Once
  <2>2. CASE q # d
    BY <1>1, <1>5, <2>1, <2>2
  <2>3. CASE q = d /\ e = m.port
    <3>1. \A k \in DOMAIN s : s[k].port # e
      BY <1>4, <2>3 DEF Carries, s
    <3> QED BY <1>1, <1>3, <1>5, <2>3, <3>1
  <2>4. CASE q = d /\ e # m.port
    <3>1. i \in DOMAIN s /\ r[i] = s[i] /\ j \in DOMAIN s /\ r[j] = s[j]
      BY <1>1, <1>3, <1>5, <2>4
    <3> QED BY <1>1, <1>5, <2>1, <2>4, <3>1 DEF s
  <2> QED BY <2>2, <2>3, <2>4
<1>6. ASSUME NEW e \in Datas \ {m.port}, NEW q \in Datas, Carries(q, e)' PROVE Carries(q, e)
  <2>1. CASE q # d
    BY <1>1, <1>6, <2>1 DEF Carries
  <2>2. CASE q = d
    <3>1. PICK i \in DOMAIN r : r[i].port = e
      BY <1>1, <1>6, <2>2 DEF Carries
    <3>2. i \in DOMAIN s /\ s[i].port = e
      BY <1>3, <3>1
    <3> QED BY <2>2, <3>2 DEF Carries, s
  <2> QED BY <2>1, <2>2
<1>7. ASSUME m.port # None, NEW q \in Datas, Carries(q, m.port)' PROVE q = d
  <2> SUFFICES ASSUME q # d PROVE Carries(q, m.port)
    BY <1>7
  <2>1. queue'[q] = queue[q]
    BY <1>1
  <2>2. PICK i \in DOMAIN queue'[q] : queue'[q][i].port = m.port
    BY <1>7 DEF Carries
  <2> QED BY <2>1, <2>2 DEF Carries
<1>8. \A e \in Datas : Once(e)'
  BY <1>5 DEF Once
<1> QED BY <1>6, <1>7, <1>8


\* What a step that sends nothing new does to the frames in flight.
LEMMA TopIsQuiet ==
  ASSUME NEW t \in Threads, Others(t), \A d \in Datas : ~Sends(t, d)'
  PROVE  \A u \in Threads : \A d \in Datas : Sends(u, d)' => Sends(u, d)
<1>1. \A u \in Threads \ {t} : stack'[u] = stack[u]
  BY DEF Others
<1> QED BY <1>1 DEF Sends, Top

\* As StillFewer, for Datas.
LEMMA StackFewer ==
  ASSUME Owned, UNCHANGED <<queue, data, envData, envPort>>,
         \A u \in Threads : \A e \in Datas : Sends(u, e)' => Sends(u, e)
  PROVE  \A e \in Datas : Fewer(e) /\ Once(e)'
<1> SUFFICES ASSUME NEW e \in Datas PROVE Fewer(e) /\ Once(e)'
  OBVIOUS
<1>1. Once(e)'
  BY DEF Owned, Once
<1>2. \A q \in Datas : Carries(q, e)' <=> Carries(q, e)
  BY DEF Carries
<1>3. \A u \in Threads : InEnv(u, e)' <=> InEnv(u, e)
  BY DEF InEnv
<1> QED BY <1>1, <1>2, <1>3 DEF Fewer

\* Frames that change neither queues nor ports.
LEMMA CalmOwn ==
  ASSUME OwnInv, FrameInv, FrameInv', VarTypes, StackType, StackType', NEW t \in Threads,
         \A w \in Wraps : WrapMove(t, w),
         \/ PostCloneFails(t) \/ PostLost(t) \/ TriggerReadAttached(t) \/ TriggerCheck(t)
         \/ TriggerSend(t) \/ PumpReturn(t) \/ PumpEnd(t) \/ JoinGroup(t)
  PROVE  OwnInv'
<1>1. ~Busy(t)' /\ Others(t) /\ Transfers /\ Owned
  BY CalmFrames, OthersStay DEF Proceed, OwnInv
<1>2. ~Passing(t)' /\ \A u \in Threads : \A d : Sends(u, d)' => Sends(u, d)
  BY <1>1, CalmIsQuiet
<1>3. UNCHANGED <<queue, closed, data, envData, envPort>>
  BY DEF PostCloneFails, PostLost, TriggerReadAttached, TriggerCheck, TriggerSend, PumpReturn,
     PumpEnd, JoinGroup, dataVars, wrapVars, envVars
<1>4. UNCHANGED state \/ \E w : state' = BeginClosePort(w)
  BY DEF PostCloneFails, PostLost, TriggerReadAttached, TriggerCheck, TriggerSend, PumpReturn,
     PumpEnd, JoinGroup, wrapVars
<1>5. \A v \in Wraps : state[v] = "Unborn" => state'[v] # "Initialized"
  BY <1>4 DEF BeginClosePort, VarTypes, WrapTypes
<1>6. \A e \in Datas : Fewer(e) /\ Once(e)'
  BY <1>1, <1>2, <1>3, StillFewer
<1>7. Owned' /\ LooseOpen' /\ OpenWraps'
  BY <1>3, <1>5, <1>6, QuietOwn
<1> QED BY <1>1, <1>2, <1>7, TransfersStep DEF OwnInv

\* Receiving and closing.
LEMMA PumpOwn ==
  ASSUME OwnInv, FrameInv, FrameInv', VarTypes, StackType, StackType', NEW t \in Threads,
         \A w \in Wraps : WrapMove(t, w),
         PumpMessage(t) \/ PumpClose(t) \/ CloseFinish(t)
  PROVE  OwnInv'
<1>1. ~Busy(t)' /\ Others(t) /\ Transfers /\ Owned
  BY CalmFrames, OthersStay DEF Proceed, OwnInv
<1>2. ~Passing(t)' /\ \A u \in Threads : \A d : Sends(u, d)' => Sends(u, d)
  BY <1>1, CalmIsQuiet
<1>3. Transfers'
  BY <1>1, <1>2, TransfersStep
<1>4. Top(t).wrap \in Wraps
  <2>1. stack[t] # << >> /\ Top(t).op \in {"pump", "close"}
    BY DEF PumpMessage, PumpClose, CloseFinish, At
  <2> QED BY <2>1, TopType DEF PumpFrame, CloseFrame
<1>5. CASE PumpMessage(t)
  <2>1. PICK r \in {TRUE, ~MayFail} : TakeMessage(t, data[Top(t).wrap], r)
    BY <1>5 DEF PumpMessage
  <2>2. r \in BOOLEAN
    BY ConstantsAssumption
  <2>3. PICK d \in Datas : d = data[Top(t).wrap]
    BY <1>4, <1>5 DEF PumpMessage, PumpHas, VarTypes, WrapTypes
  <2>4. TakeMessage(t, d, r) /\ queue[d] # << >> /\ UNCHANGED envVars
    BY <1>5, <2>1, <2>3 DEF PumpMessage, PumpHas
  <2>5. Owned' /\ LooseOpen' /\ OpenWraps'
    BY <1>2, <2>2, <2>4, TakeMessageOwn
  <2> QED BY <1>3, <2>5 DEF OwnInv
<1>6. CASE PumpClose(t)
  <2>1. PICK w \in Wraps : w = Top(t).wrap
    BY <1>4
  <2>2. TakeClose(w) /\ queue[data[w]] # << >> /\ UNCHANGED <<data, closed, envData, envPort>>
    BY <1>6, <2>1 DEF PumpClose, PumpHas, envVars
  <2>3. Owned' /\ LooseOpen' /\ OpenWraps'
    BY <1>2, <2>2, TakeCloseOwn
  <2> QED BY <1>3, <2>3 DEF OwnInv
<1>7. CASE CloseFinish(t)
  <2>1. PICK w \in Wraps : w = Top(t).wrap
    BY <1>4
  <2>2. /\ Delete(w) \/ UNCHANGED <<state, data, queue>>
        /\ UNCHANGED <<closed, envData, envPort>>
    BY <1>7, <2>1 DEF CloseFinish, envVars
  <2>3. CASE Delete(w)
    <3>1. Owned' /\ LooseOpen' /\ OpenWraps'
      BY <1>2, <2>2, <2>3, DeleteOwn
    <3> QED BY <1>3, <3>1 DEF OwnInv
  <2>4. CASE UNCHANGED <<state, data, queue>>
    <3>1. \A e \in Datas : Fewer(e) /\ Once(e)'
      BY <1>1, <1>2, <2>2, <2>4, StillFewer
    <3>2. Owned' /\ LooseOpen' /\ OpenWraps'
      BY <2>2, <2>4, <3>1, QuietOwn
    <3> QED BY <1>3, <3>2 DEF OwnInv
  <2> QED BY <2>2, <2>3, <2>4
<1> QED BY <1>5, <1>6, <1>7

\* A message is queued or refused.
LEMMA PushOwn ==
  ASSUME OwnInv, FrameInv, FrameInv', VarTypes, StackType, StackType', NEW t \in Threads,
         \A w \in Wraps : WrapMove(t, w), EnqueuePush(t)
  PROVE  OwnInv'
<1>1. ~Busy(t)' /\ Others(t) /\ Transfers /\ Owned /\ LooseOpen /\ Below
  BY CalmFrames, OthersStay DEF Proceed, OwnInv, FrameInv
<1>2. ~Passing(t)' /\ \A u \in Threads : \A d : Sends(u, d)' => Sends(u, d)
  BY <1>1, CalmIsQuiet
<1>3. Transfers'
  BY <1>1, <1>2, TransfersStep
<1>4. UNCHANGED <<closed, data, state, envData, envPort>>
  BY DEF EnqueuePush, wrapVars, envVars
<1>5. CASE UNCHANGED queue
  <2>1. \A e \in Datas : Fewer(e) /\ Once(e)'
    BY <1>1, <1>2, <1>4, <1>5, StillFewer
  <2>2. Owned' /\ LooseOpen' /\ OpenWraps'
    BY <1>4, <2>1, QuietOwn
  <2> QED BY <1>3, <2>2 DEF OwnInv
<1>6. CASE ~UNCHANGED queue
  <2>1. stack[t] # << >> /\ Top(t).op = "enqueue" /\ Top(t).pc = "push"
    BY DEF EnqueuePush, At
  <2>2. PICK d \in Datas, msg \in Message : d = Top(t).target /\ msg = Top(t).msg
    BY <2>1, TopType DEF EnqueueFrame
  <2>3. queue' = [queue EXCEPT ![d] = Append(@, msg)]
    BY <1>6, <2>2 DEF EnqueuePush
  <2>4. msg.port \in Datas \cup {None} /\ None \notin Datas
    BY ConstantsAssumption DEF Message
  <2>5. CASE msg.port = None
    <3>1. /\ \A e \in Datas : Once(e)'
          /\ \A e \in Datas : \A q \in Datas : Carries(q, e)' => Carries(q, e)
      BY <1>1, <2>3, <2>4, <2>5, AppendOnce
    <3>2. \A e \in Datas : Fewer(e)
      BY <1>2, <1>4, <3>1 DEF Fewer, InEnv
    <3>3. Owned' /\ LooseOpen' /\ OpenWraps'
      BY <1>4, <3>1, <3>2, QuietOwn
    <3> QED BY <1>3, <3>3 DEF OwnInv
  <2>6. CASE msg.port # None
    <3>1. PICK m \in Datas : m = msg.port
      BY <2>4, <2>6
    <3>2. Sends(t, m) /\ Loose(m) /\ Single(m)
      BY <1>1, <2>1, <2>2, <3>1 DEF Sends, InFlight, Loose, Owned
    <3>3. /\ \A w \in Wraps : data[w] # m
          /\ \A q \in Datas : ~Carries(q, m)
          /\ \A u \in Threads : (Sends(u, m) => u = t) /\ ~InEnv(u, m)
      <4>1. /\ \A w \in Wraps : data[w] = m => ~Loose(m)
            /\ \A q \in Datas, u \in Threads : Carries(q, m) => ~Sends(u, m)
            /\ \A u, v \in Threads : Sends(u, m) /\ Sends(v, m) => u = v
            /\ \A u, v \in Threads : Sends(u, m) => ~InEnv(v, m)
        BY <1>1, <3>2, SingleMeans
      <4> QED BY <3>2, <4>1
    <3>4. /\ \A e \in Datas : Once(e)'
          /\ \A e \in Datas \ {m} : \A q \in Datas : Carries(q, e)' => Carries(q, e)
          /\ \A q \in Datas : Carries(q, m)' => q = d
      BY <1>1, <2>3, <2>6, <3>1, <3>3, AppendOnce
    <3>5. \A u \in Threads : ~Sends(u, m)'
      <4>1. ~Sends(t, m)'
        BY <1>1 DEF Sends, InFlight, Busy
      <4> QED BY <1>2, <3>3, <4>1
    <3>6. \A u \in Threads : ~InEnv(u, m)'
      BY <1>4, <3>3 DEF InEnv
    <3>7. \A e \in Datas \ {m} : Fewer(e)
      BY <1>2, <1>4, <3>4 DEF Fewer, InEnv
    <3> DEFINE p == <<"queue", d>>
    <3>8. \A q \in Datas : Carries(q, m)' => p = <<"queue", q>>
      BY <3>4
    <3>9. ~closed[m] /\ \A w \in Wraps : data'[w] # m
      BY <1>1, <1>4, <3>2, <3>3 DEF LooseOpen
    <3> HIDE DEF p
    <3>10. \A w \in Wraps : state[w] = "Unborn" => state'[w] # "Initialized"
      BY <1>4
    <3>11. UNCHANGED closed
      BY <1>4
    <3>12. \A e \in Datas : Once(e)'
      BY <3>4
    <3>13. Owned' /\ LooseOpen' /\ OpenWraps'
      BY <3>5, <3>6, <3>7, <3>8, <3>9, <3>10, <3>11, <3>12, MoveOwn
    <3> QED BY <1>3, <3>13 DEF OwnInv
  <2> QED BY <2>5, <2>6
<1> QED BY <1>5, <1>6


\* The message for the next target carries what the post has in its hands.
LEMMA PostNextTop ==
  ASSUME Below, StackType, NEW t \in Threads, stack[t] # << >>, PostNext(t, Top(t)),
         Top(t).op = "post"
  PROVE  /\ stack'[t] # << >> /\ \E d \in Top(t).targets : Top(t)' = Enqueue(d, Payload(Top(t).xdata))
         /\ Others(t) /\ ~Passing(t)'
         /\ \A e : Sends(t, e)' => e = Top(t).xdata
<1>1. PICK d \in Top(t).targets :
        LET call == Enqueue(d, Payload(Top(t).xdata)) IN
          IF Top(t).targets = {d}
          THEN Continue(t, call)
          ELSE Call(t, [Top(t) EXCEPT !.pc = "push", !.targets = @ \ {d}, !.xdata = None], call)
  BY DEF PostNext
<1> DEFINE g == Enqueue(d, Payload(Top(t).xdata))
           f == [Top(t) EXCEPT !.pc = "push", !.targets = @ \ {d}, !.xdata = None]
<1>2. Continue(t, g) \/ Call(t, f, g)
  BY <1>1
<1>3. Paused(f)
  <2>1. Top(t) \in PostFrame
    BY TopType
  <2>2. f.op = "post" /\ f.pc = "push"
    BY <2>1 DEF PostFrame
  <2> HIDE DEF f
  <2> QED BY <2>2 DEF Paused
<1>4. g.op = "enqueue" /\ g.msg.port = Top(t).xdata
  BY DEF Enqueue, Payload
<1>5. Top(t)' = g /\ stack'[t] # << >>
  <2> HIDE DEF f, g
  <2> QED BY <1>2, <1>3, TopMove
<1>6. Others(t)
  <2> HIDE DEF f, g
  <2> QED BY <1>2 DEF Others, Continue, Call, StackType
<1>7. ~Passing(t)' /\ \A e : Sends(t, e)' => e = Top(t).xdata
  <2> HIDE DEF f, g
  <2> QED BY <1>4, <1>5 DEF Passing, Shutting, Sends, InFlight
<1> QED BY <1>5, <1>6, <1>7

\* A post on a port that is closed, and the steps that find the targets.
LEMMA PostOwn ==
  ASSUME OwnInv, FrameInv, FrameInv', VarTypes, StackType, StackType', NEW t \in Threads,
         \A w \in Wraps : WrapMove(t, w),
         PostOnClosed(t) \/ PostToPeer(t) \/ PostToGroup(t) \/ PostMore(t) \/ CloseUnlinkPeer(t)
  PROVE  OwnInv'
<1>1. Others(t) /\ Transfers /\ Owned /\ Below /\ None \notin Datas
  BY OthersStay, ConstantsAssumption DEF Proceed, OwnInv, FrameInv
<1>2. ASSUME PostToPeer(t) \/ PostToGroup(t) \/ PostMore(t) \/ CloseUnlinkPeer(t),
             \A e \in Datas : ~Sends(t, e)', Passing(t)' => PassOK(Top(t)', data', state')
      PROVE  OwnInv'
  <2>1. UNCHANGED <<queue, closed, data, state, envData, envPort>>
    BY <1>2 DEF PostToPeer, PostToGroup, PostMore, CloseUnlinkPeer, dataVars, wrapVars, envVars
  <2>2. \A u \in Threads : \A e \in Datas : Sends(u, e)' => Sends(u, e)
    BY <1>1, <1>2, TopIsQuiet
  <2>3. \A e \in Datas : Fewer(e) /\ Once(e)'
    BY <1>1, <2>1, <2>2, StackFewer
  <2>4. Owned' /\ LooseOpen' /\ OpenWraps'
    BY <2>1, <2>3, QuietOwn
  <2> QED BY <1>1, <1>2, <2>4, TransfersStep DEF OwnInv
<1>3. ASSUME NEW f, stack[t] # << >>, Continue(t, f), f.op = "enqueue", f.msg.port = None
      PROVE  ~Passing(t)' /\ \A e \in Datas : ~Sends(t, e)'
  <2>1. Top(t)' = f
    BY <1>1, <1>3, TopMove
  <2> QED BY <1>1, <1>3, <2>1 DEF Passing, Shutting, Sends, InFlight
<1>4. ASSUME NEW f, stack[t] # << >>, Continue(t, f), Passing(t), Top(t).op = "post", f.op = "post",
             f.xwrap = Top(t).xwrap, f.xdata = Top(t).xdata, f.wrap = Top(t).wrap,
             UNCHANGED <<data, state>>
      PROVE  PassOK(Top(t)', data', state') /\ \A e \in Datas : ~Sends(t, e)'
  <2>1. Top(t)' = f
    BY <1>1, <1>4, TopMove
  <2>2. PassOK(Top(t), data, state)
    BY <1>1, <1>4 DEF Transfers
  <2>3. PassOK(f, data', state')
    BY <1>4, <2>2 DEF PassOK
  <2> QED BY <1>4, <2>1, <2>3 DEF Sends, InFlight
<1>5. CASE PostOnClosed(t)
  <2>1. ~Busy(t)'
    BY <1>5, CalmFrames
  <2>2. ~Passing(t)' /\ \A u \in Threads : \A d : Sends(u, d)' => Sends(u, d)
    BY <1>1, <2>1, CalmIsQuiet
  <2>3. UNCHANGED <<queue, closed, envData, envPort>> /\ DetachTransferredPort(Top(t).xwrap)
    BY <1>5 DEF PostOnClosed, envVars
  <2>4. \A v \in Wraps : data'[v] \in {data[v], None} /\ state'[v] \in {state[v], "Closing"}
    BY <2>3 DEF DetachTransferredPort, VarTypes, WrapTypes
  <2>5. \A e \in Datas : Once(e)' /\ \A q \in Datas : Carries(q, e)' => Carries(q, e)
    BY <1>1, <2>3 DEF Owned, Once, Carries
  <2>6. \A e \in Datas : Fewer(e)
    BY <1>1, <2>2, <2>3, <2>4, <2>5 DEF Fewer, InEnv
  <2>7. \A v \in Wraps : state[v] = "Unborn" => state'[v] # "Initialized"
    BY <2>4
  <2>8. Owned' /\ LooseOpen' /\ OpenWraps'
    BY <2>3, <2>5, <2>6, <2>7, QuietOwn
  <2> QED BY <1>1, <2>2, <2>8, TransfersStep DEF OwnInv
<1>6. CASE PostToPeer(t)
  <2>1. /\ stack[t] # << >> /\ Passing(t) /\ Top(t).op = "post" /\ Top(t) \in PostFrame
        /\ UNCHANGED <<data, state>>
    BY <1>6, TopType DEF PostToPeer, At, Passing, wrapVars
  <2> DEFINE peer == Lock(data[Top(t).wrap])
             f == [Top(t) EXCEPT !.pc = "detach",
                     !.targets = IF Top(t).xdata = peer THEN {} ELSE {peer},
                     !.lost = Top(t).xdata = peer]
             g == Enqueue(peer, Payload(None))
  <2>2. Continue(t, f) \/ Continue(t, g)
    BY <1>6 DEF PostToPeer
  <2>3. /\ f.op = "post" /\ f.xwrap = Top(t).xwrap /\ f.xdata = Top(t).xdata /\ f.wrap = Top(t).wrap
        /\ g.op = "enqueue" /\ g.msg.port = None
    BY <2>1 DEF PostFrame, Enqueue, Payload
  <2> HIDE DEF f, g
  <2> QED BY <1>2, <1>3, <1>4, <1>6, <2>1, <2>2, <2>3
<1>7. CASE PostToGroup(t)
  <2>1. /\ stack[t] # << >> /\ Passing(t) /\ Top(t).op = "post" /\ Top(t) \in PostFrame
        /\ UNCHANGED <<data, state>>
    BY <1>7, TopType DEF PostToGroup, At, Passing, wrapVars
  <2> DEFINE f == [Top(t) EXCEPT !.pc = "detach", !.targets = BroadcastTargets(data[Top(t).wrap])]
  <2>2. Continue(t, f) \/ Return(t)
    BY <1>7 DEF PostToGroup
  <2>3. /\ f.op = "post" /\ f.xwrap = Top(t).xwrap /\ f.xdata = Top(t).xdata /\ f.wrap = Top(t).wrap
    BY <2>1 DEF PostFrame
  <2> HIDE DEF f
  <2>4. CASE Continue(t, f)
    BY <1>2, <1>4, <1>7, <2>1, <2>3, <2>4
  <2>5. CASE Return(t)
    <3>1. ~Busy(t)'
      BY <1>1, <2>1, <2>5, TopMove, RestIsCalm
    <3>2. ~Passing(t)' /\ \A e \in Datas : ~Sends(t, e)'
      BY <3>1 DEF Busy, Passing, Shutting, Sends, InFlight
    <3> QED BY <1>2, <1>7, <3>2
  <2> QED BY <2>2, <2>4, <2>5
<1>8. CASE PostMore(t)
  <2>1. stack[t] # << >> /\ Top(t).op = "post" /\ Top(t).pc = "push" /\ PostNext(t, Top(t))
    BY <1>8 DEF PostMore, At
  <2>2. Top(t).xdata = None
    BY <2>1, TopSound DEF FrameInv, FrameSound
  <2>3. ~Passing(t)' /\ \A e : Sends(t, e)' => e = None
    BY <1>1, <2>1, <2>2, PostNextTop
  <2> QED BY <1>1, <1>2, <1>8, <2>3
<1>9. CASE CloseUnlinkPeer(t)
  <2>1. stack[t] # << >> /\ Top(t) \in CloseFrame
    BY <1>9, TopType DEF CloseUnlinkPeer, At
  <2> DEFINE f == [Top(t) EXCEPT !.pc = "onclose", !.peer = None]
             g == Enqueue(Top(t).peer, CloseMsg)
  <2>2. Call(t, f, g)
    BY <1>9 DEF CloseUnlinkPeer
  <2>3. f.op = "close" /\ f.pc = "onclose" /\ g.op = "enqueue" /\ g.msg.port = None
    BY <2>1 DEF CloseFrame, Enqueue, CloseMsg
  <2> HIDE DEF f, g
  <2>4. Paused(f)
    BY <2>3 DEF Paused
  <2>5. Top(t)' = g
    BY <1>1, <2>1, <2>2, <2>4, TopMove
  <2>6. ~Passing(t)' /\ \A e \in Datas : ~Sends(t, e)'
    BY <1>1, <2>3, <2>5 DEF Passing, Shutting, Sends, InFlight
  <2> QED BY <1>2, <1>9, <2>6
<1> QED BY <1>5, <1>6, <1>7, <1>8, <1>9

\* The port in the transfer list goes into the message.
LEMMA DetachOwn ==
  ASSUME OwnInv, FrameInv, FrameInv', VarTypes, StackType, StackType', NEW t \in Threads,
         \A w \in Wraps : WrapMove(t, w), PostDetach(t)
  PROVE  OwnInv'
<1>1. Others(t) /\ Transfers /\ Owned /\ OpenWraps /\ Below /\ None \notin Datas
  BY OthersStay, ConstantsAssumption DEF Proceed, OwnInv, FrameInv
<1>2. /\ stack[t] # << >> /\ Passing(t) /\ Top(t).op = "post" /\ Top(t) \in PostFrame
      /\ DetachTransferredPort(Top(t).xwrap)
      /\ UNCHANGED <<queue, closed, envData, envPort>>
  BY TopType DEF PostDetach, At, Passing, envVars
<1>3. PassOK(Top(t), data, state)
  BY <1>1, <1>2 DEF Transfers
<1>4. Top(t).xwrap \in Wraps \cup {None} /\ Top(t).xdata \in Datas \cup {None} /\ None \notin Wraps
  BY <1>2, ConstantsAssumption DEF PostFrame
<1>5. ~Passing(t)' /\ \A e \in Datas : Sends(t, e)' => e = Top(t).xdata
  <2> DEFINE f == [Top(t) EXCEPT !.pc = "warn"]
  <2>1. Continue(t, f) \/ Return(t) \/ PostNext(t, Top(t))
    BY DEF PostDetach
  <2>2. f.op = "post" /\ f.pc = "warn"
    BY <1>2 DEF PostFrame
  <2> HIDE DEF f
  <2>3. CASE Continue(t, f)
    <3>1. Top(t)' = f
      BY <1>1, <1>2, <2>3, TopMove
    <3> QED BY <2>2, <3>1 DEF Passing, Shutting, Sends, InFlight
  <2>4. CASE Return(t)
    <3>1. ~Busy(t)'
      BY <1>1, <1>2, <2>4, TopMove, RestIsCalm
    <3> QED BY <3>1 DEF Busy, Passing, Shutting, Sends, InFlight
  <2>5. CASE PostNext(t, Top(t))
    BY <1>1, <1>2, <2>5, PostNextTop
  <2> QED BY <2>1, <2>3, <2>4, <2>5
<1>6. Transfers'
  BY <1>1, <1>5, TransfersStep
<1>7. \A v \in Wraps : data'[v] \in {data[v], None} /\ state'[v] \in {state[v], "Closing"}
  BY <1>2 DEF DetachTransferredPort, VarTypes, WrapTypes
<1>8. \A v \in Wraps : state[v] = "Unborn" => state'[v] # "Initialized"
  BY <1>7
<1>9. \A e \in Datas : Once(e)' /\ \A q \in Datas : Carries(q, e)' <=> Carries(q, e)
  BY <1>1, <1>2 DEF Owned, Once, Carries
<1>10. \A u \in Threads \ {t} : stack'[u] = stack[u]
  BY <1>1 DEF Others
<1>11. \A e \in Datas : e # Top(t).xdata => Fewer(e)
  <2>1. \A u \in Threads : \A e \in Datas : e # Top(t).xdata => (Sends(u, e)' => Sends(u, e))
    BY <1>5, <1>10 DEF Sends, Top
  <2> QED BY <1>1, <1>2, <1>7, <1>9, <2>1 DEF Fewer, InEnv
<1>12. CASE Top(t).xdata = None
  <2>1. \A e \in Datas : Fewer(e)
    BY <1>1, <1>11, <1>12
  <2>2. Owned' /\ LooseOpen' /\ OpenWraps'
    BY <1>2, <1>8, <1>9, <2>1, QuietOwn
  <2> QED BY <1>6, <2>2 DEF OwnInv
<1>13. CASE Top(t).xdata # None
  <2>1. PICK m \in Datas : m = Top(t).xdata
    BY <1>4, <1>13
  <2>2. PICK x \in Wraps : x = Top(t).xwrap
    BY <1>2, <1>3, <1>4, <1>13 DEF PassOK
  <2>3. data[x] = m /\ state[x] = "Initialized"
    BY <1>2, <1>3, <1>4, <2>1, <2>2 DEF PassOK
  <2>4. data'[x] = None /\ ~closed[m]
    <3>1. Usable(x) /\ x # None
      BY <1>1, <1>4, <2>3 DEF Usable
    <3>2. data'[x] = None
      BY <1>2, <2>2, <3>1 DEF DetachTransferredPort, VarTypes, WrapTypes
    <3> QED BY <1>1, <2>3, <3>2 DEF OpenWraps
  <2>5. (\A v \in Wraps : data[v] = m => v = x) /\ ~Loose(m)
    <3>1. Single(m)
      BY <1>1 DEF Owned
    <3> QED BY <1>1, <2>3, <3>1, SingleMeans
  <2>6. \A v \in Wraps : data'[v] # m
    BY <1>1, <1>7, <2>4, <2>5
  <2>7. \A q \in Datas : ~Carries(q, m)'
    BY <1>9, <2>5 DEF Loose
  <2>8. \A u \in Threads : ~InEnv(u, m)'
    BY <1>2, <2>5 DEF Loose, InEnv
  <2>9. \A u \in Threads : Sends(u, m)' => u = t
    <3>1. \A u \in Threads : ~Sends(u, m)
      BY <2>5 DEF Loose
    <3> QED BY <1>10, <3>1 DEF Sends, Top
  <2> DEFINE p == <<"frame", t>>
  <2>10. \A u \in Threads : Sends(u, m)' => p = <<"frame", u>>
    BY <2>9
  <2> HIDE DEF p
  <2>11. \A e \in Datas \ {m} : Fewer(e)
    BY <1>11, <2>1
  <2>12. UNCHANGED closed /\ \A e \in Datas : Once(e)'
    BY <1>2, <1>9
  <2>13. Owned' /\ LooseOpen' /\ OpenWraps'
    BY <1>8, <2>4, <2>6, <2>7, <2>8, <2>10, <2>11, <2>12, MoveOwn
  <2> QED BY <1>6, <2>13 DEF OwnInv
<1> QED BY <1>12, <1>13


\* OnMessagePortClosed leaves the group and closes the Data of its wrap, which
\* nobody else holds.
LEMMA ShutOwn ==
  ASSUME OwnInv, FrameInv, FrameInv', VarTypes, StackType, StackType', NEW t \in Threads,
         \A w \in Wraps : WrapMove(t, w), CloseLeave(t) \/ CloseDisentangle(t)
  PROVE  OwnInv'
<1>1. Others(t) /\ Transfers /\ Owned /\ LooseOpen /\ OpenWraps /\ Below /\ Below' /\ None \notin Datas
  BY OthersStay, ConstantsAssumption DEF Proceed, OwnInv, FrameInv
<1>2. /\ stack[t] # << >> /\ Passing(t) /\ Top(t).op = "close" /\ Top(t).wrap \in Wraps
      /\ UNCHANGED <<queue, data, state, envData, envPort>>
  BY TopType DEF CloseLeave, CloseDisentangle, At, Passing, Shutting, CloseFrame, wrapVars, envVars
<1>3. PassOK(Top(t), data, state)
  BY <1>1, <1>2 DEF Transfers
<1>4. PICK f \in Frame : /\ Continue(t, f) /\ f.op = "close" /\ f.wrap = Top(t).wrap
                         /\ f.own = Top(t).own
  BY <1>2, CloseGoesOn
<1>5. Top(t)' = f
  BY <1>1, <1>2, <1>4, TopMove
<1>6. \A u \in Threads : \A e \in Datas : Sends(u, e)' => Sends(u, e)
  <2>1. \A e \in Datas : ~Sends(t, e)'
    BY <1>4, <1>5 DEF Sends, InFlight
  <2> QED BY <1>1, <2>1, TopIsQuiet
<1>7. Transfers'
  <2>1. PassOK(Top(t)', data', state')
    BY <1>2, <1>3, <1>4, <1>5 DEF PassOK
  <2> QED BY <1>1, <2>1, TransfersStep
<1>8. \A e \in Datas : Fewer(e) /\ Once(e)'
  BY <1>1, <1>2, <1>6, StackFewer
<1>9. \A e \in Datas : Single(e)' /\ (Loose(e)' => Loose(e))
  BY <1>1, <1>8, FewerKept DEF Owned
<1>10. Owned'
  BY <1>8, <1>9 DEF Owned
<1>11. PICK d \in Datas, w \in Wraps : d = Top(t).own /\ w = Top(t).wrap /\ data[w] = d /\ state[w] = "Closed"
  BY <1>2, <1>3 DEF PassOK
<1>12. \A e \in Datas \ {d} : closed'[e] = closed[e]
  BY <1>11 DEF CloseLeave, CloseDisentangle, VarTypes, DataTypes
<1>13. ~Loose(d) /\ \A v \in Wraps : data[v] = d => v = w
  <2>1. Single(d)
    BY <1>1 DEF Owned
  <2> QED BY <1>1, <1>11, <2>1, SingleMeans
<1>14. LooseOpen'
  BY <1>1, <1>9, <1>12, <1>13 DEF LooseOpen
<1>15. OpenWraps'
  <2> SUFFICES ASSUME NEW v \in Wraps, data'[v] # None, closed'[data'[v]]
               PROVE  state'[v] = "Closed"
    BY DEF OpenWraps
  <2>1. data'[v] = data[v] /\ data[v] \in Datas /\ state'[v] = state[v]
    BY <1>2 DEF VarTypes, WrapTypes
  <2> QED BY <1>1, <1>11, <1>12, <1>13, <2>1 DEF OpenWraps
<1> QED BY <1>7, <1>10, <1>14, <1>15 DEF OwnInv

\* The steps of a running frame keep OwnInv.
LEMMA ProceedOwn ==
  ASSUME OwnInv, FrameInv, FrameInv', VarTypes, StackType, StackType', NEW t \in Threads,
         \A w \in Wraps : WrapMove(t, w), Proceed(t)
  PROVE  OwnInv'
BY CalmOwn, PumpOwn, PushOwn, PostOwn, DetachOwn, ShutOwn DEF Proceed

\* OnMessagePortClosed begins: it knows the Data of the wrap that it closes.
LEMMA CloseOwn ==
  ASSUME OwnInv, FrameInv, FrameInv', VarTypes, StackType, StackType', NEW t \in Threads,
         \A v \in Wraps : WrapMove(t, v), NEW w \in Wraps, CloseCallback(t, w)
  PROVE  OwnInv'
<1>1. Others(t) /\ Transfers /\ Owned /\ Below
  BY OthersStay DEF OwnInv, FrameInv
<1>2. /\ Resting(t) /\ state' = [state EXCEPT ![w] = "Closed"]
      /\ UNCHANGED <<queue, closed, data, envData, envPort>>
  BY DEF CloseCallback, Resting, envVars
<1>3. PICK f : /\ Push(t, f) /\ f.op = "close" /\ f.wrap = w /\ f.own = data[w]
               /\ f.pc = "onclose" <=> data[w] = None
  BY CloseStarts
<1>4. Top(t)' = f
  BY <1>1, <1>2, <1>3, TopMove
<1>5. Passing(t)' => PassOK(Top(t)', data', state')
  <2> SUFFICES ASSUME Passing(t)' PROVE PassOK(f, data', state')
    BY <1>4
  <2>1. data[w] \in Datas
    BY <1>3, <1>4 DEF Passing, Shutting, VarTypes, WrapTypes
  <2>2. state'[w] = "Closed"
    BY <1>2 DEF VarTypes, WrapTypes
  <2> QED BY <1>2, <1>3, <2>1, <2>2 DEF PassOK
<1>6. \A u \in Threads : \A e \in Datas : Sends(u, e)' => Sends(u, e)
  <2>1. \A e \in Datas : ~Sends(t, e)'
    BY <1>3, <1>4 DEF Sends, InFlight
  <2> QED BY <1>1, <2>1, TopIsQuiet
<1>7. \A e \in Datas : Fewer(e) /\ Once(e)'
  BY <1>1, <1>2, <1>6, StackFewer
<1>8. \A v \in Wraps : state[v] = "Unborn" => state'[v] # "Initialized"
  BY <1>2 DEF VarTypes, WrapTypes
<1>9. Owned' /\ LooseOpen' /\ OpenWraps'
  BY <1>2, <1>7, <1>8, QuietOwn
<1> QED BY <1>1, <1>5, <1>9, TransfersStep DEF OwnInv

\* The other events of the loop, the collector and the cleanup.
LEMMA EventOwn ==
  ASSUME OwnInv, FrameInv, FrameInv', VarTypes, StackType, StackType', ~CloneRunsJS,
         NEW t \in Threads, \A v \in Wraps : WrapMove(t, v),
         \/ \E w \in Wraps : AsyncCallback(t, w) \/ Finalize(t, w)
         \/ EnvCleanup(t)
  PROVE  OwnInv'
<1>1. ~Busy(t)' /\ Others(t) /\ Transfers /\ Owned
  BY CalmEvents, OthersStay DEF OwnInv
<1>2. ~Passing(t)' /\ \A u \in Threads : \A d : Sends(u, d)' => Sends(u, d)
  BY <1>1, CalmIsQuiet
<1>3. Transfers'
  BY <1>1, <1>2, TransfersStep
<1>4. CASE \E w \in Wraps : Finalize(t, w)
  <2>1. PICK w \in Wraps : Finalize(t, w)
    BY <1>4
  <2>2. Delete(w) /\ UNCHANGED <<closed, envData, envPort>>
    BY <2>1 DEF Finalize, envVars
  <2>3. Owned' /\ LooseOpen' /\ OpenWraps'
    BY <1>2, <2>2, DeleteOwn
  <2> QED BY <1>3, <2>3 DEF OwnInv
<1>5. CASE EnvCleanup(t) \/ \E w \in Wraps : AsyncCallback(t, w)
  <2>1. UNCHANGED <<queue, closed, data, envData, envPort>>
    BY <1>5 DEF EnvCleanup, AsyncCallback, dataVars, envVars
  <2>2. \A v \in Wraps : state'[v] \in {state[v], "Closing"}
    BY <1>5 DEF EnvCleanup, AsyncCallback
  <2>3. \A e \in Datas : Fewer(e) /\ Once(e)'
    BY <1>1, <1>2, <2>1, StillFewer
  <2>4. \A v \in Wraps : state[v] = "Unborn" => state'[v] # "Initialized"
    BY <2>2
  <2>5. Owned' /\ LooseOpen' /\ OpenWraps'
    BY <2>1, <2>3, <2>4, QuietOwn
  <2> QED BY <1>3, <2>5 DEF OwnInv
<1> QED BY <1>4, <1>5

\* OwnInv is inductive on top of FrameInv.
LEMMA OwnHeld == ASSUME ~CloneRunsJS PROVE Spec => []OwnInv
<1>1. Init => OwnInv
  <2> SUFFICES ASSUME Init PROVE OwnInv
    OBVIOUS
  <2>1. None \notin Datas
    BY ConstantsAssumption
  <2>2. /\ \A t \in Threads : stack[t] = << >> /\ DOMAIN stack[t] = {} /\ envData[t] = None
        /\ \A d \in Datas : queue[d] = << >> /\ DOMAIN queue[d] = {} /\ ~closed[d]
        /\ \A w \in Wraps : data[w] = None
    BY DEF Init
  <2>3. \A d \in Datas : Owners(d) = {}
    BY <2>1, <2>2 DEF Owners, Carries
  <2>4. Owned
    BY <2>2, <2>3 DEF Owned, Single, Once
  <2> QED BY <2>2, <2>4 DEF OwnInv, LooseOpen, OpenWraps, Transfers, Passing,
     Shutting
<1>2. /\ TypeOK /\ TypeOK' /\ OnlyBorn /\ FrameInv /\ FrameInv' /\ OwnInv /\ [Next]_vars
      => OwnInv'
  <2> SUFFICES ASSUME TypeOK, TypeOK', OnlyBorn, FrameInv, FrameInv', OwnInv, [Next]_vars
               PROVE  OwnInv'
    OBVIOUS
  <2>1. VarTypes /\ StackType /\ StackType'
    BY TypeParts DEF TypeOK, StackType
  <2>2. CASE UNCHANGED vars
    BY <2>2 DEF OwnInv, Owned, Single, Owners, Once, Carries, LooseOpen, Loose, Sends, InEnv, Top,
       OpenWraps, Transfers, Passing, Shutting, vars, dataVars, wrapVars, envVars
  <2>3. ASSUME NEW t \in Threads, Script(t) PROVE OwnInv'
    BY <2>1, <2>3, ScriptFrames, ScriptOwn
  <2>4. ASSUME NEW t \in Threads, Proceed(t) PROVE OwnInv'
    <3>1. \A w \in Wraps : WrapMove(t, w)
      BY <2>1, <2>4, PostFrames, OtherFrames DEF Proceed
    <3> QED BY <2>1, <2>4, <3>1, ProceedOwn
  <2>5. ASSUME NEW t \in Threads, NEW w \in Wraps, CloseCallback(t, w) PROVE OwnInv'
    BY <2>1, <2>5, EventFrames, CloseOwn
  <2>6. ASSUME NEW t \in Threads, NEW w \in Wraps, AsyncCallback(t, w) \/ Finalize(t, w)
        PROVE  OwnInv'
    BY <2>1, <2>6, EventFrames, EventOwn
  <2>7. ASSUME NEW t \in Threads, EnvCleanup(t) PROVE OwnInv'
    BY <2>1, <2>7, CleanupFrames, EventOwn
  <2> QED BY <2>2, <2>3, <2>4, <2>5, <2>6, <2>7 DEF Next
<1> QED BY <1>1, <1>2, TypeCorrect, BornHeld, FrameHeld, PTL DEF Spec

\* A port is made only for a Data that is nobody's and so is open.
LEMMA ReceiveOpens ==
  ASSUME OwnInv, VarTypes, NEW t, NEW w, NEW p \in Datas, Loose(p), ReceivePort(t, w, p)
  PROVE  UNCHANGED closed
<1>1. ~closed[p] /\ closed' = [closed EXCEPT ![p] = FALSE]
  BY DEF OwnInv, LooseOpen, ReceivePort
<1> QED BY <1>1 DEF VarTypes, DataTypes

\* A message that is taken brings no closed Data.
LEMMA TakeOpens ==
  ASSUME OwnInv, VarTypes, NEW t, NEW d \in Datas, queue[d] # << >>, NEW r, TakeMessage(t, d, r)
  PROVE  UNCHANGED closed
<1> DEFINE s == queue[d]
<1>1. s \in Seq(Message) /\ s # << >>
  BY DEF VarTypes, DataTypes
<1> HIDE DEF s
<1>2. 1 \in DOMAIN s /\ Head(s) = s[1] /\ s[1] \in Message
  BY <1>1, TailIndex, ElementOfSeq, LenProperties
<1> DEFINE p == Head(s).port
<1>3. CASE UNCHANGED closed
  BY <1>3
<1>4. CASE p # None /\ \E w \in Wraps : ReceivePort(t, w, p)
  <2>1. p \in Datas
    BY <1>2, <1>4 DEF Message
  <2>2. Carries(d, p)
    BY <1>2 DEF Carries, s
  <2>3. Loose(p)
    BY <2>2 DEF Loose
  <2> HIDE DEF p
  <2> QED BY <1>4, <2>1, <2>3, ReceiveOpens
<1> QED BY <1>3, <1>4 DEF TakeMessage, s

\* A closed Data stays closed.
LEMMA ClosedKept ==
  ASSUME TypeOK, OwnInv, [Next]_vars
  PROVE  \A d \in Datas : closed[d] => closed'[d]
<1> SUFFICES ASSUME ~UNCHANGED closed PROVE \A d \in Datas : closed[d] => closed'[d]
  OBVIOUS
<1>1. VarTypes
  BY TypeParts
<1>2. ASSUME NEW t \in Threads, CloseDisentangle(t)
      PROVE  \A d \in Datas : closed[d] => closed'[d]
  BY <1>1, <1>2 DEF CloseDisentangle, VarTypes, DataTypes
<1>3. ASSUME NEW t \in Threads, NEW w \in Wraps, GetEnvMessagePort(t, w) PROVE FALSE
  <2>1. PICK p \in Datas : p = envData[t]
    BY <1>1, <1>3 DEF GetEnvMessagePort, VarTypes, EnvTypes
  <2>2. Loose(p) /\ ReceivePort(t, w, p)
    BY <1>3, <2>1 DEF GetEnvMessagePort, Loose, InEnv
  <2> QED BY <1>1, <2>2, ReceiveOpens
<1>4. ASSUME NEW t \in Threads, NEW w \in Wraps, ReceiveMessageOnPort(t, w) PROVE FALSE
  <2>1. PICK d \in Datas : d = data[w]
    BY <1>1, <1>4 DEF ReceiveMessageOnPort, VarTypes, WrapTypes
  <2>2. queue[d] # << >> /\ \E r : TakeMessage(t, d, r)
    BY <1>4, <2>1 DEF ReceiveMessageOnPort
  <2> QED BY <1>1, <2>2, TakeOpens
<1>5. ASSUME NEW t \in Threads, PumpMessage(t) PROVE FALSE
  <2>1. stack[t] # << >> /\ Top(t).op = "pump" /\ StackType
    BY <1>5, TypeParts DEF PumpMessage, At
  <2>2. Top(t).wrap \in Wraps
    BY <2>1, TopType DEF PumpFrame
  <2>3. PICK d \in Datas : d = data[Top(t).wrap]
    BY <1>1, <1>5, <2>2 DEF PumpMessage, PumpHas, VarTypes, WrapTypes
  <2>4. queue[d] # << >> /\ \E r : TakeMessage(t, d, r)
    BY <1>5, <2>3 DEF PumpMessage, PumpHas
  <2> QED BY <1>1, <2>4, TakeOpens
<1>6. ASSUME NEW t \in Threads, Script(t) PROVE \E w \in Wraps : GetEnvMessagePort(t, w) \/ ReceiveMessageOnPort(t, w)
  BY <1>6 DEF Script, MessageChannel, BroadcastChannel, StartWorker, PostMessage,
     DrainMessagePort, Start, Stop, Close, dataVars
<1>7. ASSUME NEW t \in Threads, Proceed(t) PROVE PumpMessage(t) \/ CloseDisentangle(t)
  BY <1>7 DEF Proceed, PostCloneFails, PostOnClosed, PostToPeer, PostToGroup, PostDetach, PostLost,
     PostMore, EnqueuePush, TriggerReadAttached, TriggerCheck, TriggerSend, PumpReturn,
     PumpClose, PumpEnd, JoinGroup, CloseLeave, CloseUnlinkPeer, CloseFinish, dataVars
<1>8. ASSUME NEW t \in Threads, NEW w \in Wraps,
             AsyncCallback(t, w) \/ CloseCallback(t, w) \/ Finalize(t, w)
      PROVE  FALSE
  BY <1>8 DEF AsyncCallback, CloseCallback, Finalize, dataVars
<1>9. ASSUME NEW t \in Threads, EnvCleanup(t) PROVE FALSE
  BY <1>9 DEF EnvCleanup, dataVars
<1>10. ~UNCHANGED vars
  BY DEF vars, dataVars
<1> QED BY <1>2, <1>3, <1>4, <1>5, <1>6, <1>7, <1>8, <1>9, <1>10 DEF Next

\* Every path that makes a port for a Data (receiving it in a message, or
\* asking for the worker's own port) resets its closed flag; none of them ever
\* finds a Data that was closed, for a clone that runs no JavaScript.
THEOREM ClosedStaysClosed == ASSUME ~CloneRunsJS PROVE Spec => ClosedIsFinal
<1>1. TypeOK /\ OwnInv /\ [Next]_vars => [\A d \in Datas : closed[d] => closed'[d]]_closed
  BY ClosedKept
<1> QED BY <1>1, TypeCorrect, OwnHeld, PTL DEF Spec, ClosedIsFinal


(***************************************************************************)
(* Closed wraps whose Datas are not closed yet                             *)
(***************************************************************************)

\* A step of thread t.
StepOf(t) ==
  \/ Script(t) \/ Proceed(t) \/ EnvCleanup(t)
  \/ \E w \in Wraps : AsyncCallback(t, w) \/ CloseCallback(t, w) \/ Finalize(t, w)

\* A step is a step of some thread.
LEMMA NextIsStep == [Next]_vars => UNCHANGED vars \/ \E t \in Threads : StepOf(t)
BY DEF Next, StepOf

\* Every step of a thread is a WrapMove of all wraps.
LEMMA StepMoves ==
  ASSUME FrameInv, VarTypes, StackType, ~CloneRunsJS, NEW t \in Threads, StepOf(t)
  PROVE  \A w \in Wraps : WrapMove(t, w)
<1>1. CASE Script(t)
  BY <1>1, ScriptFrames
<1>2. CASE Proceed(t)
  BY <1>2, PostFrames, OtherFrames DEF Proceed
<1>3. CASE EnvCleanup(t)
  BY <1>3, CleanupFrames
<1>4. CASE \E w \in Wraps : AsyncCallback(t, w) \/ CloseCallback(t, w) \/ Finalize(t, w)
  BY <1>4, EventFrames
<1> QED BY <1>1, <1>2, <1>3, <1>4 DEF StepOf

\* Only the loop's close callback makes a wrap a closed one.
LEMMA WhoSeals ==
  ASSUME VarTypes, NEW t \in Threads, StepOf(t), NEW w \in Wraps, state'[w] = "Closed",
         state[w] # "Closed"
  PROVE  CloseCallback(t, w)
<1>1. /\ \A v : state' # BeginClosePort(v)
      /\ \A v, p : ~ReceivePort(t, v, p)
      /\ \A v : ~DetachTransferredPort(v)
      /\ \A v : ~Delete(v)
      /\ ~UNCHANGED state
  BY DEF BeginClosePort, ReceivePort, DetachTransferredPort, Delete, VarTypes, WrapTypes
<1>2. /\ \A v : ~TakeClose(v)
      /\ \A d, r : ~TakeMessage(t, d, r)
  BY <1>1 DEF TakeClose, TakeMessage
<1>3. CASE Script(t)
  <2>1. ASSUME NEW v, NEW u, NEW d, MessageChannel(t, v, u, d) PROVE FALSE
    BY <2>1 DEF MessageChannel, VarTypes, WrapTypes
  <2>2. ASSUME NEW v, NEW u, NEW d, BroadcastChannel(t, v, d, u) \/ StartWorker(t, u, v, d) PROVE FALSE
    BY <2>2 DEF BroadcastChannel, StartWorker, VarTypes, WrapTypes
  <2>3. ASSUME NEW v, GetEnvMessagePort(t, v) \/ ReceiveMessageOnPort(t, v) \/ Close(t, v) PROVE FALSE
    BY <1>1, <1>2, <2>3 DEF GetEnvMessagePort, ReceiveMessageOnPort, Close
  <2>4. ASSUME NEW v, NEW x, PostMessage(t, v, x) PROVE FALSE
    BY <1>1, <2>4 DEF PostMessage, wrapVars
  <2>5. ASSUME NEW v, DrainMessagePort(t, v) \/ Start(t, v) \/ Stop(t, v) PROVE FALSE
    BY <1>1, <2>5 DEF DrainMessagePort, Start, Stop, wrapVars
  <2> QED BY <1>3, <2>1, <2>2, <2>3, <2>4, <2>5 DEF Script
<1>4. CASE Proceed(t)
  BY <1>1, <1>2, <1>4 DEF Proceed, PostCloneFails, PostOnClosed, PostToPeer, PostToGroup, PostDetach,
     PostLost, PostMore, EnqueuePush, TriggerReadAttached, TriggerCheck, TriggerSend, PumpMessage,
     PumpReturn, PumpClose, PumpEnd, JoinGroup, CloseLeave, CloseDisentangle, CloseUnlinkPeer,
     CloseFinish, wrapVars
<1>5. CASE EnvCleanup(t)
  BY <1>5 DEF EnvCleanup
<1>6. ASSUME NEW v \in Wraps, AsyncCallback(t, v) \/ CloseCallback(t, v) \/ Finalize(t, v)
      PROVE  CloseCallback(t, w)
  <2>1. CloseCallback(t, v)
    BY <1>1, <1>6 DEF AsyncCallback, Finalize
  <2>2. v = w
    BY <2>1 DEF CloseCallback, VarTypes, WrapTypes
  <2> QED BY <2>1, <2>2
<1> QED BY <1>3, <1>4, <1>5, <1>6 DEF StepOf

\* The running frame is a frame.
LEMMA TopInFrames ==
  ASSUME StackType, NEW t \in Threads, stack[t] # << >>
  PROVE  Top(t) \in Frames
<1> DEFINE s == stack[t]
<1>1. s \in Seq(Frame) /\ s # << >> /\ Top(t) = s[Len(s)]
  BY DEF StackType, Top
<1>2. Len(s) \in DOMAIN s
  <2> HIDE DEF s
  <2> QED BY <1>1, PopMove DEF s
<1> QED BY <1>1, <1>2, OnFrames DEF In

\* A thread on its way through OnMessagePortClosed does nothing else.
LEMMA ShutSteps ==
  ASSUME ~CloneRunsJS, NEW t \in Threads, Shutting(t), StepOf(t)
  PROVE  CloseLeave(t) \/ CloseDisentangle(t)
<1>1. /\ stack[t] # << >> /\ Top(t).op = "close" /\ Top(t).pc \in {"leave", "disentangle"}
      /\ ~InJS(t)
  BY JSRests DEF Shutting, Resting, Paused
<1>2. ~Script(t) /\ ~EnvCleanup(t)
  BY <1>1 DEF Script, CanCall, EnvCleanup
<1>3. ~\E w \in Wraps : AsyncCallback(t, w) \/ CloseCallback(t, w) \/ Finalize(t, w)
  BY <1>1 DEF AsyncCallback, CloseCallback, Finalize
<1>4. Proceed(t)
  BY <1>2, <1>3 DEF StepOf
<1> QED BY <1>1, <1>4 DEF Proceed, PostCloneFails, PostOnClosed, PostToPeer, PostToGroup, PostDetach,
     PostLost, PostMore, EnqueuePush, TriggerReadAttached, TriggerCheck, TriggerSend, PumpMessage,
     PumpReturn, PumpClose, PumpEnd, JoinGroup, CloseUnlinkPeer, CloseFinish, At

\* Thread t is between the beginning of OnMessagePortClosed and the second
\* critical section of DisentanglePeer.
Midway(t) ==
  stack[t] # << >> /\ Top(t).op = "close" /\ Top(t).pc \in {"leave", "disentangle", "peer"}

\* Posting does not close.
LEMMA PostCloses ==
  ASSUME Below, StackType, NEW t \in Threads,
         PostToPeer(t) \/ PostToGroup(t) \/ PostDetach(t) \/ PostMore(t)
  PROVE  ~Midway(t)'
<1>1. stack[t] # << >> /\ Top(t).op = "post" /\ Top(t) \in PostFrame
  BY TopType DEF PostToPeer, PostToGroup, PostDetach, PostMore, At
<1>2. ASSUME NEW f, Continue(t, f), f.op # "close" PROVE ~Midway(t)'
  <2>1. Top(t)' = f
    BY <1>1, <1>2, TopMove
  <2> QED BY <1>2, <2>1 DEF Midway
<1>3. CASE Return(t)
  <2>1. ~Busy(t)'
    BY <1>1, <1>3, TopMove, RestIsCalm
  <2> QED BY <2>1 DEF Busy, Midway
<1>4. CASE PostNext(t, Top(t))
  <2>1. \E d : Top(t)' = Enqueue(d, Payload(Top(t).xdata))
    BY <1>1, <1>4, PostNextTop
  <2> QED BY <2>1 DEF Enqueue, Midway
<1>5. CASE PostToPeer(t)
  <2> DEFINE peer == Lock(data[Top(t).wrap])
             f == [Top(t) EXCEPT !.pc = "detach",
                     !.targets = IF Top(t).xdata = peer THEN {} ELSE {peer},
                     !.lost = Top(t).xdata = peer]
             g == Enqueue(peer, Payload(None))
  <2>1. Continue(t, f) \/ Continue(t, g)
    BY <1>5 DEF PostToPeer
  <2>2. f.op # "close" /\ g.op # "close"
    BY <1>1 DEF PostFrame, Enqueue
  <2> HIDE DEF f, g
  <2> QED BY <1>2, <2>1, <2>2
<1>6. CASE PostToGroup(t)
  <2> DEFINE f == [Top(t) EXCEPT !.pc = "detach", !.targets = BroadcastTargets(data[Top(t).wrap])]
  <2>1. Continue(t, f) \/ Return(t)
    BY <1>6 DEF PostToGroup
  <2>2. f.op # "close"
    BY <1>1 DEF PostFrame
  <2> HIDE DEF f
  <2> QED BY <1>2, <1>3, <2>1, <2>2
<1>7. CASE PostDetach(t)
  <2> DEFINE f == [Top(t) EXCEPT !.pc = "warn"]
  <2>1. Continue(t, f) \/ Return(t) \/ PostNext(t, Top(t))
    BY <1>7 DEF PostDetach
  <2>2. f.op # "close"
    BY <1>1 DEF PostFrame
  <2> HIDE DEF f
  <2> QED BY <1>2, <1>3, <1>4, <2>1, <2>2
<1> QED BY <1>4, <1>5, <1>6, <1>7 DEF PostMore

\* Only OnMessagePortClosed gets there.
LEMMA WhoIsMidway ==
  ASSUME FrameInv, StackType, ~CloneRunsJS, NEW t \in Threads, StepOf(t), Midway(t)'
  PROVE  (\E w \in Wraps : CloseCallback(t, w)) \/ CloseLeave(t) \/ CloseDisentangle(t)
<1>1. Below
  BY DEF FrameInv
<1>2. CASE Script(t) /\ \E w \in Wraps, x \in Wraps \cup {None} : PostMessage(t, w, x)
  <2>1. Resting(t)
    BY <1>2, JSRests DEF Script, CanCall
  <2>2. PICK w \in Wraps, x \in Wraps \cup {None} : PostMessage(t, w, x)
    BY <1>2
  <2> DEFINE f == [op |-> "post", pc |-> "clone", wrap |-> w, xwrap |-> x,
                   xdata |-> IF x = None THEN None ELSE data[x],
                   targets |-> {}, lost |-> FALSE]
  <2>3. Push(t, f) /\ f.op = "post"
    BY <2>2 DEF PostMessage
  <2> HIDE DEF f
  <2>4. Top(t)' = f
    BY <1>1, <2>1, <2>3, TopMove
  <2> QED BY <2>3, <2>4 DEF Midway
<1>3. CASE \/ Script(t) /\ ~\E w \in Wraps, x \in Wraps \cup {None} : PostMessage(t, w, x)
           \/ \E w \in Wraps : AsyncCallback(t, w) \/ Finalize(t, w)
           \/ EnvCleanup(t)
  <2>1. ~Busy(t)'
    BY <1>3, CalmEvents
  <2> QED BY <2>1 DEF Midway, Busy
<1>4. CASE PostToPeer(t) \/ PostToGroup(t) \/ PostDetach(t) \/ PostMore(t)
  BY <1>1, <1>4, PostCloses
<1>5. CASE CloseUnlinkPeer(t)
  <2>1. stack[t] # << >> /\ Top(t) \in CloseFrame
    BY <1>5, TopType DEF CloseUnlinkPeer, At
  <2> DEFINE f == [Top(t) EXCEPT !.pc = "onclose", !.peer = None]
             g == Enqueue(Top(t).peer, CloseMsg)
  <2>2. Call(t, f, g)
    BY <1>5 DEF CloseUnlinkPeer
  <2>3. f.op = "close" /\ f.pc = "onclose" /\ g.op = "enqueue"
    BY <2>1 DEF CloseFrame, Enqueue
  <2> HIDE DEF f, g
  <2>4. Paused(f)
    BY <2>3 DEF Paused
  <2>5. Top(t)' = g
    BY <1>1, <2>1, <2>2, <2>4, TopMove
  <2> QED BY <2>3, <2>5 DEF Midway
<1>6. CASE /\ Proceed(t) /\ ~CloseUnlinkPeer(t) /\ ~CloseLeave(t) /\ ~CloseDisentangle(t)
           /\ ~(PostToPeer(t) \/ PostToGroup(t) \/ PostDetach(t) \/ PostMore(t))
  <2>1. ~Busy(t)'
    BY <1>6, CalmFrames DEF Proceed
  <2> QED BY <2>1 DEF Midway, Busy
<1> QED BY <1>2, <1>3, <1>4, <1>5, <1>6 DEF StepOf

\* A Data is closed by DisentanglePeer.
LEMMA WhoCloses ==
  ASSUME TypeOK, NEW t \in Threads, StepOf(t), NEW d \in Datas, ~closed[d], closed'[d]
  PROVE  CloseDisentangle(t) /\ Top(t).own = d
<1>1. VarTypes
  BY TypeParts
<1>2. CloseDisentangle(t) => Top(t).own = d
  BY <1>1 DEF CloseDisentangle, VarTypes, DataTypes
<1>3. ASSUME NEW w, NEW p, ReceivePort(t, w, p) PROVE FALSE
  BY <1>1, <1>3 DEF ReceivePort, VarTypes, DataTypes
<1>4. ASSUME NEW q, NEW r, TakeMessage(t, q, r) PROVE FALSE
  BY <1>3, <1>4 DEF TakeMessage
<1>5. CASE Script(t)
  BY <1>3, <1>4, <1>5 DEF Script, MessageChannel, BroadcastChannel, StartWorker, GetEnvMessagePort,
     PostMessage, DrainMessagePort, ReceiveMessageOnPort, Start, Stop, Close, dataVars
<1>6. CASE Proceed(t)
  BY <1>2, <1>4, <1>6 DEF Proceed, PostCloneFails, PostOnClosed, PostToPeer, PostToGroup, PostDetach,
     PostLost, PostMore, EnqueuePush, TriggerReadAttached, TriggerCheck, TriggerSend, PumpMessage,
     PumpReturn, PumpClose, PumpEnd, JoinGroup, CloseLeave, CloseUnlinkPeer, CloseFinish, dataVars
<1>7. CASE EnvCleanup(t) \/ \E w \in Wraps : AsyncCallback(t, w) \/ CloseCallback(t, w) \/ Finalize(t, w)
  BY <1>7 DEF EnvCleanup, AsyncCallback, CloseCallback, Finalize, dataVars
<1> QED BY <1>5, <1>6, <1>7 DEF StepOf

\* Between "Closed" of the wrap and closed of its Data the close callback is
\* on its way from one to the other; what it is to close is open.
Shuts(t, w) == Shutting(t) /\ Top(t).wrap = w
ShutInv ==
  /\ \A w \in Wraps : state[w] = "Closed" /\ data[w] # None =>
       closed[data[w]] \/ \E t \in Threads : Shuts(t, w)
  /\ \A t \in Threads : Shutting(t) => ~closed[Top(t).own]

\* The frame that goes on after a critical section of OnMessagePortClosed.
LEMMA ShutGoesOn ==
  ASSUME FrameInv, TypeOK, NEW t \in Threads, CloseLeave(t) \/ CloseDisentangle(t)
  PROVE  /\ Shutting(t) /\ stack'[t] # << >> /\ Top(t)'.op = "close"
         /\ Top(t)'.wrap = Top(t).wrap /\ Top(t)'.own = Top(t).own
         /\ CloseLeave(t) => Shutting(t)'
         /\ CloseDisentangle(t) => /\ Top(t)'.peer = Lock(Top(t).own)
                                   /\ Top(t)'.pc = IF Top(t)'.peer = None THEN "onclose" ELSE "peer"
<1>1. VarTypes /\ StackType /\ Below
  BY TypeParts DEF FrameInv
<1>2. stack[t] # << >> /\ Top(t).op = "close" /\ Shutting(t)
  BY DEF CloseLeave, CloseDisentangle, At, Shutting
<1>3. PICK f \in Frame :
        /\ Continue(t, f) /\ f.op = Top(t).op /\ f.wrap = Top(t).wrap /\ f.own = Top(t).own
        /\ CloseLeave(t) => f.pc = "disentangle"
        /\ CloseDisentangle(t) => f.peer = Lock(Top(t).own) /\ f.pc = IF f.peer = None THEN "onclose" ELSE "peer"
  BY <1>1, CloseGoesOn
<1>4. Top(t)' = f /\ stack'[t] # << >>
  BY <1>1, <1>2, <1>3, TopMove
<1> QED BY <1>2, <1>3, <1>4 DEF Shutting

\* The wrap that a thread is closing, and its Data.
LEMMA ShutWraps ==
  ASSUME OwnInv, FrameInv, TypeOK, NEW u \in Threads, Shutting(u)
  PROVE  /\ Top(u).own \in Datas /\ data[Top(u).wrap] = Top(u).own
         /\ Top(u).wrap \in Wraps /\ thread[Top(u).wrap] = u
<1>1. VarTypes /\ StackType /\ FramesSound /\ Transfers
  BY TypeParts DEF FrameInv, OwnInv
<1>2. PassOK(Top(u), data, state) /\ Top(u).op = "close" /\ stack[u] # << >>
  BY <1>1 DEF Transfers, Passing, Shutting
<1>3. Top(u).wrap \in Wraps
  BY <1>1, <1>2, TopType DEF CloseFrame
<1>4. thread[Top(u).wrap] = u
  BY <1>1, <1>2, TopSound DEF FrameSound
<1> QED BY <1>2, <1>3, <1>4 DEF PassOK

\* A closed wrap stays until its Data is closed as well.
LEMMA ShutStays ==
  ASSUME ShutInv, OwnInv, FrameInv, TypeOK, ~CloneRunsJS, NEW t \in Threads, StepOf(t),
         NEW w \in Wraps, state[w] = "Closed", data[w] # None, ~closed[data[w]]
  PROVE  state'[w] = "Closed" /\ data'[w] = data[w]
<1>1. WrapMove(t, w)
  BY TypeParts, StepMoves
<1>2. PICK u \in Threads : Shutting(u) /\ Top(u).wrap = w
  BY DEF ShutInv, Shuts
<1>3. thread[w] = u
  BY <1>2, ShutWraps
<1>4. CASE u = t
  <2>1. CloseLeave(t) \/ CloseDisentangle(t)
    BY <1>2, <1>4, ShutSteps
  <2> QED BY <2>1 DEF CloseLeave, CloseDisentangle, wrapVars
<1>5. CASE u # t
  BY <1>1, <1>3, <1>5 DEF WrapMove
<1> QED BY <1>4, <1>5

\* Every step keeps ShutInv.
LEMMA ShutStep ==
  ASSUME ShutInv, OwnInv, FrameInv, TypeOK, ~CloneRunsJS, [Next]_vars, NEW t \in Threads, StepOf(t)
  PROVE  ShutInv'
<1>1. VarTypes /\ StackType /\ Below /\ Transfers /\ OpenWraps /\ Owned
  BY TypeParts DEF FrameInv, OwnInv
<1>2. Others(t) /\ \A w \in Wraps : WrapMove(t, w)
  BY <1>1, OthersStay, StepMoves DEF StepOf
<1>3. \A u \in Threads \ {t} : (Shutting(u)' <=> Shutting(u)) /\ Top(u)' = Top(u)
  BY <1>2 DEF Others, Shutting, Top
<1>4. \A u \in Threads : Shutting(u) =>
        Top(u).own \in Datas /\ data[Top(u).wrap] = Top(u).own /\ Top(u).wrap \in Wraps /\ thread[Top(u).wrap] = u
  BY ShutWraps
<1>5. ASSUME NEW w \in Wraps, CloseCallback(t, w)
      PROVE  /\ Top(t)'.wrap = w /\ Top(t)'.own = data[w]
             /\ (data[w] # None => Shutting(t)')
             /\ state[w] = "Closing" /\ UNCHANGED <<data, closed>>
             /\ (Shutting(t)' => data[w] # None)
  <2>1. PICK f : /\ Push(t, f) /\ f.op = "close" /\ f.wrap = w /\ f.own = data[w]
                 /\ f.pc \in {"leave", "disentangle", "onclose"}
                 /\ f.pc = "onclose" <=> data[w] = None
    BY <1>5, CloseStarts
  <2>2. stack[t] = << >> /\ state[w] = "Closing" /\ UNCHANGED <<data, closed>>
    BY <1>5 DEF CloseCallback
  <2>3. Top(t)' = f /\ stack'[t] # << >>
    BY <1>1, <2>1, <2>2, TopMove DEF Resting
  <2> QED BY <2>1, <2>2, <2>3 DEF Shutting
<1>6. ASSUME NEW w \in Wraps, state'[w] = "Closed", data'[w] # None
      PROVE  closed'[data'[w]] \/ \E u \in Threads : Shuts(u, w)'
  <2>1. CASE state[w] # "Closed"
    <3>1. CloseCallback(t, w)
      BY <1>1, <1>6, <2>1, WhoSeals
    <3> QED BY <1>5, <1>6, <3>1 DEF Shuts
  <2>2. CASE state[w] = "Closed"
    <3>1. data'[w] = data[w] /\ data[w] \in Datas
      BY <1>1, <1>2, <1>6, <2>2 DEF WrapMove, VarTypes, WrapTypes
    <3>2. CASE closed[data[w]]
      BY <3>1, <3>2, ClosedKept
    <3>3. CASE ~closed[data[w]]
      <4>1. PICK u \in Threads : Shuts(u, w)
        BY <1>6, <2>2, <3>1, <3>3 DEF ShutInv
      <4>2. CASE u # t
        BY <1>3, <4>1, <4>2 DEF Shuts
      <4>3. CASE u = t /\ CloseLeave(t)
        BY <4>1, <4>3, ShutGoesOn DEF Shuts
      <4>4. CASE u = t /\ CloseDisentangle(t)
        <5>1. Top(t).own = data[w]
          BY <1>4, <4>1, <4>4 DEF Shuts
        <5>2. closed'[data[w]]
          BY <1>1, <3>1, <4>4, <5>1 DEF CloseDisentangle, VarTypes, DataTypes
        <5> QED BY <3>1, <5>2
      <4> QED BY <4>1, <4>2, <4>3, <4>4, ShutSteps DEF Shuts
    <3> QED BY <3>2, <3>3
  <2> QED BY <2>1, <2>2
<1>7. ASSUME NEW u \in Threads, Shutting(u)' PROVE ~closed'[Top(u)'.own]
  <2>1. CASE u # t
    <3>1. Shutting(u) /\ Top(u)' = Top(u) /\ ~closed[Top(u).own]
      BY <1>3, <1>7, <2>1 DEF ShutInv
    <3>2. PICK d \in Datas : d = Top(u).own /\ data[Top(u).wrap] = d
      BY <1>4, <3>1
    <3>3. ASSUME closed'[d] PROVE FALSE
      <4>1. CloseDisentangle(t) /\ Top(t).own = d
        BY <3>1, <3>2, <3>3, WhoCloses
      <4>2. Shutting(t)
        BY <4>1, ShutGoesOn
      <4>3. Single(d)
        BY <1>1 DEF Owned
      <4>4. Top(t).wrap = Top(u).wrap
        BY <1>1, <1>4, <3>1, <3>2, <4>1, <4>2, <4>3, SingleMeans
      <4> QED BY <1>4, <2>1, <3>1, <4>2, <4>4
    <3> QED BY <3>1, <3>2, <3>3
  <2>2. CASE u = t /\ \E w \in Wraps : CloseCallback(t, w)
    <3>1. PICK w \in Wraps : CloseCallback(t, w)
      BY <2>2
    <3>2. Top(t)'.own = data[w] /\ data[w] # None /\ state[w] = "Closing" /\ UNCHANGED closed
      BY <1>5, <1>7, <2>2, <3>1
    <3> QED BY <1>1, <2>2, <3>2 DEF OpenWraps
  <2>3. CASE u = t /\ CloseLeave(t)
    <3>1. Shutting(t) /\ Top(t)'.own = Top(t).own /\ UNCHANGED closed
      BY <2>3, ShutGoesOn DEF CloseLeave
    <3> QED BY <2>3, <3>1 DEF ShutInv
  <2>4. CASE u = t /\ CloseDisentangle(t)
    BY <1>7, <2>4, ShutGoesOn DEF Shutting
  <2>5. Midway(t)' \/ u # t
    BY <1>7 DEF Shutting, Midway
  <2> QED BY <1>1, <2>1, <2>2, <2>3, <2>4, <2>5, WhoIsMidway
<1> QED BY <1>6, <1>7 DEF ShutInv

LEMMA ShutHeld == ASSUME ~CloneRunsJS PROVE Spec => []ShutInv
<1>1. Init => ShutInv
  BY DEF Init, ShutInv, Shutting
<1>2. TypeOK /\ FrameInv /\ OwnInv /\ ShutInv /\ [Next]_vars => ShutInv'
  <2> SUFFICES ASSUME TypeOK, FrameInv, OwnInv, ShutInv, [Next]_vars PROVE ShutInv'
    OBVIOUS
  <2>1. CASE UNCHANGED vars
    BY <2>1 DEF ShutInv, Shuts, Shutting, Top, vars, dataVars, wrapVars
  <2> QED BY <2>1, NextIsStep, ShutStep
<1> QED BY <1>1, <1>2, TypeCorrect, FrameHeld, OwnHeld, PTL DEF Spec

-----------------------------------------------------------------------------
(***************************************************************************)
(* The second part: the two ends of a channel point at each other          *)
(* (WellLinked), and a close is reported to the other end (CloseReported). *)
(* The inductive invariants are LinkInv and ReportInv; both rest on        *)
(* AliveKept: a Data that nobody can reach any more is never reached again. *)
(***************************************************************************)

\* The two parts of Owned are the two parts of SingleOwner.
LEMMA OneOwner == ASSUME Owned PROVE SingleOwner
<1> SUFFICES ASSUME NEW d \in Datas
             PROVE  /\ Cardinality(Owners(d)) <= 1
                    /\ \A q \in Datas : \A i, j \in DOMAIN queue[q] :
                         queue[q][i].port = d /\ queue[q][j].port = d => i = j
  BY DEF SingleOwner
<1>1. PICK p : Owners(d) \subseteq {p}
  BY DEF Owned, Single
<1>2. IsFiniteSet({p}) /\ Cardinality({p}) = 1
  BY FS_Singleton
<1>3. Cardinality(Owners(d)) <= 1
  BY <1>1, <1>2, FS_Subset
<1> QED BY <1>3 DEF Owned, Once

(***************************************************************************)
(* A Data that is gone does not come back                                  *)
(***************************************************************************)

\* Only holders of a living Data get hold of one that was constructed before.
AliveKept == \A d \in born : Alive(d)' => Alive(d)

\* What is held is alive.
LEMMA HeldAlive == \A d \in Datas : Held(d) => Alive(d)
BY DEF Alive

\* What a message of a living Data carries is alive.
LEMMA CarriedAlive ==
  ASSUME NEW q \in Datas, NEW d \in Datas, Alive(q), Carries(q, d)
  PROVE  Alive(d)
<1>1. PICK S \in SUBSET Datas : q \in S /\ \A e \in S : Held(e) \/ \E r \in S : Carries(r, e)
  <2>1. CASE Held(q)
    <3> DEFINE S == {q}
    <3>1. S \in SUBSET Datas /\ q \in S /\ \A e \in S : Held(e) \/ \E r \in S : Carries(r, e)
      BY <2>1
    <3> QED BY <3>1
  <2>2. CASE ~Held(q)
    BY <2>2 DEF Alive
  <2> QED BY <2>1, <2>2
<1> DEFINE T == S \cup {d}
<1>2. T \in SUBSET Datas /\ d \in T
  OBVIOUS
<1>3. \A e \in T : Held(e) \/ \E r \in T : Carries(r, e)
  BY <1>1
<1> HIDE DEF T
<1> QED BY <1>2, <1>3 DEF Alive

\* When a step lets nobody but a holder of a living Data hold one, the set of
\* the living ones closes under what carries them.
LEMMA AliveStep ==
  ASSUME OnlyBorn,
         \A d \in born : Held(d)' => Alive(d),
         \A q \in Datas, d \in born : Carries(q, d)' => Carries(q, d) \/ Alive(d)
  PROVE  AliveKept
<1> SUFFICES ASSUME NEW d \in born, Alive(d)' PROVE Alive(d)
  BY DEF AliveKept
<1>1. CASE Held(d)'
  BY <1>1
<1>2. CASE ~Held(d)'
  <2>1. PICK S \in SUBSET Datas : d \in S /\ \A e \in S : Held(e)' \/ \E q \in S : Carries(q, e)'
    BY <1>2 DEF Alive
  <2> DEFINE L == {e \in Datas : Alive(e)}
             T == (S \cap born) \cup L
  <2>2. T \in SUBSET Datas /\ d \in T
    BY <2>1
  <2>3. ASSUME NEW e \in L PROVE Held(e) \/ \E q \in L : Carries(q, e)
    <3> SUFFICES ASSUME ~Held(e) PROVE \E q \in L : Carries(q, e)
      OBVIOUS
    <3>1. PICK R \in SUBSET Datas : e \in R /\ \A x \in R : Held(x) \/ \E q \in R : Carries(q, x)
      BY DEF Alive
    <3>2. PICK q \in R : Carries(q, e)
      BY <3>1
    <3>3. Alive(q)
      BY <3>1 DEF Alive
    <3> QED BY <3>2, <3>3
  <2>4. ASSUME NEW q \in Datas, NEW e \in Datas, Carries(q, e) PROVE q \in born
    <3>1. queue[q] # << >>
      <4> SUFFICES ASSUME queue[q] = << >> PROVE FALSE
        OBVIOUS
      <4>1. DOMAIN queue[q] = {}
        OBVIOUS
      <4> QED BY <2>4, <4>1 DEF Carries
    <3> QED BY <3>1 DEF OnlyBorn, ObjectsBorn, Fresh
  <2>5. ASSUME NEW e \in T PROVE Held(e) \/ \E q \in T : Carries(q, e)
    <3>1. CASE e \in L
      BY <2>3, <3>1
    <3>2. CASE e \notin L
      <4>1. e \in S /\ e \in born /\ e \in Datas /\ ~Alive(e)
        BY <2>2, <3>2
      <4>2. ~Held(e)'
        BY <4>1
      <4>3. PICK q \in S : Carries(q, e)'
        BY <2>1, <4>1, <4>2
      <4>4. Carries(q, e)
        BY <4>1, <4>3
      <4>5. q \in born
        BY <2>4, <4>1, <4>4
      <4> QED BY <4>4, <4>5
    <3> QED BY <3>1, <3>2
  <2> HIDE DEF T
  <2> QED BY <2>2, <2>5 DEF Alive
<1> QED BY <1>1, <1>2

\* A frame that holds living Datas only.
Safe(f) == \A d \in Datas : FrameHolds(f, d) => Alive(d)

\* What the frames of a stack hold is alive.
LEMMA FramesSafe ==
  ASSUME NEW u \in Threads, NEW x, In(x, stack[u])
  PROVE  Safe(x)
<1>1. ASSUME NEW d \in Datas, FrameHolds(x, d) PROVE Held(d)
  BY <1>1 DEF In, Held
<1> QED BY <1>1, HeldAlive DEF Safe

\* A destroyed environment stays destroyed: no wrap of it comes back.
LEMMA BrokenStays ==
  ASSUME NEW t \in Threads, \A w \in Wraps : WrapMove(t, w), \A u \in Threads : cleanup[u] => cleanup'[u],
         NEW u \in Threads, Destroyed(u)
  PROVE  Destroyed(u)'
<1> SUFFICES ASSUME NEW w \in Wraps, Own(u, w)' PROVE FALSE
  BY DEF Destroyed
<1>1. cleanup[u] /\ ~(state[w] \in {"Initialized", "Closing", "Closed"} /\ thread[w] = u)
  BY DEF Destroyed, Own, Live
<1>2. state'[w] \in {"Initialized", "Closing", "Closed"} /\ thread'[w] = u
  BY DEF Own, Live
<1>3. WrapMove(t, w)
  OBVIOUS
<1> QED BY <1>1, <1>2, <1>3 DEF WrapMove

\* AliveStep, by who holds a Data: a wrap, an environment, a frame or a message.
LEMMA AliveMoves ==
  ASSUME OnlyBorn, VarTypes, NEW t \in Threads,
         \A w \in Wraps : WrapMove(t, w), \A u \in Threads : cleanup[u] => cleanup'[u],
         \A w \in Wraps : \A d \in born : data'[w] = d => data[w] = d \/ Alive(d),
         \A u \in Threads : \A d \in born : envData'[u] = d => envData[u] = d,
         \A u \in Threads : \A x : In(x, stack'[u]) => Safe(x),
         \A q \in Datas : \A d \in born : Carries(q, d)' => Carries(q, d) \/ Alive(d)
  PROVE  AliveKept
<1>1. ASSUME NEW d \in born, Held(d)' PROVE Alive(d)
  <2>0. d \in Datas
    BY DEF VarTypes, DataTypes
  <2>1. CASE \E w \in Wraps : data'[w] = d
    BY <2>1 DEF Alive, Held
  <2>2. CASE \E u \in Threads : envData'[u] = d /\ ~Destroyed(u)'
    <3>1. PICK u \in Threads : envData'[u] = d /\ ~Destroyed(u)'
      BY <2>2
    <3>2. envData[u] = d /\ ~Destroyed(u)
      BY <3>1, BrokenStays
    <3> QED BY <3>2 DEF Alive, Held
  <2>3. CASE \E u \in Threads : \E i \in DOMAIN stack'[u] : FrameHolds(stack'[u][i], d)
    <3>1. PICK u \in Threads : \E i \in DOMAIN stack'[u] : FrameHolds(stack'[u][i], d)
      BY <2>3
    <3>2. PICK x : In(x, stack'[u]) /\ FrameHolds(x, d)
      BY <3>1 DEF In
    <3>3. Safe(x)
      BY <3>2
    <3> QED BY <2>0, <3>2, <3>3 DEF Safe
  <2> QED BY <1>1, <2>1, <2>2, <2>3 DEF Held
<1> QED BY <1>1, AliveStep

\* The frames of a step that pushes, goes on, calls or returns.
LEMMA SafeFrames ==
  ASSUME StackType, NEW t \in Threads, NEW f, NEW g,
         \/ UNCHANGED stack
         \/ Push(t, f)
         \/ stack[t] # << >> /\ (Return(t) \/ Continue(t, f) \/ Call(t, f, g)),
         Safe(f), Safe(g)
  PROVE  \A u \in Threads : \A x : In(x, stack'[u]) => Safe(x)
<1>1. /\ \A u \in Threads \ {t} : stack'[u] = stack[u]
      /\ \A x : In(x, stack'[t]) => In(x, stack[t]) \/ x = f \/ x = g
  BY StacksMove
<1>2. \A u \in Threads : \A x : In(x, stack[u]) => Safe(x)
  BY FramesSafe
<1> QED BY <1>1, <1>2

\* A frame that holds nothing.
LEMMA EmptySafe ==
  /\ \A f : f.op = "pump" => Safe(f)
  /\ \A f : f.op = "close" /\ f.peer = None => Safe(f)
  /\ \A f : f.op = "post" /\ f.xdata = None /\ f.targets = {} => Safe(f)
  /\ \A f : f.op = "join" => Safe(f)
<1>1. None \notin Datas
  BY ConstantsAssumption
<1> QED BY <1>1 DEF Safe, FrameHolds

\* A broadcast port that names a group, or is a member of one, has a wrap.
MembersHeld == \A d \in Datas :
  group[d] # None \/ (\E g \in Groups : d \in members[g]) => \E w \in Wraps : data[w] = d

\* A message that is taken gives its port to a wrap or to nobody.
LEMMA TakeAlive ==
  ASSUME Owned, VarTypes, NEW t, NEW d \in Datas, queue[d] # << >>, NEW r, TakeMessage(t, d, r),
         Alive(d)
  PROVE  /\ \A w \in Wraps : \A e \in born : data'[w] = e => data[w] = e \/ Alive(e)
         /\ \A q \in Datas : \A e \in born : Carries(q, e)' => Carries(q, e)
<1>1. queue' = [queue EXCEPT ![d] = Tail(@)]
  BY DEF TakeMessage
<1>2. Shrinks
  BY <1>1 DEF Shrinks, VarTypes, DataTypes
<1>3. \A q \in Datas : \A e \in born : Carries(q, e)' => Carries(q, e)
  <2>1. \A e \in born : e \in Datas
    BY DEF VarTypes, DataTypes
  <2> QED BY <1>2, <2>1, ShrinksCarries DEF Owned
<1> DEFINE s == queue[d]
<1>4. s \in Seq(Message) /\ s # << >>
  BY DEF VarTypes, DataTypes
<1> HIDE DEF s
<1>5. 1 \in DOMAIN s /\ Head(s) = s[1] /\ s[1] \in Message
  BY <1>4, TailIndex, ElementOfSeq, LenProperties
<1> DEFINE p == Head(s).port
<1>6. CASE UNCHANGED data
  BY <1>3, <1>6
<1>7. CASE p # None /\ \E w \in Wraps : ReceivePort(t, w, p)
  <2>1. p \in Datas
    BY <1>5, <1>7 DEF Message
  <2>2. Carries(d, p)
    BY <1>5 DEF Carries, s
  <2>3. Alive(p)
    BY <2>1, <2>2, CarriedAlive
  <2> HIDE DEF p
  <2>4. PICK w \in Wraps : data' = [data EXCEPT ![w] = p]
    BY <1>7 DEF ReceivePort
  <2>5. \A v \in Wraps : data'[v] = data[v] \/ data'[v] = p
    BY <2>4 DEF VarTypes, WrapTypes
  <2> QED BY <1>3, <2>3, <2>5
<1> QED BY <1>6, <1>7 DEF TakeMessage, s

\* The queues and wraps lose Datas only, the environments stay.
LEMMA AliveQuiet ==
  ASSUME OnlyBorn, VarTypes, Owned, NEW t \in Threads,
         \A w \in Wraps : WrapMove(t, w), UNCHANGED <<cleanup, envData>>,
         \A w \in Wraps : data'[w] \in {data[w], None},
         UNCHANGED queue \/ Shrinks,
         \A u \in Threads : \A x : In(x, stack'[u]) => Safe(x)
  PROVE  AliveKept
<1>1. \A d \in born : d \in Datas /\ d # None
  BY ConstantsAssumption DEF VarTypes, DataTypes
<1>2. \A q \in Datas : \A d \in born : Carries(q, d)' => Carries(q, d)
  BY <1>1, ShrinksCarries DEF Owned, Carries
<1>3. \A w \in Wraps : \A d \in born : data'[w] = d => data[w] = d
  BY <1>1
<1> QED BY <1>2, <1>3, AliveMoves

\* Frames as they were.
LEMMA SameSafe ==
  ASSUME UNCHANGED stack
  PROVE  \A u \in Threads : \A x : In(x, stack'[u]) => Safe(x)
BY FramesSafe

\* A stack that loses its last frame, or gets one.
LEMMA ReturnSafe ==
  ASSUME StackType, NEW t \in Threads, stack[t] # << >>, Return(t)
  PROVE  \A u \in Threads : \A x : In(x, stack'[u]) => Safe(x)
<1> DEFINE f == Pump(None, FALSE, 0)
<1>1. Safe(f)
  BY EmptySafe DEF Pump
<1> HIDE DEF f
<1> QED BY <1>1, SafeFrames

\* A frame is added, or takes the place of the running one.
LEMMA PushSafe ==
  ASSUME StackType, NEW t \in Threads, NEW f, Safe(f),
         Push(t, f) \/ (stack[t] # << >> /\ Continue(t, f))
  PROVE  \A u \in Threads : \A x : In(x, stack'[u]) => Safe(x)
BY SafeFrames

\* What the running frame holds is alive.
LEMMA TopSafe == \A t \in Threads : stack[t] # << >> /\ StackType => Safe(Top(t))
<1> SUFFICES ASSUME NEW t \in Threads, stack[t] # << >>, StackType PROVE Safe(Top(t))
  OBVIOUS
<1> DEFINE s == stack[t]
<1>1. s \in Seq(Frame) /\ Top(t) = s[Len(s)]
  BY DEF StackType, Top
<1>2. Len(s) \in DOMAIN s
  <2> HIDE DEF s
  <2> QED BY <1>1, PopMove DEF s
<1> QED BY <1>1, <1>2, FramesSafe DEF In

\* A call from JavaScript brings no Data back: it makes new ones, or takes a
\* message from the queue of a Data that its wrap holds.
LEMMA ScriptAlive ==
  ASSUME OwnInv, OnlyBorn, FrameInv, VarTypes, StackType, NEW t \in Threads, Script(t),
         \A w \in Wraps : WrapMove(t, w)
  PROVE  AliveKept
<1>1. UNCHANGED cleanup /\ ~cleanup[t] /\ Owned
  BY DEF Script, CanCall, MessageChannel, BroadcastChannel, StartWorker, GetEnvMessagePort, PostMessage,
     DrainMessagePort, ReceiveMessageOnPort, Start, Stop, Close, envVars, OwnInv
<1>2. CASE \E w \in Wraps, x \in Wraps \cup {None} : PostMessage(t, w, x)
  <2>1. PICK w \in Wraps, x \in Wraps \cup {None} : PostMessage(t, w, x)
    BY <1>2
  <2> DEFINE f == [op |-> "post", pc |-> "clone", wrap |-> w, xwrap |-> x,
                   xdata |-> IF x = None THEN None ELSE data[x],
                   targets |-> {}, lost |-> FALSE]
  <2>2. Push(t, f) /\ UNCHANGED <<data, envData, queue>>
    BY <2>1 DEF PostMessage, dataVars, wrapVars, envVars
  <2>3. Safe(f)
    <3> SUFFICES ASSUME NEW d \in Datas, f.xdata = d PROVE Alive(d)
      BY DEF Safe, FrameHolds
    <3>1. x \in Wraps /\ data[x] = d
      BY ConstantsAssumption
    <3> QED BY <3>1 DEF Alive, Held
  <2> HIDE DEF f
  <2> QED BY <1>1, <2>2, <2>3, PushSafe, AliveQuiet
<1>3. ASSUME NEW B, \A d \in B : d \notin born, UNCHANGED queue,
             \A u \in Threads : \A x : In(x, stack'[u]) => Safe(x),
             \A w \in Wraps : data'[w] = data[w] \/ data'[w] \in B,
             \A u \in Threads : envData'[u] = envData[u] \/ envData'[u] \in B
      PROVE  AliveKept
  <2>2. \A q \in Datas : \A d \in born : Carries(q, d)' => Carries(q, d)
    BY <1>3 DEF Carries
  <2> QED BY <1>1, <1>3, <2>2, AliveMoves
<1>4. CASE \E v, w \in Wraps, d \in Datas : MessageChannel(t, v, w, d)
  <2>1. PICK v \in Wraps, w \in Wraps, d \in Datas : MessageChannel(t, v, w, d)
    BY <1>4
  <2> DEFINE B == {d, Twin[d]}
  <2>2. \A e \in B : e \notin born
    BY <2>1 DEF MessageChannel, NewData, OnlyBorn, ObjectsBorn, Twinned
  <2>3. /\ data' = [data EXCEPT ![v] = d, ![w] = Twin[d]]
        /\ UNCHANGED <<queue, stack, envData>>
    BY <2>1 DEF MessageChannel, envVars
  <2>4. \A u \in Wraps : data'[u] = data[u] \/ data'[u] \in B
    BY <2>3 DEF VarTypes, WrapTypes
  <2>5. \A u \in Threads : \A x : In(x, stack'[u]) => Safe(x)
    BY <2>3, SameSafe
  <2> HIDE DEF B
  <2> QED BY <1>3, <2>2, <2>3, <2>4, <2>5
<1>5. CASE \E w \in Wraps, d \in Datas, g \in Groups : BroadcastChannel(t, w, d, g)
  <2>1. PICK w \in Wraps, d \in Datas, g \in Groups : BroadcastChannel(t, w, d, g)
    BY <1>5
  <2> DEFINE B == {d}
  <2>2. \A e \in B : e \notin born
    BY <2>1 DEF BroadcastChannel, NewData
  <2>3. data' = [data EXCEPT ![w] = d] /\ UNCHANGED <<queue, envData>>
    BY <2>1 DEF BroadcastChannel, envVars
  <2>4. \A u \in Wraps : data'[u] = data[u] \/ data'[u] \in B
    BY <2>3 DEF VarTypes, WrapTypes
  <2> DEFINE f == [op |-> "join", pc |-> "list", wrap |-> w, own |-> d, group |-> g]
  <2>5. Push(t, f) /\ Safe(f)
    BY <2>1, EmptySafe DEF BroadcastChannel
  <2> HIDE DEF f
  <2>6. \A u \in Threads : \A x : In(x, stack'[u]) => Safe(x)
    BY <2>5, PushSafe
  <2> HIDE DEF B
  <2> QED BY <1>3, <2>2, <2>3, <2>4, <2>6
<1>6. CASE \E w \in Wraps, u \in Threads, d \in Datas : StartWorker(t, u, w, d)
  <2>1. PICK w \in Wraps, v \in Threads, d \in Datas : StartWorker(t, v, w, d)
    BY <1>6
  <2> DEFINE B == {d, Twin[d]}
  <2>2. \A e \in B : e \notin born
    BY <2>1 DEF StartWorker, NewData, OnlyBorn, ObjectsBorn, Twinned
  <2>3. /\ data' = [data EXCEPT ![w] = d] /\ envData' = [envData EXCEPT ![v] = Twin[d]]
        /\ UNCHANGED <<queue, stack>>
    BY <2>1 DEF StartWorker
  <2>4. /\ \A u \in Wraps : data'[u] = data[u] \/ data'[u] \in B
        /\ \A u \in Threads : envData'[u] = envData[u] \/ envData'[u] \in B
    BY <2>3 DEF VarTypes, WrapTypes, EnvTypes
  <2>5. \A u \in Threads : \A x : In(x, stack'[u]) => Safe(x)
    BY <2>3, SameSafe
  <2> HIDE DEF B
  <2> QED BY <1>3, <2>2, <2>3, <2>4, <2>5
<1>7. CASE \E w \in Wraps : GetEnvMessagePort(t, w)
  <2>1. PICK w \in Wraps : GetEnvMessagePort(t, w)
    BY <1>7
  <2>2. data' = [data EXCEPT ![w] = envData[t]] /\ UNCHANGED <<queue, stack, envData>>
    BY <2>1 DEF GetEnvMessagePort, ReceivePort
  <2>3. \A d \in born : envData[t] = d => Alive(d)
    BY <1>1 DEF Destroyed, Alive, Held
  <2>4. \A v \in Wraps : data'[v] = data[v] \/ data'[v] = envData[t]
    BY <2>2 DEF VarTypes, WrapTypes
  <2>5. \A u \in Threads : \A x : In(x, stack'[u]) => Safe(x)
    BY <2>2, SameSafe
  <2>6. \A q \in Datas : \A d \in born : Carries(q, d)' => Carries(q, d)
    BY <2>2 DEF Carries
  <2>7. \A v \in Wraps : \A d \in born : data'[v] = d => data[v] = d \/ Alive(d)
    BY <2>3, <2>4
  <2> QED BY <1>1, <2>2, <2>5, <2>6, <2>7, AliveMoves
<1>8. CASE \E w \in Wraps : ReceiveMessageOnPort(t, w)
  <2>1. PICK w \in Wraps : ReceiveMessageOnPort(t, w)
    BY <1>8
  <2>2. PICK d \in Datas : d = data[w]
    BY <2>1 DEF ReceiveMessageOnPort, VarTypes, WrapTypes
  <2>3. UNCHANGED <<stack, envData>> /\ queue[d] # << >> /\ Alive(d)
    BY <2>1, <2>2 DEF ReceiveMessageOnPort, envVars, Alive, Held
  <2>4. \A u \in Threads : \A x : In(x, stack'[u]) => Safe(x)
    BY <2>3, SameSafe
  <2>5. CASE \E r : TakeMessage(t, d, r)
    <3>1. /\ \A v \in Wraps : \A e \in born : data'[v] = e => data[v] = e \/ Alive(e)
          /\ \A q \in Datas : \A e \in born : Carries(q, e)' => Carries(q, e)
      BY <1>1, <2>3, <2>5, TakeAlive
    <3> QED BY <1>1, <2>3, <2>4, <3>1, AliveMoves
  <2>6. CASE TakeClose(w) /\ UNCHANGED data
    <3>1. Shrinks
      BY <2>2, <2>3, <2>6 DEF TakeClose, Shrinks, VarTypes, DataTypes
    <3> QED BY <1>1, <2>3, <2>4, <2>6, <3>1, AliveQuiet
  <2> QED BY <2>1, <2>2, <2>5, <2>6 DEF ReceiveMessageOnPort
<1>9. CASE \E w \in Wraps : DrainMessagePort(t, w)
  <2>1. UNCHANGED <<queue, data, envData>> /\ \E w \in Wraps : Push(t, Pump(w, TRUE, 0))
    BY <1>9 DEF DrainMessagePort, dataVars, wrapVars, envVars
  <2>2. \A w : Safe(Pump(w, TRUE, 0))
    BY EmptySafe DEF Pump
  <2>3. \A u \in Threads : \A x : In(x, stack'[u]) => Safe(x)
    BY <2>1, <2>2, PushSafe
  <2> QED BY <1>1, <2>1, <2>3, AliveQuiet
<1>10. CASE \E w \in Wraps : Start(t, w) \/ Stop(t, w) \/ Close(t, w)
  <2>1. UNCHANGED <<queue, data, envData, stack>>
    BY <1>10 DEF Start, Stop, Close, dataVars, envVars
  <2> QED BY <1>1, <2>1, SameSafe, AliveQuiet
<1> QED BY <1>2, <1>4, <1>5, <1>6, <1>7, <1>8, <1>9, <1>10 DEF Script

\* The frames of the next message of a post hold what the post held.
LEMMA NextSafe ==
  ASSUME StackType, NEW t \in Threads, stack[t] # << >>, Top(t).op = "post", PostNext(t, Top(t))
  PROVE  \A u \in Threads : \A x : In(x, stack'[u]) => Safe(x)
<1>1. PICK d \in Top(t).targets :
        LET call == Enqueue(d, Payload(Top(t).xdata)) IN
          IF Top(t).targets = {d}
          THEN Continue(t, call)
          ELSE Call(t, [Top(t) EXCEPT !.pc = "push", !.targets = @ \ {d}, !.xdata = None], call)
  BY DEF PostNext
<1> DEFINE g == Enqueue(d, Payload(Top(t).xdata))
           f == [Top(t) EXCEPT !.pc = "push", !.targets = @ \ {d}, !.xdata = None]
<1>2. Safe(Top(t)) /\ Top(t) \in PostFrame /\ None \notin Datas
  BY TopSafe, TopType, ConstantsAssumption
<1>3. Safe(g)
  <2>1. \A e \in Datas : FrameHolds(g, e) => FrameHolds(Top(t), e)
    BY <1>2 DEF FrameHolds, Enqueue, Payload, PostFrame
  <2> QED BY <1>2, <2>1 DEF Safe
<1>4. Safe(f)
  <2>1. f.op = "post" /\ f.xdata = None /\ f.targets \subseteq Top(t).targets
    BY <1>2 DEF PostFrame
  <2> HIDE DEF f
  <2>2. \A e \in Datas : FrameHolds(f, e) => FrameHolds(Top(t), e)
    BY <1>2, <2>1 DEF FrameHolds
  <2> QED BY <1>2, <2>2 DEF Safe
<1>5. Continue(t, g) \/ Call(t, f, g)
  BY <1>1
<1> HIDE DEF f, g
<1>6. CASE Continue(t, g)
  BY <1>3, <1>6, PushSafe
<1>7. CASE Call(t, f, g)
  BY <1>3, <1>4, <1>7, SafeFrames
<1> QED BY <1>5, <1>6, <1>7

\* A frame that holds no more than the running one.
LEMMA LessSafe ==
  ASSUME StackType, NEW t \in Threads, stack[t] # << >>, NEW f, Continue(t, f),
         \A e \in Datas : FrameHolds(f, e) => FrameHolds(Top(t), e) \/ Alive(e)
  PROVE  \A u \in Threads : \A x : In(x, stack'[u]) => Safe(x)
<1>1. Safe(f)
  BY TopSafe DEF Safe
<1> QED BY <1>1, PushSafe

\* The members of a group are alive: they have wraps.
LEMMA TargetsAlive ==
  ASSUME MembersHeld, VarTypes, NEW d \in Datas
  PROVE  \A e \in BroadcastTargets(d) : Alive(e)
<1> SUFFICES ASSUME group[d] # None, NEW e \in members[group[d]] PROVE Alive(e)
  BY DEF BroadcastTargets
<1>1. group[d] \in Groups /\ e \in Datas
  BY DEF VarTypes, DataTypes
<1> QED BY <1>1 DEF MembersHeld, Alive, Held

\* Posting: the targets come from a link that is locked, or from a group.
LEMMA PostAlive ==
  ASSUME OwnInv, MembersHeld, OnlyBorn, VarTypes, StackType, NEW t \in Threads,
         \A w \in Wraps : WrapMove(t, w),
         \/ PostCloneFails(t) \/ PostOnClosed(t) \/ PostToPeer(t) \/ PostToGroup(t)
         \/ PostDetach(t) \/ PostLost(t) \/ PostMore(t)
  PROVE  AliveKept
<1>1. Owned /\ UNCHANGED <<cleanup, envData, queue>>
  BY DEF PostCloneFails, PostOnClosed, PostToPeer, PostToGroup, PostDetach, PostLost, PostMore,
     dataVars, envVars, OwnInv
<1>2. stack[t] # << >> /\ Top(t).op = "post" /\ Top(t) \in PostFrame /\ None \notin Datas
  BY TopType, ConstantsAssumption DEF PostCloneFails, PostOnClosed, PostToPeer, PostToGroup, PostDetach,
     PostLost, PostMore, At
<1>3. \A w \in Wraps : data'[w] \in {data[w], None}
  <2>1. UNCHANGED data \/ DetachTransferredPort(Top(t).xwrap)
    BY DEF PostCloneFails, PostOnClosed, PostToPeer, PostToGroup, PostDetach, PostLost, PostMore,
       wrapVars
  <2> QED BY <2>1 DEF DetachTransferredPort, VarTypes, WrapTypes
<1>4. SUFFICES \A u \in Threads : \A x : In(x, stack'[u]) => Safe(x)
  BY <1>1, <1>3, AliveQuiet
<1>5. CASE PostCloneFails(t) \/ PostOnClosed(t) \/ PostLost(t)
  BY <1>2, <1>5, ReturnSafe DEF PostCloneFails, PostOnClosed, PostLost
<1>6. CASE PostToPeer(t)
  <2> DEFINE peer == Lock(data[Top(t).wrap])
             f == [Top(t) EXCEPT !.pc = "detach",
                     !.targets = IF Top(t).xdata = peer THEN {} ELSE {peer},
                     !.lost = Top(t).xdata = peer]
             g == Enqueue(peer, Payload(None))
  <2>1. Continue(t, f) \/ Continue(t, g)
    BY <1>6 DEF PostToPeer
  <2>2. peer # None => Alive(peer)
    BY DEF Lock
  <2>3. peer # None
    BY <1>6 DEF PostToPeer
  <2>4. f.op = "post" /\ f.xdata = Top(t).xdata /\ f.targets \subseteq {peer}
    BY <1>2 DEF PostFrame
  <2>5. g.op = "enqueue" /\ g.target = peer /\ g.msg.port = None
    BY DEF Enqueue, Payload
  <2> HIDE DEF f, g, peer
  <2>6. \A e \in Datas : FrameHolds(f, e) => FrameHolds(Top(t), e) \/ Alive(e)
    BY <1>2, <2>2, <2>3, <2>4 DEF FrameHolds
  <2>7. \A e \in Datas : FrameHolds(g, e) => FrameHolds(Top(t), e) \/ Alive(e)
    BY <1>2, <2>2, <2>3, <2>5 DEF FrameHolds
  <2> QED BY <1>2, <2>1, <2>6, <2>7, LessSafe
<1>7. CASE PostToGroup(t)
  <2> DEFINE f == [Top(t) EXCEPT !.pc = "detach", !.targets = BroadcastTargets(data[Top(t).wrap])]
  <2>1. Continue(t, f) \/ Return(t)
    BY <1>7 DEF PostToGroup
  <2>2. data[Top(t).wrap] \in Datas
    <3>1. Top(t).wrap \in Wraps /\ data[Top(t).wrap] # None
      BY <1>2, <1>7 DEF PostToGroup, Usable, PostFrame
    <3> QED BY <3>1 DEF VarTypes, WrapTypes
  <2>3. \A e \in f.targets : Alive(e)
    BY <1>2, <2>2, TargetsAlive DEF PostFrame
  <2>4. f.op = "post" /\ f.xdata = Top(t).xdata
    BY <1>2 DEF PostFrame
  <2> HIDE DEF f
  <2>5. \A e \in Datas : FrameHolds(f, e) => FrameHolds(Top(t), e) \/ Alive(e)
    BY <1>2, <2>3, <2>4 DEF FrameHolds
  <2>6. CASE Continue(t, f)
    BY <1>2, <2>5, <2>6, LessSafe
  <2>7. CASE Return(t)
    BY <1>2, <2>7, ReturnSafe
  <2> QED BY <2>1, <2>6, <2>7
<1>8. CASE PostDetach(t)
  <2> DEFINE f == [Top(t) EXCEPT !.pc = "warn"]
  <2>1. Continue(t, f) \/ Return(t) \/ PostNext(t, Top(t))
    BY <1>8 DEF PostDetach
  <2>2. f.op = "post" /\ f.xdata = Top(t).xdata /\ f.targets = Top(t).targets
    BY <1>2 DEF PostFrame
  <2> HIDE DEF f
  <2>3. \A e \in Datas : FrameHolds(f, e) => FrameHolds(Top(t), e) \/ Alive(e)
    BY <1>2, <2>2 DEF FrameHolds
  <2>4. CASE Continue(t, f)
    BY <1>2, <2>3, <2>4, LessSafe
  <2>5. CASE Return(t)
    BY <1>2, <2>5, ReturnSafe
  <2>6. CASE PostNext(t, Top(t))
    BY <1>2, <2>6, NextSafe
  <2> QED BY <2>1, <2>4, <2>5, <2>6
<1>9. CASE PostMore(t)
  BY <1>2, <1>9, NextSafe DEF PostMore
<1> QED BY <1>5, <1>6, <1>7, <1>8, <1>9

\* A message that is queued leaves a frame that held its port.
LEMMA EnqueueAlive ==
  ASSUME OwnInv, OnlyBorn, VarTypes, StackType, NEW t \in Threads,
         \A w \in Wraps : WrapMove(t, w),
         EnqueuePush(t) \/ TriggerReadAttached(t) \/ TriggerCheck(t) \/ TriggerSend(t)
  PROVE  AliveKept
<1>1. Owned /\ UNCHANGED <<cleanup, envData, data>>
  BY DEF EnqueuePush, TriggerReadAttached, TriggerCheck, TriggerSend, wrapVars, envVars, OwnInv
<1>2. stack[t] # << >> /\ Top(t).op = "enqueue" /\ Top(t) \in EnqueueFrame /\ None \notin Datas
  BY TopType, ConstantsAssumption DEF EnqueuePush, TriggerReadAttached, TriggerCheck, TriggerSend, At
<1>3. ASSUME NEW f, Continue(t, f), f.op = "enqueue", f.target = Top(t).target, f.msg = Top(t).msg
      PROVE  \A u \in Threads : \A x : In(x, stack'[u]) => Safe(x)
  <2>1. \A e \in Datas : FrameHolds(f, e) => FrameHolds(Top(t), e)
    BY <1>2, <1>3 DEF FrameHolds
  <2> QED BY <1>2, <1>3, <2>1, LessSafe
<1>4. \A u \in Threads : \A x : In(x, stack'[u]) => Safe(x)
  <2>1. CASE Return(t)
    BY <1>2, <2>1, ReturnSafe
  <2>2. CASE EnqueuePush(t)
    <3> DEFINE f == [Top(t) EXCEPT !.pc = "attached"]
    <3>1. Return(t) \/ Continue(t, f)
      BY <2>2 DEF EnqueuePush
    <3>2. f.op = "enqueue" /\ f.target = Top(t).target /\ f.msg = Top(t).msg
      BY <1>2 DEF EnqueueFrame
    <3> HIDE DEF f
    <3> QED BY <1>3, <2>1, <3>1, <3>2
  <2>3. CASE TriggerReadAttached(t)
    <3> DEFINE f == [Top(t) EXCEPT !.pc = "check", !.trig = attached[Top(t).target]]
    <3>1. Return(t) \/ Continue(t, f)
      BY <2>3 DEF TriggerReadAttached
    <3>2. f.op = "enqueue" /\ f.target = Top(t).target /\ f.msg = Top(t).msg
      BY <1>2 DEF EnqueueFrame
    <3> HIDE DEF f
    <3> QED BY <1>3, <2>1, <3>1, <3>2
  <2>4. CASE TriggerCheck(t)
    <3> DEFINE f == [Top(t) EXCEPT !.pc = "send"]
    <3>1. Return(t) \/ Continue(t, f)
      BY <2>4 DEF TriggerCheck
    <3>2. f.op = "enqueue" /\ f.target = Top(t).target /\ f.msg = Top(t).msg
      BY <1>2 DEF EnqueueFrame
    <3> HIDE DEF f
    <3> QED BY <1>3, <2>1, <3>1, <3>2
  <2> QED BY <2>1, <2>2, <2>3, <2>4 DEF TriggerSend
<1>5. CASE UNCHANGED queue
  BY <1>1, <1>4, <1>5, AliveQuiet
<1>6. CASE ~UNCHANGED queue
  <2>1. EnqueuePush(t)
    BY <1>6 DEF TriggerReadAttached, TriggerCheck, TriggerSend, dataVars
  <2>2. PICK d \in Datas, msg \in Message : d = Top(t).target /\ msg = Top(t).msg
    BY <1>2 DEF EnqueueFrame
  <2>3. queue' = [queue EXCEPT ![d] = Append(@, msg)]
    BY <1>6, <2>1, <2>2 DEF EnqueuePush
  <2>4. msg.port \in Datas => Alive(msg.port)
    BY <1>2, <2>2, TopSafe DEF Safe, FrameHolds
  <2> DEFINE s == queue[d]
             r == Append(s, msg)
  <2>5. queue'[d] = r /\ \A q \in Datas \ {d} : queue'[q] = queue[q]
    BY <2>3 DEF VarTypes, DataTypes
  <2>6. s \in Seq(Message)
    BY DEF VarTypes, DataTypes
  <2> HIDE DEF s
  <2>7. /\ \A i \in DOMAIN r : i = Len(r) \/ (i \in DOMAIN s /\ r[i] = s[i])
        /\ r[Len(r)] = msg
    BY <2>6, TopOps
  <2> HIDE DEF r
  <2>8. ASSUME NEW q \in Datas, NEW e \in Datas, Carries(q, e)' PROVE Carries(q, e) \/ Alive(e)
    <3>1. CASE q # d
      BY <2>5, <2>8, <3>1 DEF Carries
    <3>2. CASE q = d
      <4>1. PICK i \in DOMAIN r : r[i].port = e
        BY <2>5, <2>8, <3>2 DEF Carries
      <4>2. CASE i = Len(r)
        BY <2>4, <2>7, <4>1, <4>2
      <4>3. CASE i \in DOMAIN s /\ r[i] = s[i]
        BY <3>2, <4>1, <4>3 DEF Carries, s
      <4> QED BY <2>7, <4>2, <4>3
    <3> QED BY <3>1, <3>2
  <2>9. \A q \in Datas : \A e \in born : Carries(q, e)' => Carries(q, e) \/ Alive(e)
    <3>1. \A e \in born : e \in Datas
      BY DEF VarTypes, DataTypes
    <3> QED BY <2>8, <3>1
  <2>10. \A w \in Wraps : \A e \in born : data'[w] = e => data[w] = e
    BY <1>1
  <2> QED BY <1>1, <1>4, <2>9, <2>10, AliveMoves
<1> QED BY <1>5, <1>6

\* A wrap that is deleted takes its Data's queue with it.
LEMMA DeleteLoses ==
  ASSUME VarTypes, NEW w \in Wraps, Delete(w)
  PROVE  /\ \A v \in Wraps : data'[v] \in {data[v], None}
         /\ UNCHANGED queue \/ Shrinks
<1>1. /\ data' = [data EXCEPT ![w] = None]
      /\ UNCHANGED queue \/ queue' = [queue EXCEPT ![data[w]] = << >>]
  BY DEF Delete
<1> QED BY <1>1 DEF Shrinks, VarTypes, WrapTypes, DataTypes

\* A message that is taken leaves the queue of a living Data.
LEMMA PumpAlive ==
  ASSUME OwnInv, OnlyBorn, VarTypes, StackType, NEW t \in Threads,
         \A w \in Wraps : WrapMove(t, w),
         PumpMessage(t) \/ PumpReturn(t) \/ PumpClose(t) \/ PumpEnd(t)
  PROVE  AliveKept
<1>1. Owned /\ UNCHANGED <<cleanup, envData>>
  BY DEF PumpMessage, PumpReturn, PumpClose, PumpEnd, envVars, OwnInv
<1>2. stack[t] # << >> /\ Top(t) \in PumpFrame /\ Top(t).op = "pump"
  BY TopType DEF PumpMessage, PumpReturn, PumpClose, PumpEnd, At
<1>3. ASSUME NEW f, Continue(t, f), f.op = "pump"
      PROVE  \A u \in Threads : \A x : In(x, stack'[u]) => Safe(x)
  BY <1>2, <1>3, EmptySafe, PushSafe
<1>4. CASE PumpMessage(t)
  <2> DEFINE f == [Top(t) EXCEPT !.pc = "emit", !.left = IF Top(t).force THEN @ ELSE @ - 1]
  <2>1. Continue(t, f) /\ f.op = "pump"
    BY <1>2, <1>4 DEF PumpMessage, PumpFrame
  <2> HIDE DEF f
  <2>2. \A u \in Threads : \A x : In(x, stack'[u]) => Safe(x)
    BY <1>3, <2>1
  <2>3. PICK d \in Datas, w \in Wraps : d = data[Top(t).wrap] /\ w = Top(t).wrap
    BY <1>2, <1>4 DEF PumpMessage, PumpHas, VarTypes, WrapTypes, PumpFrame
  <2>4. queue[d] # << >> /\ (\E r : TakeMessage(t, d, r)) /\ Alive(d)
    BY <1>4, <2>3 DEF PumpMessage, PumpHas, Alive, Held
  <2>5. /\ \A v \in Wraps : \A e \in born : data'[v] = e => data[v] = e \/ Alive(e)
        /\ \A q \in Datas : \A e \in born : Carries(q, e)' => Carries(q, e)
    BY <1>1, <2>4, TakeAlive
  <2> QED BY <1>1, <2>2, <2>5, AliveMoves
<1>5. CASE PumpReturn(t)
  <2> DEFINE f == [Top(t) EXCEPT !.pc = "loop"]
  <2>1. Continue(t, f) /\ f.op = "pump" /\ UNCHANGED <<queue, data>>
    BY <1>2, <1>5 DEF PumpReturn, PumpFrame, dataVars, wrapVars
  <2> HIDE DEF f
  <2>2. \A u \in Threads : \A x : In(x, stack'[u]) => Safe(x)
    BY <1>3, <2>1
  <2> QED BY <1>1, <2>1, <2>2, AliveQuiet
<1>6. CASE PumpClose(t)
  <2>1. \A u \in Threads : \A x : In(x, stack'[u]) => Safe(x)
    BY <1>2, <1>6, ReturnSafe DEF PumpClose
  <2>2. Shrinks /\ UNCHANGED data
    BY <1>6 DEF PumpClose, PumpHas, TakeClose, Shrinks, VarTypes, DataTypes
  <2> QED BY <1>1, <2>1, <2>2, AliveQuiet
<1>7. CASE PumpEnd(t)
  <2>1. \A u \in Threads : \A x : In(x, stack'[u]) => Safe(x)
    BY <1>2, <1>7, ReturnSafe DEF PumpEnd
  <2>2. UNCHANGED <<queue, data>>
    BY <1>7 DEF PumpEnd, dataVars
  <2> QED BY <1>1, <2>1, <2>2, AliveQuiet
<1> QED BY <1>4, <1>5, <1>6, <1>7

\* The peer that is to be told is alive.
LEMMA CloseAlive ==
  ASSUME OwnInv, OnlyBorn, VarTypes, StackType, NEW t \in Threads,
         \A w \in Wraps : WrapMove(t, w),
         \/ JoinGroup(t) \/ CloseLeave(t) \/ CloseDisentangle(t)
         \/ CloseUnlinkPeer(t) \/ CloseFinish(t)
         \/ \E w \in Wraps : CloseCallback(t, w)
  PROVE  AliveKept
<1>1. Owned /\ UNCHANGED <<cleanup, envData>> /\ None \notin Datas
  BY ConstantsAssumption DEF JoinGroup, CloseLeave, CloseDisentangle, CloseUnlinkPeer, CloseFinish,
     CloseCallback, envVars, OwnInv
<1>2. CASE CloseUnlinkPeer(t)
  <2>1. stack[t] # << >> /\ Top(t) \in CloseFrame /\ UNCHANGED <<queue, data>>
    BY <1>2, TopType DEF CloseUnlinkPeer, At, wrapVars
  <2> DEFINE f == [Top(t) EXCEPT !.pc = "onclose", !.peer = None]
             g == Enqueue(Top(t).peer, CloseMsg)
  <2>2. Call(t, f, g)
    BY <1>2 DEF CloseUnlinkPeer
  <2>3. /\ f.op = "close" /\ f.peer = None
        /\ g.op = "enqueue" /\ g.target = Top(t).peer /\ g.msg.port = None
    BY <2>1 DEF CloseFrame, Enqueue, CloseMsg
  <2> HIDE DEF f, g
  <2>4. Safe(f)
    BY <2>3, EmptySafe
  <2>5. Safe(g)
    <3>1. \A e \in Datas : FrameHolds(g, e) => FrameHolds(Top(t), e)
      BY <1>1, <2>1, <2>3 DEF FrameHolds, CloseFrame
    <3> QED BY <2>1, <3>1, TopSafe DEF Safe
  <2>6. \A u \in Threads : \A x : In(x, stack'[u]) => Safe(x)
    BY <2>1, <2>2, <2>4, <2>5, SafeFrames
  <2> QED BY <1>1, <2>1, <2>6, AliveQuiet
<1>3. CASE CloseFinish(t)
  <2>1. stack[t] # << >> /\ Top(t) \in CloseFrame /\ Return(t)
    BY <1>3, TopType DEF CloseFinish, At
  <2>2. \A u \in Threads : \A x : In(x, stack'[u]) => Safe(x)
    BY <2>1, ReturnSafe
  <2>3. PICK w \in Wraps : w = Top(t).wrap
    BY <2>1 DEF CloseFrame
  <2>4. Delete(w) \/ UNCHANGED <<data, queue>>
    BY <1>3, <2>3 DEF CloseFinish
  <2>5. (\A v \in Wraps : data'[v] \in {data[v], None}) /\ (UNCHANGED queue \/ Shrinks)
    BY <2>4, DeleteLoses
  <2> QED BY <1>1, <2>2, <2>5, AliveQuiet
<1>4. CASE \E w \in Wraps : CloseCallback(t, w)
  <2>1. PICK w \in Wraps : CloseCallback(t, w)
    BY <1>4
  <2>2. UNCHANGED <<data, queue>> /\ \E f : Push(t, f) /\ f.op = "close" /\ f.peer = None
    BY <2>1, CloseStarts DEF CloseCallback
  <2>3. \A u \in Threads : \A x : In(x, stack'[u]) => Safe(x)
    BY <2>2, EmptySafe, PushSafe
  <2> QED BY <1>1, <2>2, <2>3, AliveQuiet
<1>5. CASE CloseLeave(t) \/ CloseDisentangle(t)
  <2>1. UNCHANGED <<data, queue>> /\ stack[t] # << >> /\ Top(t).op = "close"
    BY <1>5 DEF CloseLeave, CloseDisentangle, At, wrapVars
  <2>2. PICK f : /\ Continue(t, f) /\ f.op = "close"
                 /\ f.peer = Top(t).peer \/ f.peer = Lock(Top(t).own)
    BY <1>5, <2>1, CloseGoesOn
  <2>3. \A e \in Datas : f.peer = e => FrameHolds(Top(t), e) \/ Alive(e)
    BY <1>1, <2>1, <2>2 DEF FrameHolds, Lock
  <2>4. \A e \in Datas : FrameHolds(f, e) => FrameHolds(Top(t), e) \/ Alive(e)
    BY <2>2, <2>3 DEF FrameHolds
  <2>5. \A u \in Threads : \A x : In(x, stack'[u]) => Safe(x)
    BY <2>1, <2>2, <2>4, LessSafe
  <2> QED BY <1>1, <2>1, <2>5, AliveQuiet
<1>6. CASE JoinGroup(t)
  <2>1. stack[t] # << >> /\ Return(t) /\ UNCHANGED <<data, queue>>
    BY <1>6 DEF JoinGroup, At, wrapVars
  <2>2. \A u \in Threads : \A x : In(x, stack'[u]) => Safe(x)
    BY <2>1, ReturnSafe
  <2> QED BY <1>1, <2>1, <2>2, AliveQuiet
<1> QED BY <1>2, <1>3, <1>4, <1>5, <1>6

\* The other callbacks of the event loop.
LEMMA EventAlive ==
  ASSUME OwnInv, OnlyBorn, VarTypes, StackType, NEW t \in Threads,
         \A w \in Wraps : WrapMove(t, w),
         \/ \E w \in Wraps : AsyncCallback(t, w) \/ Finalize(t, w)
         \/ EnvCleanup(t)
  PROVE  AliveKept
<1>1. Owned
  BY DEF OwnInv
<1>2. CASE \E w \in Wraps : AsyncCallback(t, w)
  <2>1. PICK w \in Wraps : AsyncCallback(t, w)
    BY <1>2
  <2>2. UNCHANGED <<queue, data, cleanup, envData>> /\ \E n : Push(t, Pump(w, FALSE, n))
    BY <2>1 DEF AsyncCallback, dataVars, envVars
  <2>3. \A n : Safe(Pump(w, FALSE, n))
    BY EmptySafe DEF Pump
  <2>4. \A u \in Threads : \A x : In(x, stack'[u]) => Safe(x)
    BY <2>2, <2>3, PushSafe
  <2> QED BY <1>1, <2>2, <2>4, AliveQuiet
<1>3. CASE \E w \in Wraps : Finalize(t, w)
  <2>1. PICK w \in Wraps : Finalize(t, w)
    BY <1>3
  <2>2. Delete(w) /\ UNCHANGED <<stack, cleanup, envData>>
    BY <2>1 DEF Finalize, envVars
  <2>3. (\A v \in Wraps : data'[v] \in {data[v], None}) /\ (UNCHANGED queue \/ Shrinks)
    BY <2>2, DeleteLoses
  <2> QED BY <1>1, <2>2, <2>3, SameSafe, AliveQuiet
<1>4. CASE EnvCleanup(t)
  <2>1. UNCHANGED <<queue, data, stack, envData>> /\ \A u \in Threads : cleanup[u] => cleanup'[u]
    BY <1>4 DEF EnvCleanup, dataVars, VarTypes, EnvTypes
  <2>2. \A u \in Threads : \A x : In(x, stack'[u]) => Safe(x)
    BY <2>1, SameSafe
  <2>3. \A q \in Datas : \A d \in born : Carries(q, d)' => Carries(q, d)
    BY <2>1 DEF Carries
  <2>4. \A w \in Wraps : \A d \in born : data'[w] = d => data[w] = d
    BY <2>1
  <2> QED BY <2>1, <2>2, <2>3, <2>4, AliveMoves
<1> QED BY <1>2, <1>3, <1>4

(***************************************************************************)
(* Sibling links                                                           *)
(***************************************************************************)

\* A wrap loses its Data when it is deleted or when its port is transferred.
LEMMA DataLost ==
  ASSUME VarTypes, StackType, NEW t \in Threads, NEW w \in Wraps, data[w] # None, data'[w] = None,
         \/ Script(t) \/ (Proceed(t) /\ ~PostDetach(t) /\ ~PostOnClosed(t)) \/ EnvCleanup(t)
         \/ \E v \in Wraps : AsyncCallback(t, v) \/ CloseCallback(t, v) \/ Finalize(t, v)
  PROVE  state'[w] = "Deleted"
<1>1. None \notin Datas
  BY ConstantsAssumption
<1>2. ASSUME NEW v \in Wraps, Delete(v) PROVE state'[w] = "Deleted"
  BY <1>2 DEF Delete, VarTypes, WrapTypes
<1>3. ASSUME NEW v \in Wraps, NEW p \in Datas, data' = [data EXCEPT ![v] = p] PROVE FALSE
  BY <1>1, <1>3 DEF VarTypes, WrapTypes
<1>4. ASSUME NEW d \in Datas, queue[d] # << >>, NEW r, TakeMessage(t, d, r) PROVE FALSE
  <2> DEFINE s == queue[d]
  <2>1. s \in Seq(Message) /\ s # << >>
    BY <1>4 DEF VarTypes, DataTypes
  <2> HIDE DEF s
  <2>2. Head(s) \in Message
    BY <2>1, TailIndex, ElementOfSeq, LenProperties
  <2> DEFINE p == Head(s).port
  <2>3. p \in Datas \cup {None}
    BY <2>2 DEF Message
  <2>4. UNCHANGED data \/ (p # None /\ \E v \in Wraps : ReceivePort(t, v, p))
    BY <1>4 DEF TakeMessage, s
  <2> HIDE DEF p
  <2> QED BY <1>3, <2>3, <2>4 DEF ReceivePort
<1>5. ~UNCHANGED data
  OBVIOUS
<1>6. CASE Script(t)
  <2>1. CASE \E u, v \in Wraps, d \in Datas : MessageChannel(t, u, v, d)
    <3>1. PICK u \in Wraps, v \in Wraps, d \in Datas : MessageChannel(t, u, v, d)
      BY <2>1
    <3>2. data' = [data EXCEPT ![u] = d, ![v] = Twin[d]] /\ Twin[d] \in Datas
      BY <3>1, ConstantsAssumption DEF MessageChannel
    <3> QED BY <1>1, <3>2 DEF VarTypes, WrapTypes
  <2>2. CASE \/ \E v \in Wraps, d \in Datas, g \in Groups : BroadcastChannel(t, v, d, g)
             \/ \E v \in Wraps, u \in Threads, d \in Datas : StartWorker(t, u, v, d)
    <3>1. \E v \in Wraps, d \in Datas : data' = [data EXCEPT ![v] = d]
      BY <2>2 DEF BroadcastChannel, StartWorker
    <3> QED BY <1>3, <3>1
  <2>3. CASE \E v \in Wraps : GetEnvMessagePort(t, v)
    <3>1. PICK p \in Datas : p = envData[t]
      BY <2>3 DEF GetEnvMessagePort, VarTypes, EnvTypes
    <3>2. \E v \in Wraps : data' = [data EXCEPT ![v] = p]
      BY <2>3, <3>1 DEF GetEnvMessagePort, ReceivePort
    <3> QED BY <1>3, <3>2
  <2>4. CASE \E v \in Wraps : ReceiveMessageOnPort(t, v)
    <3>1. PICK v \in Wraps : ReceiveMessageOnPort(t, v)
      BY <2>4
    <3>2. data[v] \in Datas /\ queue[data[v]] # << >> /\ \E r : TakeMessage(t, data[v], r)
      BY <1>5, <3>1 DEF ReceiveMessageOnPort, VarTypes, WrapTypes
    <3> QED BY <1>4, <3>2
  <2> QED BY <1>5, <1>6, <2>1, <2>2, <2>3, <2>4 DEF Script, PostMessage, DrainMessagePort, Start, Stop,
          Close, wrapVars
<1>7. CASE Proceed(t) /\ ~PostDetach(t) /\ ~PostOnClosed(t)
  <2>1. PumpMessage(t) \/ CloseFinish(t)
    BY <1>5, <1>7 DEF Proceed, PostCloneFails, PostToPeer, PostToGroup, PostLost, PostMore,
       EnqueuePush, TriggerReadAttached, TriggerCheck, TriggerSend, PumpReturn, PumpClose, PumpEnd,
       JoinGroup, CloseLeave, CloseDisentangle, CloseUnlinkPeer, wrapVars
  <2>2. CASE PumpMessage(t)
    <3>1. stack[t] # << >> /\ Top(t).op = "pump"
      BY <2>2 DEF PumpMessage, At
    <3>2. Top(t).wrap \in Wraps
      BY <3>1, TopType DEF PumpFrame
    <3>3. PICK d \in Datas : d = data[Top(t).wrap]
      BY <2>2, <3>2 DEF PumpMessage, PumpHas, VarTypes, WrapTypes
    <3>4. queue[d] # << >> /\ \E r : TakeMessage(t, d, r)
      BY <2>2, <3>3 DEF PumpMessage, PumpHas
    <3> QED BY <1>4, <3>4
  <2>3. CASE CloseFinish(t)
    BY <1>5, <2>3 DEF CloseFinish, Delete, VarTypes, WrapTypes
  <2> QED BY <2>1, <2>2, <2>3
<1>8. CASE EnvCleanup(t) \/ \E v \in Wraps : AsyncCallback(t, v) \/ CloseCallback(t, v) \/ Finalize(t, v)
  BY <1>2, <1>5, <1>8 DEF EnvCleanup, AsyncCallback, CloseCallback, Finalize
<1> QED BY <1>6, <1>7, <1>8

\* A port leaves its group before its wrap gives the Data away.
LEMMA MembersStep ==
  ASSUME MembersHeld, ShutInv, OnlyBorn, OwnInv, GroupInv, FrameInv, TypeOK, ~CloneRunsJS,
         NEW t \in Threads, StepOf(t)
  PROVE  MembersHeld'
<1>1. /\ VarTypes /\ StackType
      /\ WrapsSound /\ OpenWraps /\ Transfers /\ TwinsSound /\ None \notin Datas /\ None \notin Groups
  BY TypeParts, ConstantsAssumption DEF OwnInv, FrameInv
<1> DEFINE Grouped(d) == group[d] # None \/ \E g \in Groups : d \in members[g]
<1>2. ASSUME NEW d \in Datas, Grouped(d), NEW w \in Wraps, data[w] = d
      PROVE  data'[w] = d
  <2>1. ~closed[d] /\ Twin[d] = d
    BY <1>1, <1>2 DEF GroupInv, Listed, TwinsSound, OnlyBorn, ObjectsBorn, PointersBorn, Ends
  <2>2. state[w] \in {"Initialized", "Closing", "Closed"} /\ WrapMove(t, w)
    BY <1>1, <1>2, StepMoves DEF WrapsSound, Live
  <2>3. CASE state[w] = "Closed"
    BY <1>1, <1>2, <2>1, <2>3, ShutStays
  <2>4. CASE /\ state[w] = "Initialized" /\ state'[w] = "Closing"
             /\ data'[w] = None
    <3>1. PostDetach(t) \/ PostOnClosed(t)
      BY <1>1, <1>2, <2>4, DataLost DEF StepOf
    <3>2. stack[t] # << >> /\ Passing(t) /\ Top(t).op = "post" /\ DetachTransferredPort(Top(t).xwrap)
      BY <3>1 DEF PostDetach, PostOnClosed, At, Passing
    <3>3. PassOK(Top(t), data, state)
      BY <1>1, <3>2 DEF Transfers
    <3>4. w = Top(t).xwrap
      BY <1>1, <1>2, <2>4, <3>2 DEF DetachTransferredPort, VarTypes, WrapTypes
    <3>5. w # None
      BY ConstantsAssumption
    <3> QED BY <1>2, <2>1, <3>2, <3>3, <3>4, <3>5 DEF PassOK
  <2> QED BY <1>2, <2>2, <2>3, <2>4 DEF WrapMove
<1>3. CASE \A d \in Datas : Grouped(d)' => Grouped(d)
  BY <1>2, <1>3 DEF MembersHeld
<1>4. CASE \E w \in Wraps, d \in Datas, g \in Groups : BroadcastChannel(t, w, d, g)
  <2>1. PICK w \in Wraps, d \in Datas, g \in Groups : BroadcastChannel(t, w, d, g)
    BY <1>4
  <2>2. data'[w] = d /\ \A e \in Datas \ {d} : Grouped(e)' => Grouped(e)
    BY <1>1, <2>1 DEF BroadcastChannel, VarTypes, WrapTypes, DataTypes
  <2> QED BY <1>2, <2>2 DEF MembersHeld
<1>5. CASE JoinGroup(t)
  <2>1. stack[t] # << >> /\ Top(t) \in JoinFrame /\ Top(t).op = "join"
    BY <1>1, <1>5, TopType DEF JoinGroup, At
  <2>2. group[Top(t).own] # None
    BY <1>1, <2>1, TopInFrames DEF GroupInv, Turning, Joining, JoinFrame
  <2>3. \A g \in Groups : members'[g] \subseteq members[g] \cup {Top(t).own}
    BY <1>1, <1>5 DEF JoinGroup, VarTypes, DataTypes
  <2>4. UNCHANGED group
    BY <1>5 DEF JoinGroup
  <2> QED BY <1>3, <2>2, <2>3, <2>4
<1>6. CASE \E w \in Wraps : CloseCallback(t, w)
  <2>1. PICK w \in Wraps : CloseCallback(t, w)
    BY <1>6
  <2>2. UNCHANGED members /\ (UNCHANGED group \/ \E d : group' = [group EXCEPT ![d] = None])
    BY <2>1 DEF CloseCallback
  <2>3. \A d \in Datas : group'[d] # None => group[d] # None
    BY <1>1, <2>2 DEF VarTypes, DataTypes
  <2> QED BY <1>3, <2>2, <2>3
<1>7. CASE CloseLeave(t)
  <2>1. UNCHANGED group /\ \A g \in Groups : members'[g] \subseteq members[g]
    BY <1>1, <1>7 DEF CloseLeave, VarTypes, DataTypes
  <2> QED BY <1>3, <2>1
<1>8. CASE UNCHANGED <<group, members>>
  BY <1>3, <1>8
<1>9. \/ UNCHANGED <<group, members>>
      \/ \E w \in Wraps, d \in Datas, g \in Groups : BroadcastChannel(t, w, d, g)
      \/ JoinGroup(t) \/ CloseLeave(t) \/ \E w \in Wraps : CloseCallback(t, w)
  BY DEF StepOf, Script, Proceed, MessageChannel, StartWorker, GetEnvMessagePort, PostMessage,
     DrainMessagePort, ReceiveMessageOnPort, Start, Stop, Close, PostCloneFails, PostOnClosed,
     PostToPeer, PostToGroup, PostDetach, PostLost, PostMore, EnqueuePush, TriggerReadAttached,
     TriggerCheck, TriggerSend, PumpMessage, PumpReturn, PumpClose, PumpEnd, CloseDisentangle,
     CloseUnlinkPeer, CloseFinish, AsyncCallback, Finalize, EnvCleanup, dataVars
<1> QED BY <1>4, <1>5, <1>6, <1>7, <1>8, <1>9

\* DisentanglePeer of thread t is between its two critical sections; d is the
\* peer it has yet to reset.
ClosingPeer(t, d) ==
  stack[t] # << >> /\ Top(t).op = "close" /\ Top(t).pc = "peer" /\ Top(t).peer = d
Peering(t) == stack[t] # << >> /\ Top(t).op = "close" /\ Top(t).pc = "peer"

\* The ends of a channel point at each other, unless the first critical
\* section of DisentanglePeer has passed and the second one has not.
Linked == \A d \in Datas : sibling[d] # None /\ Alive(d) =>
  \/ sibling[Twin[d]] = d
  \/ closed[Twin[d]] /\ \E t \in Threads : ClosingPeer(t, d)
PeersSound == \A t \in Threads : \A d \in Datas : ClosingPeer(t, d) =>
  Twin[d] # d /\ closed[Twin[d]] /\ sibling[Twin[d]] = None
LinkInv == MembersHeld /\ Linked /\ PeersSound

\* The steps of a thread that is not between the two critical sections.
LEMMA PeersStay ==
  ASSUME NEW t \in Threads, Others(t), ~Peering(t), ~Peering(t)'
  PROVE  \A u \in Threads : \A d : ClosingPeer(u, d)' <=> ClosingPeer(u, d)
<1>1. \A u \in Threads \ {t} : stack'[u] = stack[u]
  BY DEF Others
<1>2. \A d : ~ClosingPeer(t, d) /\ ~ClosingPeer(t, d)'
  BY DEF ClosingPeer, Peering
<1> QED BY <1>1, <1>2 DEF ClosingPeer, Top

\* A Data with a link was constructed.
LEMMA LinkBorn ==
  ASSUME OnlyBorn, FrameInv, NEW d \in Datas, sibling[d] # None
  PROVE  d \in born
BY DEF OnlyBorn, ObjectsBorn, PointersBorn, Twinned, FrameInv, TwinsSound

\* No link changes.
LEMMA LinkQuiet ==
  ASSUME OnlyBorn, FrameInv, Linked, PeersSound, AliveKept, UNCHANGED sibling,
         \A d \in Datas : closed[d] => closed'[d],
         \A u \in Threads : \A d : ClosingPeer(u, d)' <=> ClosingPeer(u, d)
  PROVE  Linked' /\ PeersSound'
<1>1. Linked'
  <2> SUFFICES ASSUME NEW d \in Datas, sibling'[d] # None, Alive(d)'
               PROVE  \/ sibling'[Twin[d]] = d
                      \/ closed'[Twin[d]] /\ \E u \in Threads : ClosingPeer(u, d)'
    BY DEF Linked
  <2>1. Alive(d) /\ sibling[d] # None
    BY LinkBorn DEF AliveKept
  <2>2. Twin[d] \in Datas
    BY ConstantsAssumption
  <2> QED BY <2>1, <2>2 DEF Linked
<1>2. PeersSound'
  <2>1. \A d \in Datas : Twin[d] \in Datas
    BY ConstantsAssumption
  <2> QED BY <2>1 DEF PeersSound
<1> QED BY <1>1, <1>2

\* Two new Datas are linked.
LEMMA LinkNew ==
  ASSUME OnlyBorn, FrameInv, Linked, PeersSound, AliveKept, VarTypes, UNCHANGED <<closed, stack>>,
         NEW d \in Datas, d \notin born, Twin[d] # d,
         sibling' = [sibling EXCEPT ![d] = Twin[d], ![Twin[d]] = d]
  PROVE  Linked' /\ PeersSound'
<1> DEFINE e == Twin[d]
<1>1. e \in Datas /\ e \notin born /\ Twin[e] = d /\ e # d
  BY ConstantsAssumption DEF OnlyBorn, ObjectsBorn, Twinned
<1>2. sibling'[d] = e /\ sibling'[e] = d /\ \A x \in Datas \ {d, e} : sibling'[x] = sibling[x]
  BY <1>1 DEF VarTypes, DataTypes
<1>3. \A x \in Datas \ {d, e} : Twin[x] \in Datas \ {d, e}
  BY <1>1, ConstantsAssumption
<1>4. \A u \in Threads : \A x : ClosingPeer(u, x)' <=> ClosingPeer(u, x)
  BY DEF ClosingPeer, Top
<1>5. ~closed[d] /\ ~closed[e]
  BY <1>1 DEF OnlyBorn, ObjectsBorn, Fresh
<1>6. Twin[d] = e
  OBVIOUS
<1> HIDE DEF e
<1>7. Linked'
  <2> SUFFICES ASSUME NEW x \in Datas, sibling'[x] # None, Alive(x)'
               PROVE  \/ sibling'[Twin[x]] = x
                      \/ closed'[Twin[x]] /\ \E u \in Threads : ClosingPeer(u, x)'
    BY DEF Linked
  <2>1. CASE x \in {d, e}
    BY <1>1, <1>2, <1>6, <2>1
  <2>2. CASE x \notin {d, e}
    <3>1. Alive(x) /\ sibling[x] # None /\ sibling'[Twin[x]] = sibling[Twin[x]]
      BY <1>2, <1>3, <2>2, LinkBorn DEF AliveKept
    <3> QED BY <1>4, <3>1 DEF Linked
  <2> QED BY <2>1, <2>2
<1>8. PeersSound'
  <2> SUFFICES ASSUME NEW u \in Threads, NEW x \in Datas, ClosingPeer(u, x)'
               PROVE  Twin[x] # x /\ closed'[Twin[x]] /\ sibling'[Twin[x]] = None
    BY DEF PeersSound
  <2>1. Twin[x] # x /\ closed[Twin[x]] /\ sibling[Twin[x]] = None
    BY <1>4 DEF PeersSound
  <2>2. Twin[x] \in Datas \ {d, e}
    BY <1>5, <2>1, ConstantsAssumption
  <2> QED BY <1>2, <2>1, <2>2
<1> QED BY <1>7, <1>8

\* The first critical section of DisentanglePeer.
LEMMA LinkClose ==
  ASSUME ShutInv, OwnInv, OnlyBorn, FrameInv, Linked, PeersSound, AliveKept, TypeOK,
         NEW t \in Threads, CloseDisentangle(t)
  PROVE  Linked' /\ PeersSound'
<1>1. Others(t) /\ Below /\ TwinsSound /\ None \notin Datas /\ VarTypes /\ StackType
  BY OthersStay, TypeParts, ConstantsAssumption DEF FrameInv, Proceed
<1>2. /\ Shutting(t) /\ stack'[t] # << >> /\ Top(t)'.op = "close"
      /\ Top(t)'.peer = Lock(Top(t).own)
      /\ Top(t)'.pc = IF Top(t)'.peer = None THEN "onclose" ELSE "peer"
  BY ShutGoesOn
<1>3. PICK d \in Datas : d = Top(t).own
  BY <1>2, ShutWraps
<1> DEFINE peer == Lock(d)
<1>5. /\ \A u \in Threads \ {t} : \A x : ClosingPeer(u, x)' <=> ClosingPeer(u, x)
      /\ \A x : ~ClosingPeer(t, x)
      /\ \A x : ClosingPeer(t, x)' <=> peer = x /\ peer # None
  <2>1. \A u \in Threads \ {t} : stack'[u] = stack[u]
    BY <1>1 DEF Others
  <2>2. Top(t)'.peer = peer /\ (Top(t)'.pc = "peer" <=> peer # None)
    BY <1>2, <1>3
  <2> HIDE DEF peer
  <2> QED BY <1>2, <2>1, <2>2 DEF ClosingPeer, Top, Shutting
<1>6. Linked' /\ PeersSound'
  <2>2. /\ sibling' = [sibling EXCEPT ![d] = None] /\ closed' = [closed EXCEPT ![d] = TRUE]
        /\ peer = Lock(d)
    BY <1>3 DEF CloseDisentangle
  <2>3. /\ sibling'[d] = None /\ closed'[d] = TRUE
        /\ \A x \in Datas \ {d} : sibling'[x] = sibling[x] /\ closed'[x] = closed[x]
    BY <1>1, <2>2 DEF VarTypes, DataTypes
  <2>4. ~closed[d]
    BY <1>2, <1>3 DEF ShutInv
  <2> DEFINE e == Twin[d]
  <2>5. e \in Datas /\ Twin[e] = d /\ \A x \in Datas : Twin[x] = d => x = e
    BY ConstantsAssumption
  <2>6. (peer = None \/ peer = e) /\ (peer # None => e # d) /\ (sibling[d] = e /\ Alive(e) => peer = e)
    <3>1. sibling[d] # None => sibling[d] = e /\ e # d
      BY <1>1 DEF TwinsSound
    <3>2. e # None
      BY <1>1, <2>5
    <3> QED BY <2>2, <3>1, <3>2 DEF Lock
  <2> HIDE DEF peer, e
  <2>7. Linked'
    <3> SUFFICES ASSUME NEW x \in Datas, sibling'[x] # None, Alive(x)'
                 PROVE  \/ sibling'[Twin[x]] = x
                        \/ closed'[Twin[x]] /\ \E u \in Threads : ClosingPeer(u, x)'
      BY DEF Linked
    <3>1. x # d /\ sibling[x] # None /\ Twin[x] \in Datas
      BY <2>3, ConstantsAssumption
    <3>2. Alive(x)
      BY <3>1, LinkBorn DEF AliveKept
    <3>3. \/ sibling[Twin[x]] = x
          \/ closed[Twin[x]] /\ \E u \in Threads : ClosingPeer(u, x)
      BY <3>1, <3>2 DEF Linked
    <3>4. CASE Twin[x] # d
      <4>1. sibling'[Twin[x]] = sibling[Twin[x]] /\ closed'[Twin[x]] = closed[Twin[x]]
        BY <2>3, <3>1, <3>4
      <4>2. \A u \in Threads : ClosingPeer(u, x) => ClosingPeer(u, x)'
        BY <1>5
      <4> QED BY <3>3, <4>1, <4>2
    <3>5. CASE Twin[x] = d
      <4>1. x = e /\ sibling[d] = e
        BY <2>4, <2>5, <3>3, <3>5
      <4>2. peer = e /\ e # None
        BY <1>1, <2>5, <2>6, <3>2, <4>1
      <4>3. ClosingPeer(t, x)'
        BY <1>5, <4>1, <4>2
      <4> QED BY <2>3, <3>5, <4>3
    <3> QED BY <3>4, <3>5
  <2>8. PeersSound'
    <3> SUFFICES ASSUME NEW u \in Threads, NEW x \in Datas, ClosingPeer(u, x)'
                 PROVE  Twin[x] # x /\ closed'[Twin[x]] /\ sibling'[Twin[x]] = None
      BY DEF PeersSound
    <3>1. CASE u = t
      <4>1. x = e /\ e # d
        BY <1>5, <2>6, <3>1
      <4> QED BY <2>3, <2>5, <4>1
    <3>2. CASE u # t
      <4>1. Twin[x] # x /\ closed[Twin[x]] /\ sibling[Twin[x]] = None
        BY <1>5, <3>2 DEF PeersSound
      <4>2. Twin[x] \in Datas
        BY ConstantsAssumption
      <4> QED BY <2>3, <4>1, <4>2
    <3> QED BY <3>1, <3>2
  <2> QED BY <2>7, <2>8
<1> QED BY <1>6

\* The second critical section of DisentanglePeer.
LEMMA LinkUnlink ==
  ASSUME OnlyBorn, FrameInv, Linked, PeersSound, AliveKept, VarTypes, StackType,
         NEW t \in Threads, CloseUnlinkPeer(t)
  PROVE  Linked' /\ PeersSound'
<1>1. Others(t) /\ Below /\ stack[t] # << >> /\ Top(t) \in CloseFrame /\ UNCHANGED closed
  BY OthersStay, TopType DEF CloseUnlinkPeer, At, FrameInv, Proceed
<1>2. PICK p \in Datas : p = Top(t).peer
  BY <1>1 DEF CloseUnlinkPeer, CloseFrame
<1>3. ClosingPeer(t, p)
  BY <1>2 DEF ClosingPeer, CloseUnlinkPeer, At
<1>4. Twin[p] # p /\ closed[Twin[p]] /\ sibling[Twin[p]] = None
  BY <1>3 DEF PeersSound
<1>5. ~Peering(t)'
  <2> DEFINE f == [Top(t) EXCEPT !.pc = "onclose", !.peer = None]
             g == Enqueue(p, CloseMsg)
  <2>1. Call(t, f, g)
    BY <1>2 DEF CloseUnlinkPeer
  <2>2. f.op = "close" /\ f.pc = "onclose" /\ g.op = "enqueue"
    BY <1>1 DEF CloseFrame, Enqueue
  <2> HIDE DEF f, g
  <2>3. Paused(f)
    BY <2>2 DEF Paused
  <2>4. Top(t)' = g
    BY <1>1, <2>1, <2>3, TopMove
  <2> QED BY <2>2, <2>4 DEF Peering
<1>6. sibling'[p] = None /\ \A x \in Datas \ {p} : sibling'[x] = sibling[x]
  BY <1>2 DEF CloseUnlinkPeer, Unlinked, VarTypes, DataTypes
<1>7. /\ \A u \in Threads \ {t} : \A x : ClosingPeer(u, x)' <=> ClosingPeer(u, x)
      /\ \A x : ~ClosingPeer(t, x)'
      /\ \A x : ClosingPeer(t, x) => x = p
  <2>1. \A u \in Threads \ {t} : stack'[u] = stack[u]
    BY <1>1 DEF Others
  <2> QED BY <1>2, <1>5, <2>1 DEF ClosingPeer, Top, Peering
<1>8. Linked'
  <2> SUFFICES ASSUME NEW x \in Datas, sibling'[x] # None, Alive(x)'
               PROVE  \/ sibling'[Twin[x]] = x
                      \/ closed'[Twin[x]] /\ \E u \in Threads : ClosingPeer(u, x)'
    BY DEF Linked
  <2>1. x # p /\ sibling[x] # None /\ Twin[x] \in Datas /\ Twin[Twin[x]] = x
    BY <1>6, ConstantsAssumption
  <2>2. Alive(x)
    BY <2>1, LinkBorn DEF AliveKept
  <2>3. \/ sibling[Twin[x]] = x
        \/ closed[Twin[x]] /\ \E u \in Threads : ClosingPeer(u, x)
    BY <2>1, <2>2 DEF Linked
  <2>4. Twin[x] # p
    BY <1>4, <2>1
  <2> QED BY <1>1, <1>6, <1>7, <2>1, <2>3, <2>4
<1>9. PeersSound'
  <2> SUFFICES ASSUME NEW u \in Threads, NEW x \in Datas, ClosingPeer(u, x)'
               PROVE  Twin[x] # x /\ closed'[Twin[x]] /\ sibling'[Twin[x]] = None
    BY DEF PeersSound
  <2>1. Twin[x] # x /\ closed[Twin[x]] /\ sibling[Twin[x]] = None
    BY <1>7 DEF PeersSound
  <2>2. Twin[x] \in Datas
    BY ConstantsAssumption
  <2> QED BY <1>1, <1>6, <2>1, <2>2
<1> QED BY <1>8, <1>9

\* Only OnMessagePortClosed comes to or leaves the point between the two
\* critical sections.
LEMMA PeersQuiet ==
  ASSUME FrameInv, TypeOK, ~CloneRunsJS, NEW t \in Threads, StepOf(t),
         ~CloseUnlinkPeer(t), ~CloseDisentangle(t)
  PROVE  \A u \in Threads : \A d : ClosingPeer(u, d)' <=> ClosingPeer(u, d)
<1>1. Others(t) /\ Below /\ StackType
  BY OthersStay, TypeParts DEF FrameInv, StepOf
<1>2. ~Peering(t)
  <2> SUFFICES ASSUME Peering(t) PROVE FALSE
    OBVIOUS
  <2>1. ~InJS(t) /\ stack[t] # << >> /\ Top(t).op = "close" /\ Top(t).pc = "peer"
    BY DEF Peering, InJS, At
  <2>2. ~Script(t) /\ ~EnvCleanup(t)
    BY <2>1 DEF Script, CanCall, EnvCleanup
  <2>3. ~\E w \in Wraps : AsyncCallback(t, w) \/ CloseCallback(t, w) \/ Finalize(t, w)
    BY <2>1 DEF AsyncCallback, CloseCallback, Finalize
  <2> QED BY <2>1, <2>2, <2>3 DEF StepOf, Proceed, PostCloneFails, PostOnClosed, PostToPeer,
       PostToGroup, PostDetach, PostLost, PostMore, EnqueuePush, TriggerReadAttached, TriggerCheck,
       TriggerSend, PumpMessage, PumpReturn, PumpClose, PumpEnd, JoinGroup, CloseLeave, CloseFinish, At
<1>3. ~Peering(t)'
  <2> SUFFICES ASSUME Peering(t)' PROVE FALSE
    OBVIOUS
  <2>1. Midway(t)'
    BY DEF Peering, Midway
  <2>2. (\E w \in Wraps : CloseCallback(t, w)) \/ CloseLeave(t)
    BY <1>1, <2>1, WhoIsMidway
  <2>3. CASE CloseLeave(t)
    <3>1. Shutting(t)'
      BY <2>3, ShutGoesOn
    <3> QED BY <3>1 DEF Shutting, Peering
  <2>4. CASE \E w \in Wraps : CloseCallback(t, w)
    <3>1. PICK f : Push(t, f) /\ f.pc \in {"leave", "disentangle", "onclose"}
      BY <2>4, CloseStarts
    <3>2. stack[t] = << >>
      BY <2>4 DEF CloseCallback
    <3>3. Top(t)' = f
      BY <1>1, <3>1, <3>2, TopMove DEF Resting
    <3> QED BY <3>1, <3>3 DEF Peering
  <2> QED BY <2>2, <2>3, <2>4
<1> QED BY <1>1, <1>2, <1>3, PeersStay

(***************************************************************************)
(* The ends of a channel point at each other                               *)
(***************************************************************************)

\* No step brings back a Data that is gone.
LEMMA StepAlive ==
  ASSUME OwnInv, MembersHeld, OnlyBorn, FrameInv, VarTypes, StackType, ~CloneRunsJS,
         NEW t \in Threads, StepOf(t)
  PROVE  AliveKept
<1>1. \A w \in Wraps : WrapMove(t, w)
  BY StepMoves
<1>2. CASE Script(t)
  BY <1>1, <1>2, ScriptAlive
<1>3. CASE \/ PostCloneFails(t) \/ PostOnClosed(t) \/ PostToPeer(t) \/ PostToGroup(t)
           \/ PostDetach(t) \/ PostLost(t) \/ PostMore(t)
  BY <1>1, <1>3, PostAlive
<1>4. CASE EnqueuePush(t) \/ TriggerReadAttached(t) \/ TriggerCheck(t) \/ TriggerSend(t)
  BY <1>1, <1>4, EnqueueAlive
<1>5. CASE PumpMessage(t) \/ PumpReturn(t) \/ PumpClose(t) \/ PumpEnd(t)
  BY <1>1, <1>5, PumpAlive
<1>6. CASE \/ JoinGroup(t) \/ CloseLeave(t) \/ CloseDisentangle(t)
           \/ CloseUnlinkPeer(t) \/ CloseFinish(t)
           \/ \E w \in Wraps : CloseCallback(t, w)
  BY <1>1, <1>6, CloseAlive
<1>7. CASE \/ \E w \in Wraps : AsyncCallback(t, w) \/ Finalize(t, w)
           \/ EnvCleanup(t)
  BY <1>1, <1>7, EventAlive
<1> QED BY <1>2, <1>3, <1>4, <1>5, <1>6, <1>7 DEF StepOf, Proceed

\* The steps that change a link.
LEMMA LinksChange ==
  ASSUME NEW t \in Threads, StepOf(t), ~CloseUnlinkPeer(t), ~CloseDisentangle(t),
         ~\E w, v \in Wraps, d \in Datas : MessageChannel(t, w, v, d),
         ~\E w \in Wraps, u \in Threads, d \in Datas : StartWorker(t, u, w, d)
  PROVE  UNCHANGED sibling
<1>1. CASE Script(t)
  BY <1>1 DEF Script, BroadcastChannel, GetEnvMessagePort, PostMessage,
     DrainMessagePort, ReceiveMessageOnPort, Start, Stop, Close, dataVars
<1>2. CASE Proceed(t)
  BY <1>2 DEF Proceed, PostCloneFails, PostOnClosed, PostToPeer, PostToGroup, PostDetach, PostLost,
     PostMore, EnqueuePush, TriggerReadAttached, TriggerCheck, TriggerSend, PumpMessage, PumpReturn,
     PumpClose, PumpEnd, JoinGroup, CloseLeave, CloseFinish, dataVars
<1>3. CASE EnvCleanup(t)
  BY <1>3 DEF EnvCleanup, dataVars
<1>4. CASE \E w \in Wraps : AsyncCallback(t, w) \/ CloseCallback(t, w) \/ Finalize(t, w)
  BY <1>4 DEF AsyncCallback, CloseCallback, Finalize, dataVars
<1> QED BY <1>1, <1>2, <1>3, <1>4 DEF StepOf

\* Every step keeps LinkInv.
LEMMA LinkStep ==
  ASSUME TypeOK, OwnInv, ShutInv, GroupInv, OnlyBorn, FrameInv, LinkInv, ~CloneRunsJS, [Next]_vars,
         NEW t \in Threads, StepOf(t)
  PROVE  LinkInv'
<1>1. VarTypes /\ StackType /\ MembersHeld /\ Linked /\ PeersSound
  BY TypeParts DEF LinkInv
<1>3. AliveKept
  BY <1>1, StepAlive
<1>4. MembersHeld'
  BY <1>1, MembersStep
<1>5. \A d \in Datas : closed[d] => closed'[d]
  BY ClosedKept
<1>6. CASE CloseUnlinkPeer(t)
  BY <1>1, <1>3, <1>4, <1>6, LinkUnlink DEF LinkInv
<1>7. CASE CloseDisentangle(t)
  BY <1>1, <1>3, <1>4, <1>7, LinkClose DEF LinkInv
<1>8. ASSUME NEW w \in Wraps, NEW v \in Wraps, NEW d \in Datas, MessageChannel(t, w, v, d) PROVE LinkInv'
  <2>1. /\ d \notin born /\ Twin[d] # d /\ UNCHANGED <<closed, stack>>
        /\ sibling' = [sibling EXCEPT ![d] = Twin[d], ![Twin[d]] = d]
    BY <1>8 DEF MessageChannel, NewData
  <2> QED BY <1>1, <1>3, <1>4, <2>1, LinkNew DEF LinkInv
<1>9. ASSUME NEW w \in Wraps, NEW u \in Threads, NEW d \in Datas, StartWorker(t, u, w, d) PROVE LinkInv'
  <2>1. /\ d \notin born /\ Twin[d] # d /\ UNCHANGED <<closed, stack>>
        /\ sibling' = [sibling EXCEPT ![d] = Twin[d], ![Twin[d]] = d]
    BY <1>9 DEF StartWorker, NewData
  <2> QED BY <1>1, <1>3, <1>4, <2>1, LinkNew DEF LinkInv
<1>10. CASE /\ ~CloseUnlinkPeer(t) /\ ~CloseDisentangle(t)
            /\ ~\E w, v \in Wraps, d \in Datas : MessageChannel(t, w, v, d)
            /\ ~\E w \in Wraps, u \in Threads, d \in Datas : StartWorker(t, u, w, d)
  <2>1. UNCHANGED sibling
    BY <1>10, LinksChange
  <2>2. \A u \in Threads : \A d : ClosingPeer(u, d)' <=> ClosingPeer(u, d)
    BY <1>10, PeersQuiet
  <2> QED BY <1>1, <1>3, <1>4, <1>5, <2>1, <2>2, LinkQuiet DEF LinkInv
<1> QED BY <1>6, <1>7, <1>8, <1>9, <1>10

\* What the state of the channels is built on.
PortInv == TypeOK /\ OnlyBorn /\ GroupInv /\ FrameInv /\ OwnInv /\ ShutInv

\* The invariants of the ports and their owners.
LEMMA PortHeld == ASSUME ~CloneRunsJS PROVE Spec => []PortInv
BY TypeCorrect, BornHeld, GroupHeld, FrameHeld, OwnHeld, ShutHeld, PTL DEF PortInv

\* LinkInv is inductive on top of PortInv.
LEMMA LinkHeld == ASSUME ~CloneRunsJS PROVE Spec => []LinkInv
<1>1. Init => LinkInv
  <2> SUFFICES ASSUME Init PROVE LinkInv
    OBVIOUS
  <2>1. /\ \A d \in Datas : sibling[d] = None
        /\ \A t \in Threads : stack[t] = << >>
        /\ \A g \in Groups : members[g] = {}
        /\ \A d \in Datas : group[d] = None
    BY DEF Init
  <2> QED BY <2>1 DEF LinkInv, MembersHeld, Linked, PeersSound, ClosingPeer
<1>2. PortInv /\ LinkInv /\ [Next]_vars => LinkInv'
  <2> SUFFICES ASSUME PortInv, LinkInv, [Next]_vars PROVE LinkInv'
    OBVIOUS
  <2>1. CASE UNCHANGED vars
    BY <2>1 DEF LinkInv, MembersHeld, Linked, PeersSound, ClosingPeer, Top, Alive, Held, Carries,
       Destroyed, Own, Live, FrameHolds, vars, dataVars, wrapVars, envVars
  <2>2. ASSUME NEW t \in Threads, StepOf(t) PROVE LinkInv'
    BY <2>2, LinkStep DEF PortInv
  <2> QED BY <2>1, <2>2, NextIsStep
<1> QED BY <1>1, <1>2, PortHeld, PTL DEF Spec

\* Transfers, posts and closes leave a Data with one owner, and the two ends of
\* a channel pointing at each other, except while DisentanglePeer is between
\* its two critical sections.
THEOREM ChannelsWellLinked == ASSUME ~CloneRunsJS PROVE Spec => []WellLinked
<1>1. PortInv /\ LinkInv => WellLinked
  <2> SUFFICES ASSUME PortInv, LinkInv PROVE WellLinked
    OBVIOUS
  <2>1. SingleOwner
    BY OneOwner DEF PortInv, OwnInv
  <2>2. ASSUME NEW d \in Datas, sibling[d] # None, Alive(d)
        PROVE  \/ sibling[sibling[d]] = d
               \/ closed[sibling[d]] /\ \E f \in Frames : f.op = "close" /\ f.pc = "peer" /\ f.peer = d
    <3>1. sibling[d] = Twin[d]
      BY <2>2 DEF PortInv, FrameInv, TwinsSound
    <3>2. CASE sibling[Twin[d]] = d
      BY <3>1, <3>2
    <3>3. CASE closed[Twin[d]] /\ \E t \in Threads : ClosingPeer(t, d)
      <4>1. PICK t \in Threads : ClosingPeer(t, d)
        BY <3>3
      <4>2. Top(t) \in Frames
        BY <4>1, TypeParts, TopInFrames DEF PortInv, ClosingPeer
      <4> QED BY <3>1, <3>3, <4>1, <4>2 DEF ClosingPeer
    <3> QED BY <2>2, <3>2, <3>3 DEF LinkInv, Linked
  <2> QED BY <2>1, <2>2 DEF WellLinked, SiblingSymmetric
<1> QED BY <1>1, PortHeld, LinkHeld, PTL

(***************************************************************************)
(* Who sends what to a Data                                                *)
(***************************************************************************)

\* The running frame of t is about to queue a close message or a payload in d,
\* or has found d as a target and has yet to detach the port it transfers.
SendsClose(t, d) ==
  stack[t] # << >> /\ Top(t).op = "enqueue" /\ Top(t).pc = "push" /\ Top(t).target = d /\ Top(t).msg.close
SendsPost(t, d) ==
  stack[t] # << >> /\ Top(t).op = "enqueue" /\ Top(t).pc = "push" /\ Top(t).target = d /\ ~Top(t).msg.close
Targets(t, d) ==
  stack[t] # << >> /\ Top(t).op = "post" /\ Top(t).pc = "detach" /\ d \in Top(t).targets

\* Thread t has an open port on the other end of d.
Reaches(t, d) == \E w \in Wraps : thread[w] = t /\ state[w] = "Initialized" /\ data[w] = Twin[d]

\* A payload comes from an open port of the other end, a close message from a
\* closed one.
AimedAt(t) == \A d \in Datas :
  /\ Targets(t, d) => Twin[d] = d \/ (data[Top(t).wrap] = Twin[d] /\ state[Top(t).wrap] = "Initialized")
  /\ SendsPost(t, d) => Twin[d] = d \/ Reaches(t, d)
  /\ SendsClose(t, d) => Twin[d] # d /\ closed[Twin[d]]
Aimed == \A t \in Threads : AimedAt(t)

\* The open wraps of another thread stay as they are.
LEMMA OpenStays ==
  ASSUME NEW t \in Threads, NEW w \in Wraps, WrapMove(t, w), thread[w] # t, state[w] = "Initialized"
  PROVE  thread'[w] = thread[w] /\ state'[w] = "Initialized" /\ data'[w] = data[w]
BY DEF WrapMove

\* A step of one thread leaves what the others send as it is.
LEMMA AimedOthers ==
  ASSUME Aimed, FrameInv, StackType, NEW t \in Threads, Others(t), \A w \in Wraps : WrapMove(t, w),
         \A d \in Datas : closed[d] => closed'[d], AimedAt(t)'
  PROVE  Aimed'
<1> SUFFICES ASSUME NEW u \in Threads, u # t PROVE AimedAt(u)'
  BY DEF Aimed
<1> SUFFICES ASSUME NEW d \in Datas
             PROVE  /\ Targets(u, d)' => Twin[d] = d \/ (data'[Top(u)'.wrap] = Twin[d] /\ state'[Top(u)'.wrap] = "Initialized")
                    /\ SendsPost(u, d)' => Twin[d] = d \/ Reaches(u, d)'
                    /\ SendsClose(u, d)' => Twin[d] # d /\ closed'[Twin[d]]
  BY DEF AimedAt
<1>1. Top(u)' = Top(u) /\ stack'[u] = stack[u]
  BY DEF Top, Others
<1>2. /\ Targets(u, d)' <=> Targets(u, d)
      /\ SendsPost(u, d)' <=> SendsPost(u, d)
      /\ SendsClose(u, d)' <=> SendsClose(u, d)
  BY <1>1 DEF Targets, SendsPost, SendsClose
<1>3. AimedAt(u)
  BY DEF Aimed
<1>4. ASSUME Targets(u, d), Twin[d] # d
      PROVE  data'[Top(u)'.wrap] = Twin[d] /\ state'[Top(u)'.wrap] = "Initialized"
  <2>1. stack[u] # << >> /\ Top(u).op = "post"
    BY <1>4 DEF Targets
  <2>2. Top(u).wrap \in Wraps /\ thread[Top(u).wrap] = u
    BY <2>1, TopType, TopSound DEF PostFrame, FrameInv, FrameSound
  <2>3. data[Top(u).wrap] = Twin[d] /\ state[Top(u).wrap] = "Initialized"
    BY <1>3, <1>4 DEF AimedAt
  <2> QED BY <1>1, <2>2, <2>3, OpenStays
<1>5. ASSUME SendsPost(u, d), Twin[d] # d PROVE Reaches(u, d)'
  <2>1. PICK w \in Wraps : thread[w] = u /\ state[w] = "Initialized" /\ data[w] = Twin[d]
    BY <1>3, <1>5 DEF AimedAt, Reaches
  <2>2. thread'[w] = u /\ state'[w] = "Initialized" /\ data'[w] = Twin[d]
    BY <2>1, OpenStays
  <2> QED BY <2>2 DEF Reaches
<1>6. ASSUME SendsClose(u, d) PROVE Twin[d] # d /\ closed'[Twin[d]]
  BY <1>3, <1>6, ConstantsAssumption DEF AimedAt
<1> QED BY <1>2, <1>4, <1>5, <1>6

\* A thread whose running frame has nothing to send.
LEMMA CalmAims == \A t \in Threads : ~Busy(t)' => AimedAt(t)'
BY DEF Busy, AimedAt, Targets, SendsPost, SendsClose

\* The steps that find a target and those that send to one.
LEMMA PostAims ==
  ASSUME Aimed, OwnInv, FrameInv, VarTypes, StackType, NEW t \in Threads,
         PostToPeer(t) \/ PostToGroup(t) \/ PostDetach(t) \/ PostMore(t)
  PROVE  AimedAt(t)'
<1>1. stack[t] # << >> /\ Top(t).op = "post" /\ Top(t) \in PostFrame /\ Below
  BY TopType DEF PostToPeer, PostToGroup, PostDetach, PostMore, At, FrameInv
<1>2. FrameSound(Top(t), t, thread, state, cleanup)
  BY <1>1, TopSound DEF FrameInv
<1>3. Top(t).wrap \in Wraps /\ thread[Top(t).wrap] = t /\ Top(t).targets \subseteq Datas
  BY <1>1, <1>2 DEF FrameSound, PostFrame
<1>4. CASE Return(t)
  BY <1>1, <1>4, TopMove, RestIsCalm, CalmAims
<1>5. ASSUME NEW f, Continue(t, f), f.op = "post", f.wrap = Top(t).wrap,
             \A d \in Datas : d \in f.targets =>
               Twin[d] = d \/ (data'[Top(t).wrap] = Twin[d] /\ state'[Top(t).wrap] = "Initialized")
      PROVE  AimedAt(t)'
  <2>1. Top(t)' = f
    BY <1>1, <1>5, TopMove
  <2> QED BY <1>5, <2>1 DEF AimedAt, Targets, SendsPost, SendsClose
<1>6. ASSUME NEW f, Top(t)' = f, f.op = "enqueue", ~f.msg.close,
             Twin[f.target] = f.target \/ Reaches(t, f.target)'
      PROVE  AimedAt(t)'
  BY <1>6 DEF AimedAt, Targets, SendsPost, SendsClose
<1>7. ASSUME PostNext(t, Top(t)),
             \A d \in Top(t).targets : Twin[d] = d \/ Reaches(t, d)'
      PROVE  AimedAt(t)'
  <2>1. PICK d \in Top(t).targets : Top(t)' = Enqueue(d, Payload(Top(t).xdata))
    BY <1>1, <1>7, PostNextTop
  <2> DEFINE f == Enqueue(d, Payload(Top(t).xdata))
  <2>2. f.op = "enqueue" /\ ~f.msg.close /\ f.target = d
    BY DEF Enqueue, Payload
  <2>3. Top(t)' = f
    BY <2>1
  <2> HIDE DEF f
  <2> QED BY <1>6, <1>7, <2>2, <2>3
<1>8. CASE PostToPeer(t)
  <2> DEFINE w == Top(t).wrap
  <2>0. PICK peer : peer = Lock(data[w])
    OBVIOUS
  <2>1. peer # None /\ Usable(w) /\ UNCHANGED <<data, state, thread>>
    BY <1>8, <2>0 DEF PostToPeer, wrapVars
  <2>2. data[w] \in Datas /\ state[w] = "Initialized"
    BY <1>3, <2>1 DEF Usable, VarTypes, WrapTypes
  <2>3. peer = Twin[data[w]] /\ Twin[peer] = data[w]
    <3>1. peer = sibling[data[w]] /\ sibling[data[w]] # None
      BY <2>0, <2>1 DEF Lock
    <3> QED BY <2>2, <3>1, ConstantsAssumption DEF FrameInv, TwinsSound
  <2> DEFINE f == [Top(t) EXCEPT !.pc = "detach",
                     !.targets = IF Top(t).xdata = peer THEN {} ELSE {peer},
                     !.lost = Top(t).xdata = peer]
  <2>4. Continue(t, f) \/ Continue(t, Enqueue(peer, Payload(None)))
    BY <1>8, <2>0 DEF PostToPeer
  <2>5. f.op = "post" /\ f.wrap = w /\ f.targets \subseteq {peer}
    BY <1>1 DEF PostFrame
  <2> HIDE DEF f
  <2>7. ASSUME Continue(t, f) PROVE AimedAt(t)'
    <3>1. \A d \in Datas : d \in f.targets => data'[w] = Twin[d] /\ state'[w] = "Initialized"
      BY <2>1, <2>2, <2>3, <2>5
    <3> QED BY <1>5, <2>5, <2>7, <3>1
  <2>8. ASSUME Continue(t, Enqueue(peer, Payload(None))) PROVE AimedAt(t)'
    <3>0. PICK v \in Wraps : v = w
      BY <1>3
    <3>1. Reaches(t, peer)'
      <4>1. thread'[v] = t /\ state'[v] = "Initialized" /\ data'[v] = Twin[peer]
        BY <1>3, <2>1, <2>2, <2>3, <3>0
      <4> QED BY <4>1 DEF Reaches
    <3> DEFINE g == Enqueue(peer, Payload(None))
    <3>2. g.op = "enqueue" /\ ~g.msg.close /\ g.target = peer
      BY DEF Enqueue, Payload
    <3>3. Continue(t, g)
      BY <2>8
    <3> HIDE DEF g
    <3>4. Top(t)' = g
      BY <1>1, <3>3, TopMove
    <3> QED BY <1>6, <3>1, <3>2, <3>4
  <2> QED BY <2>4, <2>7, <2>8
<1>9. CASE PostToGroup(t)
  <2> DEFINE all == BroadcastTargets(data[Top(t).wrap])
             f == [Top(t) EXCEPT !.pc = "detach", !.targets = all]
  <2>1. Continue(t, f) \/ Return(t)
    BY <1>9 DEF PostToGroup
  <2>2. f.op = "post" /\ f.wrap = Top(t).wrap /\ f.targets = all
    BY <1>1 DEF PostFrame
  <2>3. \A d \in all : Twin[d] = d
    <3>1. PICK c \in Datas : c = data[Top(t).wrap]
      BY <1>3, <1>9 DEF PostToGroup, Usable, VarTypes, WrapTypes
    <3>2. group[c] # None => group[c] \in Groups
      BY DEF VarTypes, DataTypes
    <3>3. \A d \in BroadcastTargets(c) : \E g \in Groups : d \in members[g]
      BY <3>2 DEF BroadcastTargets
    <3> QED BY <3>1, <3>3 DEF FrameInv, TwinsSound
  <2> HIDE DEF f, all
  <2> QED BY <1>4, <1>5, <2>1, <2>2, <2>3
<1>10. CASE PostMore(t)
  <2>1. PostNext(t, Top(t)) /\ Top(t).pc = "push"
    BY <1>10 DEF PostMore, At
  <2>2. \A d \in Top(t).targets : Twin[d] = d
    BY <1>1, <1>2, <2>1 DEF FrameSound
  <2> QED BY <1>7, <2>1, <2>2
<1>11. CASE PostDetach(t)
  <2> DEFINE w == Top(t).wrap
             x == Top(t).xwrap
  <2>1. Top(t).pc = "detach" /\ DetachTransferredPort(x) /\ UNCHANGED thread
    BY <1>11 DEF PostDetach, At
  <2>2. x # None => x # w
    BY <1>1, <2>1 DEF OwnInv, Transfers, Passing, PassOK
  <2>3. data'[w] = data[w] /\ state'[w] = state[w]
    BY <1>3, <2>1, <2>2 DEF DetachTransferredPort, VarTypes, WrapTypes
  <2>4. \A d \in Top(t).targets : Twin[d] = d \/ Reaches(t, d)'
    <3> SUFFICES ASSUME NEW d \in Top(t).targets, Twin[d] # d PROVE Reaches(t, d)'
      OBVIOUS
    <3>1. d \in Datas /\ Targets(t, d) /\ AimedAt(t)
      BY <1>1, <1>3, <2>1 DEF Targets, Aimed
    <3>2. data[w] = Twin[d] /\ state[w] = "Initialized"
      BY <3>1 DEF AimedAt
    <3> QED BY <1>3, <2>1, <2>3, <3>2 DEF Reaches
  <2> DEFINE f == [Top(t) EXCEPT !.pc = "warn"]
  <2>5. Continue(t, f) \/ PostNext(t, Top(t)) \/ Return(t)
    BY <1>11 DEF PostDetach
  <2>6. f.op = "post" /\ f.pc = "warn"
    BY <1>1 DEF PostFrame
  <2> HIDE DEF f, w, x
  <2>7. ASSUME Continue(t, f) PROVE AimedAt(t)'
    <3>1. Top(t)' = f
      BY <1>1, <2>7, TopMove
    <3> QED BY <2>6, <3>1 DEF AimedAt, Targets, SendsPost, SendsClose
  <2> QED BY <1>4, <1>7, <2>4, <2>5, <2>7
<1> QED BY <1>8, <1>9, <1>10, <1>11

\* The close message comes from an end that is closed.
LEMMA CloseAims ==
  ASSUME PeersSound, FrameInv, TypeOK, NEW t \in Threads,
         \/ CloseLeave(t) \/ CloseDisentangle(t) \/ CloseUnlinkPeer(t)
         \/ \E w \in Wraps : CloseCallback(t, w)
  PROVE  AimedAt(t)'
<1>1. Below /\ StackType
  BY TypeParts DEF FrameInv
<1>2. CASE \E w \in Wraps : CloseCallback(t, w)
  <2>1. PICK f : Push(t, f) /\ f.op = "close"
    BY <1>2, CloseStarts
  <2>2. stack[t] = << >>
    BY <1>2 DEF CloseCallback
  <2>3. Top(t)' = f
    BY <1>1, <2>1, <2>2, TopMove DEF Resting
  <2> QED BY <2>1, <2>3 DEF AimedAt, Targets, SendsPost, SendsClose
<1>4. CASE CloseLeave(t) \/ CloseDisentangle(t)
  <2>1. Top(t)'.op = "close"
    BY <1>4, ShutGoesOn
  <2> QED BY <2>1 DEF AimedAt, Targets, SendsPost, SendsClose
<1>3. CASE CloseUnlinkPeer(t)
  <2>1. stack[t] # << >> /\ Top(t) \in CloseFrame /\ UNCHANGED closed
    BY <1>1, <1>3, TopType DEF CloseUnlinkPeer, At
  <2>2. PICK p \in Datas : p = Top(t).peer
    BY <1>3, <2>1 DEF CloseUnlinkPeer, CloseFrame
  <2>3. ClosingPeer(t, p)
    BY <1>3, <2>2 DEF ClosingPeer, CloseUnlinkPeer, At
  <2>4. Twin[p] # p /\ closed[Twin[p]]
    BY <2>3 DEF PeersSound
  <2> DEFINE f == [Top(t) EXCEPT !.pc = "onclose", !.peer = None]
             g == Enqueue(p, CloseMsg)
  <2>5. Call(t, f, g)
    BY <1>3, <2>2 DEF CloseUnlinkPeer
  <2>6. f.op = "close" /\ f.pc = "onclose" /\ g.op = "enqueue" /\ g.target = p /\ g.msg.close
    BY <2>1 DEF CloseFrame, Enqueue, CloseMsg
  <2> HIDE DEF f, g
  <2>7. Top(t)' = g
    BY <1>1, <2>1, <2>5, <2>6, TopMove DEF Paused
  <2>8. closed'[Twin[p]]
    BY <2>1, <2>4
  <2> QED BY <2>4, <2>6, <2>7, <2>8 DEF AimedAt, Targets, SendsPost, SendsClose
<1> QED BY <1>2, <1>3, <1>4

\* Every step keeps Aimed.
LEMMA AimedStep ==
  ASSUME Aimed, TypeOK, OwnInv, FrameInv, PeersSound, ~CloneRunsJS, [Next]_vars,
         NEW t \in Threads, StepOf(t)
  PROVE  Aimed'
<1>1. VarTypes /\ StackType /\ Below
  BY TypeParts DEF FrameInv
<1>2. (\A w \in Wraps : WrapMove(t, w)) /\ Others(t) /\ \A d \in Datas : closed[d] => closed'[d]
  BY <1>1, StepMoves, OthersStay, ClosedKept DEF StepOf
<1>3. CASE PostToPeer(t) \/ PostToGroup(t) \/ PostDetach(t) \/ PostMore(t)
  BY <1>1, <1>2, <1>3, PostAims, AimedOthers
<1>4. CASE \/ CloseLeave(t) \/ CloseDisentangle(t) \/ CloseUnlinkPeer(t)
           \/ \E w \in Wraps : CloseCallback(t, w)
  BY <1>1, <1>2, <1>4, CloseAims, AimedOthers
<1>5. CASE \/ PostCloneFails(t) \/ PostOnClosed(t) \/ PostLost(t)
           \/ EnqueuePush(t) \/ TriggerReadAttached(t) \/ TriggerCheck(t) \/ TriggerSend(t)
           \/ PumpMessage(t) \/ PumpReturn(t) \/ PumpClose(t) \/ PumpEnd(t)
           \/ JoinGroup(t) \/ CloseFinish(t)
  <2>1. ~Busy(t)'
    BY <1>1, <1>5, CalmFrames
  <2> QED BY <1>1, <1>2, <2>1, CalmAims, AimedOthers
<1>6. CASE \/ Script(t) /\ ~\E w \in Wraps, x \in Wraps \cup {None} : PostMessage(t, w, x)
           \/ \E w \in Wraps : AsyncCallback(t, w) \/ Finalize(t, w)
           \/ EnvCleanup(t)
  <2>1. ~Busy(t)'
    BY <1>1, <1>6, CalmEvents
  <2> QED BY <1>1, <1>2, <2>1, CalmAims, AimedOthers
<1>7. CASE Script(t) /\ \E w \in Wraps, x \in Wraps \cup {None} : PostMessage(t, w, x)
  <2>1. PICK w \in Wraps, x \in Wraps \cup {None} : PostMessage(t, w, x)
    BY <1>7
  <2> DEFINE f == [op |-> "post", pc |-> "clone", wrap |-> w, xwrap |-> x,
                   xdata |-> IF x = None THEN None ELSE data[x],
                   targets |-> {}, lost |-> FALSE]
  <2>2. Push(t, f) /\ f.op = "post" /\ f.pc = "clone"
    BY <2>1 DEF PostMessage
  <2>3. Resting(t)
    BY <1>7, JSRests DEF Script, CanCall
  <2> HIDE DEF f
  <2>4. Top(t)' = f
    BY <1>1, <2>2, <2>3, TopMove
  <2>5. AimedAt(t)'
    BY <2>2, <2>4 DEF AimedAt, Targets, SendsPost, SendsClose
  <2> QED BY <1>1, <1>2, <2>5, AimedOthers
<1> QED BY <1>3, <1>4, <1>5, <1>6, <1>7 DEF StepOf, Proceed

(***************************************************************************)
(* The close message is the last one                                       *)
(***************************************************************************)

\* The messages q of a Data whose close_message_enqueued is c.
Closes(q, c) ==
  /\ c <=> \E i \in DOMAIN q : q[i].close
  /\ \A i \in DOMAIN q : q[i].close => i = Len(q)

\* A message other than the close message is taken.
LEMMA ClosesTail ==
  ASSUME NEW q \in Seq(Message), NEW c, q # << >>, Closes(q, c), ~Head(q).close
  PROVE  Closes(Tail(q), c)
<1>1. /\ 1 \in DOMAIN q /\ Head(q) = q[1] /\ Len(q) \in Nat /\ DOMAIN q = 1..Len(q)
      /\ \A i \in DOMAIN Tail(q) : i + 1 \in DOMAIN q /\ Tail(q)[i] = q[i + 1] /\ i \in Nat
  BY TailIndex, LenProperties
<1>2. Len(Tail(q)) = Len(q) - 1 /\ DOMAIN Tail(q) = 1..(Len(q) - 1)
  BY HeadTailProperties, LenProperties
<1>3. \A i \in DOMAIN Tail(q) : Tail(q)[i].close => i = Len(Tail(q))
  <2> SUFFICES ASSUME NEW i \in DOMAIN Tail(q), Tail(q)[i].close PROVE i = Len(Tail(q))
    OBVIOUS
  <2>1. i + 1 = Len(q) /\ i \in Nat
    BY <1>1 DEF Closes
  <2>2. Len(Tail(q)) = Len(q) - 1
    BY <1>2
  <2> QED BY <2>1, <2>2
<1>4. (\E i \in DOMAIN Tail(q) : Tail(q)[i].close) => \E i \in DOMAIN q : q[i].close
  BY <1>1
<1>5. (\E i \in DOMAIN q : q[i].close) => \E i \in DOMAIN Tail(q) : Tail(q)[i].close
  <2> SUFFICES ASSUME NEW i \in DOMAIN q, q[i].close PROVE \E j \in DOMAIN Tail(q) : Tail(q)[j].close
    OBVIOUS
  <2>1. i # 1
    BY <1>1
  <2> DEFINE j == i - 1
  <2>2. j \in 1..(Len(q) - 1) /\ j + 1 = i
    BY <1>1, <2>1
  <2>3. j \in DOMAIN Tail(q)
    BY <1>2, <2>2
  <2> HIDE DEF j
  <2>4. Tail(q)[j] = q[i]
    BY <1>1, <2>2, <2>3
  <2> QED BY <2>3, <2>4
<1> QED BY <1>3, <1>4, <1>5 DEF Closes

\* The close message is taken: nothing was behind it.
LEMMA ClosesTake ==
  ASSUME NEW q \in Seq(Message), NEW c, q # << >>, Closes(q, c), Head(q).close
  PROVE  Closes(Tail(q), FALSE)
<1>1. 1 \in DOMAIN q /\ Head(q) = q[1]
  BY TailIndex
<1>2. Len(q) = 1
  BY <1>1 DEF Closes
<1>3. Tail(q) \in Seq(Message) /\ Len(Tail(q)) = 0
  BY <1>2, HeadTailProperties
<1>4. DOMAIN Tail(q) = {}
  <2>1. DOMAIN Tail(q) = 1..Len(Tail(q))
    BY <1>3, LenProperties
  <2>2. 1..0 = {}
    OBVIOUS
  <2> QED BY <1>3, <2>1, <2>2
<1> QED BY <1>4 DEF Closes

\* A message is queued where no close message is.
LEMMA ClosesAppend ==
  ASSUME NEW q \in Seq(Message), NEW m \in Message, Closes(q, FALSE)
  PROVE  Closes(Append(q, m), m.close)
<1>1. Len(q) \in Nat /\ DOMAIN q = 1..Len(q)
  BY LenProperties
<1>2. /\ Append(q, m) \in Seq(Message) /\ Len(Append(q, m)) = Len(q) + 1
      /\ Append(q, m)[Len(q) + 1] = m
      /\ \A i \in 1..Len(q) : Append(q, m)[i] = q[i]
  BY <1>1
<1>3. DOMAIN Append(q, m) = 1..(Len(q) + 1)
  BY <1>2, LenProperties
<1>4. \A i \in 1..(Len(q) + 1) : i = Len(q) + 1 \/ i \in 1..Len(q)
  BY <1>1
<1>5. \A i \in 1..Len(q) : ~q[i].close
  BY <1>1 DEF Closes
<1>6. Len(q) + 1 \in 1..(Len(q) + 1)
  BY <1>1
<1> QED BY <1>2, <1>3, <1>4, <1>5, <1>6 DEF Closes

\* CloseMessageIsLast, queue by queue.
LEMMA ClosesParts == CloseMessageIsLast <=> \A d \in Datas : Closes(queue[d], closeEnq[d])
BY DEF CloseMessageIsLast, Closes

\* The same after a step.
LEMMA ClosesPartsNext == CloseMessageIsLast' <=> \A d \in Datas : Closes(queue'[d], closeEnq'[d])
BY DEF CloseMessageIsLast, Closes

\* A close message says that the other end is closed.
ClosesSound == \A d \in Datas : closeEnq[d] => Twin[d] # d /\ closed[Twin[d]]

\* One queue changes.
LEMMA QueueStep ==
  ASSUME CloseMessageIsLast, ClosesSound, \A d \in Datas : closed[d] => closed'[d],
         NEW d \in Datas, \A e \in Datas \ {d} : queue'[e] = queue[e] /\ closeEnq'[e] = closeEnq[e],
         Closes(queue'[d], closeEnq'[d]),
         closeEnq'[d] => Twin[d] # d /\ closed[Twin[d]]
  PROVE  CloseMessageIsLast' /\ ClosesSound'
<1>1. \A e \in Datas : Closes(queue'[e], closeEnq'[e])
  <2> SUFFICES ASSUME NEW e \in Datas \ {d} PROVE Closes(queue'[e], closeEnq'[e])
    OBVIOUS
  <2>1. Closes(queue[e], closeEnq[e]) /\ queue'[e] = queue[e] /\ closeEnq'[e] = closeEnq[e]
    BY ClosesParts
  <2> QED BY <2>1
<1>2. \A e \in Datas : Twin[e] \in Datas
  BY ConstantsAssumption
<1>3. ClosesSound'
  BY <1>2 DEF ClosesSound
<1> QED BY <1>1, <1>3, ClosesPartsNext

\* No queue changes.
LEMMA QueuesStay ==
  ASSUME CloseMessageIsLast, ClosesSound, \A d \in Datas : closed[d] => closed'[d],
         UNCHANGED <<queue, closeEnq>>
  PROVE  CloseMessageIsLast' /\ ClosesSound'
<1>1. \A e \in Datas : Twin[e] \in Datas
  BY ConstantsAssumption
<1> QED BY <1>1 DEF CloseMessageIsLast, ClosesSound

\* A message with or without a port is taken.
LEMMA TakeMessageCloses ==
  ASSUME CloseMessageIsLast, ClosesSound, VarTypes, \A d \in Datas : closed[d] => closed'[d],
         NEW t, NEW d \in Datas, queue[d] # << >>, ~Head(queue[d]).close, NEW r, TakeMessage(t, d, r),
         UNCHANGED closeEnq
  PROVE  CloseMessageIsLast' /\ ClosesSound'
<1>1. queue' = [queue EXCEPT ![d] = Tail(@)]
  BY DEF TakeMessage
<1>2. queue'[d] = Tail(queue[d]) /\ \A e \in Datas \ {d} : queue'[e] = queue[e]
  BY <1>1 DEF VarTypes, DataTypes
<1>3. queue[d] \in Seq(Message) /\ Closes(queue[d], closeEnq[d])
  BY ClosesParts DEF VarTypes, DataTypes
<1>4. Closes(Tail(queue[d]), closeEnq[d])
  BY <1>3, ClosesTail
<1>5. Closes(queue'[d], closeEnq'[d])
  BY <1>2, <1>4
<1>6. closeEnq'[d] => Twin[d] # d /\ closed[Twin[d]]
  BY DEF ClosesSound
<1> QED BY <1>2, <1>5, <1>6, QueueStep

\* A close message is taken.
LEMMA TakeCloseCloses ==
  ASSUME CloseMessageIsLast, ClosesSound, VarTypes, \A d \in Datas : closed[d] => closed'[d],
         NEW w \in Wraps, data[w] # None, queue[data[w]] # << >>, Head(queue[data[w]]).close,
         TakeClose(w)
  PROVE  CloseMessageIsLast' /\ ClosesSound'
<1>1. PICK d \in Datas : d = data[w]
  BY DEF VarTypes, WrapTypes
<1>2. /\ queue'[d] = Tail(queue[d]) /\ closeEnq'[d] = FALSE
      /\ \A e \in Datas \ {d} : queue'[e] = queue[e] /\ closeEnq'[e] = closeEnq[e]
  BY <1>1 DEF TakeClose, VarTypes, DataTypes
<1>3. queue[d] \in Seq(Message) /\ Closes(queue[d], closeEnq[d])
  BY ClosesParts DEF VarTypes, DataTypes
<1>4. Closes(Tail(queue[d]), FALSE)
  BY <1>1, <1>3, ClosesTake
<1>5. Closes(queue'[d], closeEnq'[d])
  BY <1>2, <1>4
<1> QED BY <1>2, <1>5, QueueStep

\* A wrap is deleted with what is queued for it.
LEMMA DeleteCloses ==
  ASSUME CloseMessageIsLast, ClosesSound, VarTypes, \A d \in Datas : closed[d] => closed'[d],
         NEW w \in Wraps, Delete(w)
  PROVE  CloseMessageIsLast' /\ ClosesSound'
<1>1. CASE data[w] = None
  BY <1>1, QueuesStay DEF Delete
<1>2. CASE data[w] # None
  <2>1. PICK d \in Datas : d = data[w]
    BY <1>2 DEF VarTypes, WrapTypes
  <2>2. /\ queue'[d] = << >> /\ closeEnq'[d] = FALSE
        /\ \A e \in Datas \ {d} : queue'[e] = queue[e] /\ closeEnq'[e] = closeEnq[e]
    BY <1>2, <2>1 DEF Delete, VarTypes, DataTypes
  <2>3. Closes(queue'[d], closeEnq'[d])
    BY <2>2 DEF Closes
  <2> QED BY <2>2, <2>3, QueueStep
<1> QED BY <1>1, <1>2

\* A payload never comes after a close message: its sender is an open port of
\* the other end, and the close message says that this end is closed.
LEMMA EnqueueCloses ==
  ASSUME CloseMessageIsLast, ClosesSound, Aimed, OwnInv, VarTypes, StackType,
         \A d \in Datas : closed[d] => closed'[d], NEW t \in Threads, EnqueuePush(t)
  PROVE  CloseMessageIsLast' /\ ClosesSound'
<1>1. stack[t] # << >> /\ Top(t) \in EnqueueFrame /\ Top(t).op = "enqueue" /\ Top(t).pc = "push"
  BY TopType DEF EnqueuePush, At
<1>2. PICK d \in Datas, m \in Message : d = Top(t).target /\ m = Top(t).msg
  BY <1>1 DEF EnqueueFrame
<1>3. CASE Refuses(d, m)
  BY <1>2, <1>3, QueuesStay DEF EnqueuePush
<1>4. CASE ~Refuses(d, m)
  <2>1. /\ queue' = [queue EXCEPT ![d] = Append(@, m)]
        /\ closeEnq' = [closeEnq EXCEPT ![d] = @ \/ m.close]
    BY <1>2, <1>4 DEF EnqueuePush
  <2>2. queue'[d] = Append(queue[d], m) /\ \A e \in Datas \ {d} : queue'[e] = queue[e]
    BY <2>1 DEF VarTypes, DataTypes
  <2>3. closeEnq'[d] = (closeEnq[d] \/ m.close) /\ \A e \in Datas \ {d} : closeEnq'[e] = closeEnq[e]
    BY <2>1 DEF VarTypes, DataTypes
  <2>4. AimedAt(t)
    BY DEF Aimed
  <2>5. ~closeEnq[d]
    <3>1. CASE m.close
      BY <1>4, <3>1 DEF Refuses
    <3>2. CASE ~m.close
      <4> SUFFICES ASSUME closeEnq[d] PROVE FALSE
        OBVIOUS
      <4>1. Twin[d] # d /\ closed[Twin[d]] /\ Twin[d] \in Datas /\ None \notin Datas
        BY ConstantsAssumption DEF ClosesSound
      <4>2. Reaches(t, d)
        BY <1>1, <1>2, <2>4, <3>2, <4>1 DEF AimedAt, SendsPost
      <4> QED BY <4>1, <4>2 DEF Reaches, OwnInv, OpenWraps
    <3> QED BY <3>1, <3>2
  <2>6. closeEnq[d] \in BOOLEAN /\ m.close \in BOOLEAN /\ queue[d] \in Seq(Message)
    BY DEF Message, VarTypes, DataTypes
  <2>7. closeEnq[d] = FALSE /\ closeEnq'[d] = m.close
    BY <2>3, <2>5, <2>6
  <2>8. Closes(queue[d], FALSE)
    BY <2>7, ClosesParts
  <2>9. Closes(Append(queue[d], m), m.close)
    BY <2>6, <2>8, ClosesAppend
  <2>10. Closes(queue'[d], closeEnq'[d])
    BY <2>2, <2>7, <2>9
  <2>11. closeEnq'[d] => Twin[d] # d /\ closed[Twin[d]]
    BY <1>1, <1>2, <2>4, <2>7 DEF AimedAt, SendsClose
  <2> QED BY <2>2, <2>3, <2>10, <2>11, QueueStep
<1> QED BY <1>3, <1>4

\* Every step keeps the close messages in their place.
LEMMA ClosesStep ==
  ASSUME CloseMessageIsLast, ClosesSound, Aimed, TypeOK, OwnInv, [Next]_vars,
         NEW t \in Threads, StepOf(t)
  PROVE  CloseMessageIsLast' /\ ClosesSound'
<1>1. VarTypes /\ StackType /\ \A d \in Datas : closed[d] => closed'[d]
  BY TypeParts, ClosedKept
<1>2. CASE UNCHANGED <<queue, closeEnq>>
  BY <1>1, <1>2, QueuesStay
<1>3. CASE EnqueuePush(t)
  BY <1>1, <1>3, EnqueueCloses
<1>4. ASSUME NEW w \in Wraps, ReceiveMessageOnPort(t, w) PROVE CloseMessageIsLast' /\ ClosesSound'
  <2>1. data[w] # None /\ queue[data[w]] # << >>
    BY <1>4 DEF ReceiveMessageOnPort
  <2>2. PICK d \in Datas : d = data[w]
    BY <1>1, <2>1 DEF VarTypes, WrapTypes
  <2>3. CASE Head(queue[d]).close
    <3>1. TakeClose(w)
      BY <1>4, <2>2, <2>3 DEF ReceiveMessageOnPort
    <3> QED BY <1>1, <2>1, <2>2, <2>3, <3>1, TakeCloseCloses
  <2>4. CASE ~Head(queue[d]).close
    <3>1. PICK r : TakeMessage(t, d, r) /\ UNCHANGED closeEnq
      BY <1>4, <2>2, <2>4 DEF ReceiveMessageOnPort
    <3> QED BY <1>1, <2>1, <2>2, <2>4, <3>1, TakeMessageCloses
  <2> QED BY <2>3, <2>4
<1>5. CASE PumpMessage(t)
  <2>1. stack[t] # << >> /\ Top(t) \in PumpFrame
    BY <1>1, <1>5, TopType DEF PumpMessage, At
  <2>2. Top(t).wrap \in Wraps /\ data[Top(t).wrap] # None
    BY <1>5, <2>1 DEF PumpMessage, PumpHas, PumpFrame
  <2>3. PICK d \in Datas : d = data[Top(t).wrap]
    BY <1>1, <2>2 DEF VarTypes, WrapTypes
  <2>4. queue[d] # << >> /\ ~Head(queue[d]).close /\ UNCHANGED closeEnq /\ \E r : TakeMessage(t, d, r)
    BY <1>5, <2>3 DEF PumpMessage, PumpHas
  <2> QED BY <1>1, <2>4, TakeMessageCloses
<1>6. CASE PumpClose(t)
  <2>1. stack[t] # << >> /\ Top(t) \in PumpFrame
    BY <1>1, <1>6, TopType DEF PumpClose, At
  <2>2. PICK w \in Wraps : w = Top(t).wrap
    BY <2>1 DEF PumpFrame
  <2>3. data[w] # None /\ queue[data[w]] # << >> /\ Head(queue[data[w]]).close /\ TakeClose(w)
    BY <1>6, <2>2 DEF PumpClose, PumpHas
  <2> QED BY <1>1, <2>3, TakeCloseCloses
<1>7. CASE CloseFinish(t)
  <2>1. stack[t] # << >> /\ Top(t) \in CloseFrame
    BY <1>1, <1>7, TopType DEF CloseFinish, At
  <2>2. PICK w \in Wraps : w = Top(t).wrap
    BY <2>1 DEF CloseFrame
  <2>3. Delete(w) \/ UNCHANGED <<queue, closeEnq>>
    BY <1>7, <2>2 DEF CloseFinish
  <2> QED BY <1>1, <2>3, DeleteCloses, QueuesStay
<1>8. ASSUME NEW w \in Wraps, Finalize(t, w) PROVE CloseMessageIsLast' /\ ClosesSound'
  BY <1>1, <1>8, DeleteCloses DEF Finalize
<1>9. CASE Script(t)
  BY <1>2, <1>4, <1>9 DEF Script, MessageChannel, BroadcastChannel, StartWorker, GetEnvMessagePort,
     PostMessage, DrainMessagePort, Start, Stop, Close, dataVars
<1>10. CASE Proceed(t)
  BY <1>2, <1>3, <1>5, <1>6, <1>7, <1>10 DEF Proceed, PostCloneFails, PostOnClosed, PostToPeer,
     PostToGroup, PostDetach, PostLost, PostMore, TriggerReadAttached, TriggerCheck, TriggerSend,
     PumpReturn, PumpEnd, JoinGroup, CloseLeave, CloseDisentangle, CloseUnlinkPeer, dataVars
<1>11. CASE EnvCleanup(t) \/ \E w \in Wraps : AsyncCallback(t, w) \/ CloseCallback(t, w) \/ Finalize(t, w)
  BY <1>2, <1>8, <1>11 DEF EnvCleanup, AsyncCallback, CloseCallback, dataVars
<1> QED BY <1>9, <1>10, <1>11 DEF StepOf

(***************************************************************************)
(* The other end is told                                                   *)
(***************************************************************************)

\* A channel loses its links only when one of its ends is closed.
SeveredByClose == \A d \in born : Twin[d] # d /\ sibling[d] = None => closed[d] \/ closed[Twin[d]]

\* e knows that the other end is closed, or the news is on its way.
Told(e) ==
  \/ closed[e] \/ closeEnq[e] \/ ~Alive(e)
  \/ \E t \in Threads : ClosingPeer(t, e)
  \/ \E t \in Threads : SendsClose(t, e)
  \/ \E w \in Wraps : data[w] = e /\ state[w] \in {"Closing", "Closed"}
Notified == \A d \in born : Twin[d] # d /\ closed[d] => Told(Twin[d])

ReportInv == Aimed /\ CloseMessageIsLast /\ ClosesSound /\ SeveredByClose /\ Notified

\* Every step keeps SeveredByClose.
LEMMA SeveredStep ==
  ASSUME SeveredByClose, TypeOK, OwnInv, FrameInv, PeersSound, [Next]_vars, NEW t \in Threads, StepOf(t)
  PROVE  SeveredByClose'
<1>1. /\ VarTypes /\ StackType /\ None \notin Datas
      /\ \A d \in Datas : Twin[d] \in Datas /\ Twin[Twin[d]] = d
      /\ \A d \in Datas : closed[d] => closed'[d]
  BY TypeParts, ClosedKept, ConstantsAssumption
<1>2. CASE UNCHANGED <<sibling, born>>
  BY <1>1, <1>2 DEF SeveredByClose, VarTypes, DataTypes
<1>3. ASSUME NEW d \in Datas, born' = born \cup {d, Twin[d]},
             sibling' = [sibling EXCEPT ![d] = Twin[d], ![Twin[d]] = d]
      PROVE  SeveredByClose'
  <2>1. PICK e \in Datas : e = Twin[d]
    BY <1>1
  <2>2. /\ sibling'[d] # None /\ sibling'[e] # None
        /\ \A x \in Datas \ {d, e} : sibling'[x] = sibling[x]
    BY <1>1, <1>3, <2>1 DEF VarTypes, DataTypes
  <2>3. born' = born \cup {d, e} /\ born \subseteq Datas
    BY <1>1, <1>3, <2>1 DEF VarTypes, DataTypes
  <2> QED BY <1>1, <2>2, <2>3 DEF SeveredByClose
<1>4. ASSUME NEW w \in Wraps, NEW d \in Datas, NEW g \in Groups, BroadcastChannel(t, w, d, g)
      PROVE  SeveredByClose'
  <2>1. born' = born \cup {d} /\ Twin[d] = d /\ UNCHANGED <<sibling, closed>> /\ born \subseteq Datas
    BY <1>1, <1>4 DEF BroadcastChannel, VarTypes, DataTypes
  <2> QED BY <2>1 DEF SeveredByClose
<1>5. CASE CloseDisentangle(t)
  <2>1. PICK d \in Datas : d = Top(t).own
    BY <1>5, ShutGoesOn, ShutWraps
  <2>2. /\ closed'[d] /\ \A x \in Datas \ {d} : sibling'[x] = sibling[x]
        /\ UNCHANGED born /\ born \subseteq Datas
    BY <1>1, <1>5, <2>1 DEF CloseDisentangle, VarTypes, DataTypes
  <2> QED BY <1>1, <2>2 DEF SeveredByClose
<1>6. CASE CloseUnlinkPeer(t)
  <2>1. stack[t] # << >> /\ Top(t) \in CloseFrame /\ UNCHANGED <<closed, born>>
    BY <1>1, <1>6, TopType DEF CloseUnlinkPeer, At
  <2>2. PICK p \in Datas : p = Top(t).peer
    BY <1>6, <2>1 DEF CloseUnlinkPeer, CloseFrame
  <2>3. ClosingPeer(t, p)
    BY <1>6, <2>2 DEF ClosingPeer, CloseUnlinkPeer, At
  <2>4. closed[Twin[p]] /\ born \subseteq Datas
    BY <1>1, <2>3 DEF PeersSound, VarTypes, DataTypes
  <2>5. \A x \in Datas \ {p} : sibling'[x] = sibling[x]
    BY <1>1, <1>6, <2>2 DEF CloseUnlinkPeer, Unlinked, VarTypes, DataTypes
  <2> QED BY <2>1, <2>4, <2>5 DEF SeveredByClose
<1>7. CASE Script(t)
  <2>1. ASSUME NEW w \in Wraps, NEW v \in Wraps, NEW d \in Datas, MessageChannel(t, w, v, d) PROVE SeveredByClose'
    BY <1>3, <2>1 DEF MessageChannel
  <2>2. ASSUME NEW w \in Wraps, NEW u \in Threads, NEW d \in Datas, StartWorker(t, u, w, d) PROVE SeveredByClose'
    BY <1>3, <2>2 DEF StartWorker
  <2> QED BY <1>2, <1>4, <1>7, <2>1, <2>2 DEF Script, GetEnvMessagePort, PostMessage,
        DrainMessagePort, ReceiveMessageOnPort, Start, Stop, Close, dataVars
<1>8. CASE Proceed(t)
  BY <1>2, <1>5, <1>6, <1>8 DEF Proceed, PostCloneFails, PostOnClosed, PostToPeer, PostToGroup,
     PostDetach, PostLost, PostMore, EnqueuePush, TriggerReadAttached, TriggerCheck, TriggerSend,
     PumpMessage, PumpReturn, PumpClose, PumpEnd, JoinGroup, CloseLeave, CloseFinish, dataVars
<1>9. CASE EnvCleanup(t) \/ \E w \in Wraps : AsyncCallback(t, w) \/ CloseCallback(t, w) \/ Finalize(t, w)
  BY <1>2, <1>9 DEF EnvCleanup, AsyncCallback, CloseCallback, Finalize, dataVars
<1> QED BY <1>7, <1>8, <1>9 DEF StepOf

\* Who takes the flag close_message_enqueued back: a wrap that takes the close
\* message, or one that is deleted.
LEMMA WhoResets ==
  ASSUME TypeOK, FrameInv, NEW t \in Threads, StepOf(t), NEW d \in Datas, closeEnq[d], ~closeEnq'[d]
  PROVE  \E w \in Wraps : data[w] = d /\
           \/ TakeClose(w) /\ UNCHANGED data
           \/ state[w] \in {"Closed", "Deleted"}
<1>1. VarTypes /\ StackType
  BY TypeParts
<1>2. ASSUME NEW w \in Wraps, TakeClose(w) PROVE data[w] = d
  BY <1>1, <1>2 DEF TakeClose, VarTypes, DataTypes
<1>3. ASSUME NEW w \in Wraps, Delete(w) PROVE data[w] = d
  BY <1>1, <1>3 DEF Delete, VarTypes, DataTypes
<1>4. CASE PumpClose(t)
  <2>1. stack[t] # << >> /\ Top(t) \in PumpFrame
    BY <1>1, <1>4, TopType DEF PumpClose, At
  <2>2. PICK w \in Wraps : w = Top(t).wrap
    BY <2>1 DEF PumpFrame
  <2> QED BY <1>2, <1>4, <2>2 DEF PumpClose
<1>5. CASE CloseFinish(t)
  <2>1. stack[t] # << >> /\ Top(t) \in CloseFrame /\ Top(t).op = "close"
    BY <1>1, <1>5, TopType DEF CloseFinish, At
  <2>2. PICK w \in Wraps : w = Top(t).wrap
    BY <2>1 DEF CloseFrame
  <2>3. state[w] \in {"Closed", "Deleted"}
    BY <1>1, <2>1, <2>2, TopSound DEF FrameInv, FrameSound
  <2>4. Delete(w)
    BY <1>5, <2>2 DEF CloseFinish
  <2> QED BY <1>3, <2>3, <2>4
<1>6. CASE EnqueuePush(t)
  BY <1>1, <1>6 DEF EnqueuePush, VarTypes, DataTypes
<1>7. CASE Script(t)
  BY <1>2, <1>7 DEF Script, MessageChannel, BroadcastChannel, StartWorker, GetEnvMessagePort,
     PostMessage, DrainMessagePort, ReceiveMessageOnPort, Start, Stop, Close, dataVars
<1>8. CASE Proceed(t)
  BY <1>4, <1>5, <1>6, <1>8 DEF Proceed, PostCloneFails, PostOnClosed, PostToPeer,
     PostToGroup, PostDetach, PostLost, PostMore, TriggerReadAttached, TriggerCheck, TriggerSend,
     PumpMessage, PumpReturn, PumpEnd, JoinGroup, CloseLeave, CloseDisentangle, CloseUnlinkPeer, dataVars
<1>9. ASSUME NEW w \in Wraps, Finalize(t, w) PROVE data[w] = d /\ state[w] = "Closed"
  BY <1>3, <1>9 DEF Finalize
<1>10. CASE EnvCleanup(t) \/ \E w \in Wraps : AsyncCallback(t, w) \/ CloseCallback(t, w)
  BY <1>10 DEF EnvCleanup, AsyncCallback, CloseCallback, dataVars
<1> QED BY <1>7, <1>8, <1>9, <1>10 DEF StepOf

\* The second critical section of DisentanglePeer is followed by the close
\* message.
LEMMA UnlinkSends ==
  ASSUME FrameInv, StackType, NEW t \in Threads, CloseUnlinkPeer(t), NEW p \in Datas, Top(t).peer = p
  PROVE  SendsClose(t, p)'
<1>1. stack[t] # << >> /\ Top(t) \in CloseFrame /\ Below
  BY TopType DEF CloseUnlinkPeer, At, FrameInv
<1> DEFINE f == [Top(t) EXCEPT !.pc = "onclose", !.peer = None]
           g == Enqueue(p, CloseMsg)
<1>2. Call(t, f, g)
  BY DEF CloseUnlinkPeer
<1>3. /\ f.op = "close" /\ f.pc = "onclose"
      /\ g.op = "enqueue" /\ g.pc = "push" /\ g.target = p /\ g.msg.close
  BY <1>1 DEF CloseFrame, Enqueue, CloseMsg
<1> HIDE DEF f, g
<1>4. Top(t)' = g /\ stack'[t] # << >>
  BY <1>1, <1>2, <1>3, TopMove DEF Paused
<1> QED BY <1>3, <1>4 DEF SendsClose

\* The news is not lost on its way.
LEMMA ToldStep ==
  ASSUME TypeOK, OwnInv, ShutInv, OnlyBorn, FrameInv, AliveKept, ~CloneRunsJS, [Next]_vars,
         NEW t \in Threads, StepOf(t), NEW e \in born, Told(e)
  PROVE  Told(e)'
<1>1. /\ VarTypes /\ StackType /\ e \in Datas /\ e # None /\ Others(t) /\ Below
      /\ \A w \in Wraps : WrapMove(t, w)
      /\ \A d \in Datas : closed[d] => closed'[d]
  <2>1. VarTypes /\ StackType /\ e \in Datas
    BY TypeParts DEF VarTypes, DataTypes
  <2> QED BY <2>1, ConstantsAssumption, ClosedKept, StepMoves, OthersStay DEF StepOf, FrameInv
<1>2. CASE closed[e]
  BY <1>1, <1>2 DEF Told
<1>3. CASE closeEnq[e]
  <2>1. CASE closeEnq'[e]
    BY <2>1 DEF Told
  <2>2. CASE ~closeEnq'[e]
    <3>1. PICK w \in Wraps : data[w] = e /\
            \/ TakeClose(w) /\ UNCHANGED data
            \/ state[w] \in {"Closed", "Deleted"}
      BY <1>1, <1>3, <2>2, WhoResets
    <3>2. state[w] \in {"Initialized", "Closing", "Closed"}
      BY <1>1, <3>1 DEF FrameInv, WrapsSound, Live
    <3>3. CASE state[w] = "Closed" /\ ~closed[e]
      <4>1. state'[w] = "Closed" /\ data'[w] = e
        BY <1>1, <3>1, <3>3, ShutStays
      <4> QED BY <4>1 DEF Told
    <3>4. CASE state[w] = "Closed"
      BY <1>2, <3>3, <3>4
    <3>5. CASE state[w] # "Closed"
      <4>1. TakeClose(w) /\ UNCHANGED data
        BY <3>1, <3>2, <3>5
      <4>2. data'[w] = e /\ state'[w] = "Closing"
        BY <1>1, <3>1, <3>2, <3>5, <4>1 DEF TakeClose, BeginClosePort, VarTypes, WrapTypes
      <4> QED BY <4>2 DEF Told
    <3> QED BY <3>4, <3>5
  <2> QED BY <2>1, <2>2
<1>4. CASE ~Alive(e)
  <2>1. ~Alive(e)'
    BY <1>4 DEF AliveKept
  <2> QED BY <2>1 DEF Told
<1>5. ASSUME NEW u \in Threads, ClosingPeer(u, e) PROVE Told(e)'
  <2>1. CASE u # t
    <3>1. ClosingPeer(u, e)'
      BY <1>1, <1>5, <2>1 DEF ClosingPeer, Top, Others
    <3> QED BY <3>1 DEF Told
  <2>2. CASE u = t /\ CloseUnlinkPeer(t)
    <3>1. SendsClose(t, e)'
      BY <1>1, <1>5, <2>2, UnlinkSends DEF ClosingPeer
    <3> QED BY <3>1 DEF Told
  <2>3. CASE u = t /\ ~CloseUnlinkPeer(t)
    <3>1. ~CloseDisentangle(t)
      BY <1>5, <2>3 DEF CloseDisentangle, At, ClosingPeer
    <3>2. ClosingPeer(u, e)'
      BY <1>1, <1>5, <2>3, <3>1, PeersQuiet
    <3> QED BY <3>2 DEF Told
  <2> QED BY <2>1, <2>2, <2>3
<1>6. ASSUME NEW u \in Threads, SendsClose(u, e) PROVE Told(e)'
  <2>1. CASE u # t
    <3>1. SendsClose(u, e)'
      BY <1>1, <1>6, <2>1 DEF SendsClose, Top, Others
    <3> QED BY <3>1 DEF Told
  <2>2. CASE u = t
    <3>1. ~Resting(t) /\ stack[t] # << >>
      BY <1>6, <2>2 DEF SendsClose, Resting, Paused
    <3>2. ~Script(t) /\ ~EnvCleanup(t)
          /\ ~\E w \in Wraps : AsyncCallback(t, w) \/ CloseCallback(t, w) \/ Finalize(t, w)
      BY <3>1, JSRests DEF Script, CanCall, EnvCleanup, AsyncCallback, CloseCallback, Finalize
    <3>3. EnqueuePush(t)
      BY <1>6, <2>2, <3>2 DEF StepOf, SendsClose, Proceed, PostCloneFails, PostOnClosed, PostToPeer,
         PostToGroup, PostDetach, PostLost, PostMore, TriggerReadAttached, TriggerCheck,
         TriggerSend, PumpMessage, PumpReturn, PumpClose, PumpEnd, JoinGroup, CloseLeave,
         CloseDisentangle, CloseUnlinkPeer, CloseFinish, At
    <3>4. Top(t).target = e /\ Top(t).msg.close
      BY <1>6, <2>2 DEF SendsClose
    <3>5. CASE Refuses(e, Top(t).msg)
      <4>1. closed[e] \/ closeEnq[e]
        BY <3>5 DEF Refuses
      <4>2. UNCHANGED <<closeEnq, closed>>
        BY <3>3, <3>4, <3>5 DEF EnqueuePush
      <4> QED BY <4>1, <4>2 DEF Told
    <3>6. CASE ~Refuses(e, Top(t).msg)
      <4>1. closeEnq' = [closeEnq EXCEPT ![e] = @ \/ Top(t).msg.close]
        BY <3>3, <3>4, <3>6 DEF EnqueuePush
      <4>2. closeEnq'[e]
        BY <1>1, <3>4, <4>1 DEF VarTypes, DataTypes
      <4> QED BY <4>2 DEF Told
    <3> QED BY <3>5, <3>6
  <2> QED BY <2>1, <2>2
<1>7. ASSUME NEW w \in Wraps, data[w] = e, state[w] \in {"Closing", "Closed"} PROVE Told(e)'
  <2>1. CASE state[w] = "Closing"
    <3>1. state'[w] \in {"Closing", "Closed"} /\ data'[w] = e
      BY <1>1, <1>7, <2>1 DEF WrapMove
    <3> QED BY <3>1 DEF Told
  <2>2. CASE state[w] = "Closed" /\ ~closed[e]
    <3>1. state'[w] = "Closed" /\ data'[w] = e
      BY <1>1, <1>7, <2>2, ShutStays
    <3> QED BY <3>1 DEF Told
  <2> QED BY <1>2, <1>7, <2>1, <2>2
<1> QED BY <1>2, <1>3, <1>4, <1>5, <1>6, <1>7 DEF Told

\* Whoever closes its end finds the link, or the other end is gone or closed.
LEMMA NewsStarts ==
  ASSUME TypeOK, ShutInv, OnlyBorn, FrameInv, SeveredByClose, AliveKept,
         \A d \in Datas : closed[d] => closed'[d],
         NEW t \in Threads, CloseDisentangle(t), NEW d \in born, Top(t).own = d, Twin[d] # d
  PROVE  Told(Twin[d])'
<1>1. VarTypes /\ StackType /\ Below /\ d \in Datas /\ None \notin Datas
  <2>1. VarTypes /\ StackType
    BY TypeParts
  <2> QED BY <2>1, ConstantsAssumption DEF FrameInv, VarTypes, DataTypes
<1>2. PICK e \in Datas : e = Twin[d]
  BY <1>1, ConstantsAssumption
<1>3. e \in born /\ d # None /\ e # None
  BY <1>1, <1>2 DEF OnlyBorn, ObjectsBorn, Twinned
<1>4. ~closed[d]
  BY ShutGoesOn DEF ShutInv
<1>5. CASE closed[e]
  BY <1>2, <1>5 DEF Told
<1>6. CASE ~Alive(e)
  <2>1. ~Alive(e)'
    BY <1>3, <1>6 DEF AliveKept
  <2> QED BY <1>2, <2>1 DEF Told
<1>7. CASE ~closed[e] /\ Alive(e)
  <2>1. sibling[d] = e
    BY <1>1, <1>2, <1>4, <1>7 DEF SeveredByClose, FrameInv, TwinsSound
  <2>2. Lock(d) = e
    BY <1>3, <1>7, <2>1 DEF Lock
  <2>5. stack'[t] # << >> /\ Top(t)'.op = "close" /\ Top(t)'.pc = "peer" /\ Top(t)'.peer = e
    BY <1>3, <2>2, ShutGoesOn
  <2>6. ClosingPeer(t, e)'
    BY <2>5 DEF ClosingPeer
  <2> QED BY <1>2, <2>6 DEF Told
<1> QED BY <1>5, <1>6, <1>7

\* Every step keeps Notified.
LEMMA NotifiedStep ==
  ASSUME TypeOK, OwnInv, ShutInv, OnlyBorn, FrameInv, SeveredByClose, Notified, AliveKept,
         ~CloneRunsJS, [Next]_vars, NEW t \in Threads, StepOf(t), TypeOK'
  PROVE  Notified'
<1>1. \A d \in Datas : closed[d] => closed'[d]
  BY ClosedKept
<1> SUFFICES ASSUME NEW d \in born', Twin[d] # d, closed'[d] PROVE Told(Twin[d])'
  BY DEF Notified
<1>2. d \in Datas /\ Twin[d] \in Datas /\ (d \in born => Twin[d] \in born)
  <2>1. d \in Datas
    BY DEF TypeOK
  <2> QED BY <2>1, ConstantsAssumption DEF OnlyBorn, ObjectsBorn, Twinned
<1>3. CASE closed[d]
  <2>1. d \in born
    BY <1>2, <1>3 DEF OnlyBorn, ObjectsBorn, Fresh
  <2>2. Told(Twin[d]) /\ Twin[d] \in born
    BY <1>2, <1>3, <2>1 DEF Notified
  <2> DEFINE e == Twin[d]
  <2>3. e \in born /\ Told(e)
    BY <2>2
  <2> HIDE DEF e
  <2>4. Told(e)'
    BY <2>3, ToldStep
  <2> QED BY <2>4 DEF e
<1>4. CASE ~closed[d]
  <2>1. CloseDisentangle(t) /\ Top(t).own = d
    BY <1>2, <1>4, WhoCloses
  <2>2. d \in born
    <3>1. data[Top(t).wrap] = d /\ Top(t).wrap \in Wraps
      BY <2>1, ShutGoesOn, ShutWraps
    <3> QED BY <1>2, <3>1, ConstantsAssumption DEF OnlyBorn, ObjectsBorn, PointersBorn
  <2> QED BY <1>1, <2>1, <2>2, NewsStarts
<1> QED BY <1>3, <1>4

\* ReportInv is inductive on top of PortInv and LinkInv.
LEMMA ReportHeld == ASSUME ~CloneRunsJS PROVE Spec => []ReportInv
<1>1. Init => ReportInv
  <2> SUFFICES ASSUME Init PROVE ReportInv
    OBVIOUS
  <2>1. /\ \A d \in Datas : queue[d] = << >> /\ DOMAIN queue[d] = {} /\ ~closeEnq[d] /\ ~closed[d]
        /\ born = {}
        /\ \A t \in Threads : stack[t] = << >>
    BY DEF Init
  <2> QED BY <2>1 DEF ReportInv, Aimed, AimedAt, Targets, SendsPost, SendsClose, CloseMessageIsLast,
        ClosesSound, SeveredByClose, Notified
<1>2. PortInv /\ PortInv' /\ LinkInv /\ ReportInv /\ [Next]_vars => ReportInv'
  <2> SUFFICES ASSUME PortInv, PortInv', LinkInv, ReportInv, [Next]_vars PROVE ReportInv'
    OBVIOUS
  <2>1. CASE UNCHANGED vars
    BY <2>1 DEF ReportInv, Aimed, AimedAt, Targets, SendsPost, SendsClose, Reaches, CloseMessageIsLast,
       ClosesSound, SeveredByClose, Notified, Told, ClosingPeer, Top, Alive, Held, Carries,
       Destroyed, Own, Live, FrameHolds, vars, dataVars, wrapVars, envVars
  <2>2. ASSUME NEW t \in Threads, StepOf(t) PROVE ReportInv'
    <3>1. /\ TypeOK /\ TypeOK' /\ OnlyBorn /\ FrameInv /\ OwnInv /\ ShutInv
          /\ VarTypes /\ StackType /\ MembersHeld /\ PeersSound
          /\ Aimed /\ CloseMessageIsLast /\ ClosesSound /\ SeveredByClose /\ Notified
      BY TypeParts DEF PortInv, LinkInv, ReportInv
    <3>2. AliveKept
      BY <2>2, <3>1, StepAlive
    <3>3. Aimed'
      BY <2>2, <3>1, AimedStep
    <3>4. CloseMessageIsLast' /\ ClosesSound'
      BY <2>2, <3>1, ClosesStep
    <3>5. SeveredByClose'
      BY <2>2, <3>1, SeveredStep
    <3>6. Notified'
      BY <2>2, <3>1, <3>2, NotifiedStep
    <3> QED BY <3>3, <3>4, <3>5, <3>6 DEF ReportInv
  <2> QED BY <2>1, <2>2, NextIsStep
<1> QED BY <1>1, <1>2, PortHeld, LinkHeld, PTL DEF Spec

\* However the closes of two ends, the posts, transfers and cleanups interleave,
\* the close message is the last one of its queue, and the other end of a closed
\* Data is told or gone.
THEOREM ClosesAreReported == ASSUME ~CloneRunsJS PROVE Spec => []CloseReported
<1>1. PortInv /\ ReportInv => CloseReported
  <2> SUFFICES ASSUME PortInv, ReportInv,
                      NEW d \in Datas, d \in born, Twin[d] # d, closed[d], NEW e, e = Twin[d]
               PROVE  \/ closed[e] \/ closeEnq[e] \/ ~Alive(e)
                      \/ \E f \in Frames : f.op = "close" /\ f.peer = e
                      \/ \E f \in Frames : f.op = "enqueue" /\ f.pc = "push" /\ f.target = e /\ f.msg.close
                      \/ \E w \in Wraps : data[w] = e /\ state[w] \in {"Closing", "Closed"}
    BY DEF CloseReported, CloseNotified, ReportInv
  <2>1. Told(e) /\ StackType
    BY TypeParts DEF PortInv, ReportInv, Notified
  <2>2. ASSUME NEW t \in Threads, ClosingPeer(t, e)
        PROVE  \E f \in Frames : f.op = "close" /\ f.peer = e
    BY <2>1, <2>2, TopInFrames DEF ClosingPeer
  <2>3. ASSUME NEW t \in Threads, SendsClose(t, e)
        PROVE  \E f \in Frames : f.op = "enqueue" /\ f.pc = "push" /\ f.target = e /\ f.msg.close
    BY <2>1, <2>3, TopInFrames DEF SendsClose
  <2> QED BY <2>1, <2>2, <2>3 DEF Told
<1> QED BY <1>1, PortHeld, ReportHeld, PTL

=============================================================================
