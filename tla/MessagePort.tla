---------------------------- MODULE MessagePort ----------------------------
(***************************************************************************)
(* MessagePort, MessageChannel and BroadcastChannel of                     *)
(* src/internal_binding/binding_messaging.cc.                              *)
(*                                                                         *)
(* A port is two objects.  A MessagePortData (here: a Data) is shared      *)
(* between threads; it holds the queue, the link to its sibling and a raw  *)
(* pointer to the MessagePort attached to it, all under its own mutex.  A  *)
(* MessagePort (here: a Wrap) belongs to one thread: it is the JavaScript  *)
(* object with its uv_async_t.  Transferring a port moves its Data in a    *)
(* message and makes a new Wrap for it where the message is received.      *)
(*                                                                         *)
(* A thread's native call stack is a sequence of frames, the running one   *)
(* last.  One action is one critical section (the code between a lock and  *)
(* its unlock) together with the thread-local code next to it, so that the *)
(* steps of two threads interleave exactly at the unlocks.  JavaScript     *)
(* runs when the stack is empty, and again on top of a frame that has      *)
(* called into JavaScript.                                                 *)
(*                                                                         *)
(* Abstractions: a message is a close marker or a payload with at most one *)
(* transferred port; payloads have no content.  ref/unref, the moved-to-   *)
(* context wrapper and destroy hooks do not touch this state.              *)
(***************************************************************************)
EXTENDS Integers, Sequences, FiniteSets

CONSTANTS
  Threads,      \* threads, each with one environment and one event loop
  Main,         \* the main thread; the others start as workers
  Datas,        \* MessagePortData objects, numbered
  Twin,         \* Twin[d] is the Data d is entangled with, d itself for a
                \* Data of a broadcast channel
  Wraps,        \* MessagePort objects, numbered
  Groups,       \* BroadcastChannel names
  None,         \* the null pointer
  Calls,        \* the calls and events that this instance explores
  PumpLimit,    \* the least processing_limit of OnMessagePortAsync (1000)
  MaxPosts,     \* bound: postMessage calls in a behaviour
  MaxDepth,     \* bound: frames on a thread's stack when JavaScript calls in
  CloneRunsJS,  \* does cloning a payload run accessors and transfer hooks?
  MayFail       \* may serialization and deserialization fail?

ASSUME ConstantsAssumption ==
  /\ Main \in Threads
  /\ Twin \in [Datas -> Datas]
  /\ \A d \in Datas : Twin[Twin[d]] = d
  /\ Datas \subseteq Nat /\ Wraps \subseteq Nat
  /\ None \notin Datas \cup Wraps \cup Groups
  /\ PumpLimit \in Nat \ {0} /\ MaxPosts \in Nat /\ MaxDepth \in Nat \ {0}
  /\ CloneRunsJS \in BOOLEAN /\ MayFail \in BOOLEAN

VARIABLES
  \* MessagePortData
  queue, closeEnq, closed, sibling, attached, group, born,
  \* BroadcastChannelGroup
  members,
  \* MessagePort
  state, thread, data, receiving, async,
  \* environments
  running, cleanup, envData, envPort, stack,
  \* bound
  posts

dataVars == <<queue, closeEnq, closed, sibling, attached, group, born, members>>
wrapVars == <<state, thread, data, receiving, async>>
envVars  == <<running, cleanup, envData, envPort>>
vars     == <<dataVars, wrapVars, envVars, stack, posts>>

-----------------------------------------------------------------------------
(* Messages and frames                                                     *)

Message  == [close : BOOLEAN, port : Datas \cup {None}]
CloseMsg == [close |-> TRUE, port |-> None]
Payload(p) == [close |-> FALSE, port |-> p]

\* MessagePortPostMessageCallback: "clone" may run JavaScript, and so does the
\* warning that the channel was lost.  xwrap is the port in the transfer list,
\* xdata the Data collected from it, targets the Datas still to be sent to.
PostFrame ==
  [op : {"post"}, pc : {"clone", "detach", "push", "warn"}, wrap : Wraps,
   xwrap : Wraps \cup {None}, xdata : Datas \cup {None},
   targets : SUBSET Datas, lost : BOOLEAN]

\* EnqueueQueuedMessage, then TriggerPortAsync
EnqueueFrame ==
  [op : {"enqueue"}, pc : {"push", "attached", "check", "send"},
   target : Datas, msg : Message, trig : Wraps \cup {None}]

\* BroadcastChannelCallback between the two critical sections of
\* AttachToBroadcastChannelGroup: own, the new wrap's Data, is to be listed.
JoinFrame ==
  [op : {"join"}, pc : {"list"}, wrap : Wraps, own : Datas, group : Groups]

\* OnMessagePortClosed with DisentanglePeer and RemoveFromBroadcastChannelGroup:
\* own is the wrap's Data, group the group it is to be taken off, peer its
\* former sibling; "onclose" runs JavaScript.
CloseFrame ==
  [op : {"close"}, pc : {"leave", "disentangle", "peer", "onclose"}, wrap : Wraps,
   own : Datas \cup {None}, group : Groups \cup {None}, peer : Datas \cup {None}]

\* ProcessQueuedMessages; "emit" runs JavaScript
PumpFrame ==
  [op : {"pump"}, pc : {"loop", "emit"}, wrap : Wraps, force : BOOLEAN, left : Nat]

Frame == PostFrame \cup EnqueueFrame \cup JoinFrame \cup CloseFrame \cup PumpFrame

Enqueue(d, m) ==
  [op |-> "enqueue", pc |-> "push", target |-> d, msg |-> m, trig |-> None]
Pump(w, force, limit) ==
  [op |-> "pump", pc |-> "loop", wrap |-> w, force |-> force, left |-> limit]

Pop(s)     == SubSeq(s, 1, Len(s) - 1)
Goto(s, f) == Append(Pop(s), f)

Push(t, f)    == stack' = [stack EXCEPT ![t] = Append(@, f)]
Return(t)     == stack' = [stack EXCEPT ![t] = Pop(@)]
Continue(t, f) == stack' = [stack EXCEPT ![t] = Goto(@, f)]
Call(t, f, g) == stack' = [stack EXCEPT ![t] = Append(Goto(@, f), g)]

Top(t) == stack[t][Len(stack[t])]
At(t, op, pc) == stack[t] # << >> /\ Top(t).op = op /\ Top(t).pc = pc

InJS(t) == \/ stack[t] = << >>
           \/ CloneRunsJS /\ At(t, "post", "clone")
           \/ At(t, "post", "warn")
           \/ At(t, "pump", "emit")
           \/ At(t, "close", "onclose")

\* New objects are taken in the order of their numbers: which one it is does
\* not matter.
NewWrap(w) == state[w] = "Unborn" /\ \A v \in Wraps : v < w => state[v] # "Unborn"
NewData(d) == d \notin born /\ \A e \in Datas \ born : d <= e \/ (Twin[e] = e) # (Twin[d] = d)

Live(w)    == state[w] \in {"Initialized", "Closing", "Closed"}
Own(t, w)  == Live(w) /\ thread[w] = t
Usable(w)  == state[w] = "Initialized" /\ data[w] # None

-----------------------------------------------------------------------------
(* The shared pointers that keep a Data alive.  A Data is destroyed as     *)
(* soon as no wrap, environment, frame or message of a living queue holds  *)
(* it; sibling.lock() then returns null.                                   *)

FrameHolds(f, d) ==
  \/ f.op = "post"    /\ (f.xdata = d \/ d \in f.targets)
  \/ f.op = "enqueue" /\ (f.target = d \/ f.msg.port = d)
  \/ f.op = "close"   /\ f.peer = d

\* The environment of t is destroyed once its cleanup has closed every wrap.
Destroyed(t) == cleanup[t] /\ ~\E w \in Wraps : Own(t, w)

Held(d) == \/ \E w \in Wraps : data[w] = d
           \/ \E t \in Threads : envData[t] = d /\ ~Destroyed(t)
           \/ \E t \in Threads : \E i \in DOMAIN stack[t] : FrameHolds(stack[t][i], d)

Carries(q, d) == \E i \in DOMAIN queue[q] : queue[q][i].port = d

Alive(d) ==
  \/ Held(d)
  \/ \E S \in SUBSET Datas :
       d \in S /\ \A e \in S : Held(e) \/ \E q \in S : Carries(q, e)

\* sibling.lock()
Lock(d) == IF sibling[d] # None /\ Alive(sibling[d]) THEN sibling[d] ELSE None

-----------------------------------------------------------------------------
Init ==
  /\ queue    = [d \in Datas |-> << >>]
  /\ closeEnq = [d \in Datas |-> FALSE]
  /\ closed   = [d \in Datas |-> FALSE]
  /\ sibling  = [d \in Datas |-> None]
  /\ attached = [d \in Datas |-> None]
  /\ group    = [d \in Datas |-> None]
  /\ born     = {}
  /\ members  = [g \in Groups |-> {}]
  /\ state    = [w \in Wraps |-> "Unborn"]
  /\ thread   = [w \in Wraps |-> Main]
  /\ data     = [w \in Wraps |-> None]
  /\ receiving = [w \in Wraps |-> FALSE]
  /\ async    = [w \in Wraps |-> FALSE]
  /\ running  = [t \in Threads |-> t = Main]
  /\ cleanup  = [t \in Threads |-> FALSE]
  /\ envData  = [t \in Threads |-> None]
  /\ envPort  = [t \in Threads |-> FALSE]
  /\ stack    = [t \in Threads |-> << >>]
  /\ posts    = 0

-----------------------------------------------------------------------------
(* Shared pieces of the handlers                                           *)

\* Mutant: the wrap goes away and the Data still points at it.
ClearAttachedForgotten(w) == attached

\* The Data of w no longer points back at w.
ClearAttached(w) ==
  IF data[w] = None THEN attached
  ELSE [attached EXCEPT ![data[w]] = IF @ = w THEN None ELSE @]

\* Mutant: the transferred wrap keeps its Data.
DetachTransferredPortKeepsData(w) ==
  IF w # None /\ Usable(w)
  THEN /\ attached' = ClearAttached(w)
       /\ state' = [state EXCEPT ![w] = "Closing"]
       /\ UNCHANGED data
  ELSE UNCHANGED <<attached, data, state>>

\* DetachTransferredPort.  Broadcast ports have no sibling and are never in a
\* valid transfer list, so there is no group to leave.
DetachTransferredPort(w) ==
  IF w # None /\ Usable(w)
  THEN /\ attached' = ClearAttached(w)
       /\ data'  = [data EXCEPT ![w] = None]
       /\ state' = [state EXCEPT ![w] = "Closing"]
  ELSE UNCHANGED <<attached, data, state>>

\* The new state of the wraps when BeginClosePort is called on w.
BeginClosePort(w) ==
  [state EXCEPT ![w] = IF @ = "Initialized" THEN "Closing" ELSE @]

\* GetBroadcastChannelTargets, a snapshot under the group's mutex
BroadcastTargets(d) ==
  IF group[d] = None THEN {} ELSE {e \in members[group[d]] \ {d} : ~closed[e]}

\* Mutant: a new port waits for the next message to be triggered.
WakeNewNever(w, p) == [async EXCEPT ![w] = FALSE]

\* A new port is triggered at once when messages are waiting for it.
WakeNew(w, p) == [async EXCEPT ![w] = queue[p] # << >>]

\* EdgeCreateMessagePortForData of the port p that came with a message, in a
\* new wrap w of thread t.
ReceivePort(t, w, p) ==
  /\ NewWrap(w)
  /\ thread'   = [thread EXCEPT ![w] = t]
  /\ data'     = [data EXCEPT ![w] = p]
  /\ attached' = [attached EXCEPT ![p] = w]
  /\ closed'   = [closed EXCEPT ![p] = FALSE]
  /\ async'    = WakeNew(w, p)
  /\ state'    = [state EXCEPT ![w] = "Initialized"]

\* delete wrap, with DeleteQueuedMessages
Delete(w) ==
  /\ state' = [state EXCEPT ![w] = "Deleted"]
  /\ data'  = [data EXCEPT ![w] = None]
  /\ IF data[w] # None
     THEN /\ queue'    = [queue EXCEPT ![data[w]] = << >>]
          /\ closeEnq' = [closeEnq EXCEPT ![data[w]] = FALSE]
     ELSE UNCHANGED <<queue, closeEnq>>

-----------------------------------------------------------------------------
(* Creation of ports                                                       *)

\* MessageChannelConstructorCallback: two wraps on two new, entangled Datas.
MessageChannel(t, v, w, d) ==
  /\ NewWrap(v) /\ w > v /\ state[w] = "Unborn"
  /\ \A u \in Wraps : v < u /\ u < w => state[u] # "Unborn"
  /\ Twin[d] # d /\ NewData(d)
  /\ born'     = born \cup {d, Twin[d]}
  /\ sibling'  = [sibling EXCEPT ![d] = Twin[d], ![Twin[d]] = d]
  /\ attached' = [attached EXCEPT ![d] = v, ![Twin[d]] = w]
  /\ state'    = [state EXCEPT ![v] = "Initialized", ![w] = "Initialized"]
  /\ thread'   = [thread EXCEPT ![v] = t, ![w] = t]
  /\ data'     = [data EXCEPT ![v] = d, ![w] = Twin[d]]
  /\ UNCHANGED <<queue, closeEnq, closed, group, members, receiving, async,
                 envVars, stack, posts>>

\* BroadcastChannelCallback up to the first critical section of
\* AttachToBroadcastChannelGroup, under the Data's mutex: one wrap whose new
\* Data names the group g.
BroadcastChannel(t, w, d, g) ==
  /\ NewWrap(w) /\ Twin[d] = d /\ NewData(d)
  /\ born'     = born \cup {d}
  /\ group'    = [group EXCEPT ![d] = g]
  /\ attached' = [attached EXCEPT ![d] = w]
  /\ state'    = [state EXCEPT ![w] = "Initialized"]
  /\ thread'   = [thread EXCEPT ![w] = t]
  /\ data'     = [data EXCEPT ![w] = d]
  /\ Push(t, [op |-> "join", pc |-> "list", wrap |-> w, own |-> d, group |-> g])
  /\ UNCHANGED <<queue, closeEnq, closed, sibling, members, receiving, async,
                 envVars, posts>>

\* The second one, under the group's mutex: the group lists the Data.
JoinGroup(t) ==
  /\ At(t, "join", "list")
  /\ members' = [members EXCEPT ![Top(t).group] = @ \cup {Top(t).own}]
  /\ Return(t)
  /\ UNCHANGED <<queue, closeEnq, closed, sibling, attached, group, born,
                 wrapVars, envVars, posts>>

\* CreateMessageChannel of binding_worker.cc: the parent's wrap w on d, and
\* Twin[d] handed to the environment of the new thread u.
StartWorker(t, u, w, d) ==
  /\ ~running[u] /\ NewWrap(w) /\ Twin[d] # d /\ NewData(d)
  /\ born'     = born \cup {d, Twin[d]}
  /\ sibling'  = [sibling EXCEPT ![d] = Twin[d], ![Twin[d]] = d]
  /\ attached' = [attached EXCEPT ![d] = w]
  /\ state'    = [state EXCEPT ![w] = "Initialized"]
  /\ thread'   = [thread EXCEPT ![w] = t]
  /\ data'     = [data EXCEPT ![w] = d]
  /\ running'  = [running EXCEPT ![u] = TRUE]
  /\ envData'  = [envData EXCEPT ![u] = Twin[d]]
  /\ UNCHANGED <<queue, closeEnq, closed, group, members, receiving, async,
                 cleanup, envPort, stack, posts>>

\* GetOrCreateEnvMessagePort, the first time the worker asks for its port.
GetEnvMessagePort(t, w) ==
  /\ envData[t] # None /\ ~envPort[t]
  /\ ReceivePort(t, w, envData[t])
  /\ envPort' = [envPort EXCEPT ![t] = TRUE]
  /\ UNCHANGED <<queue, closeEnq, sibling, group, born, members, receiving,
                 running, cleanup, envData, stack, posts>>

-----------------------------------------------------------------------------
(* postMessage                                                             *)

\* ValidateTransferListMessagePorts, and no port posts itself.
Transferable(t, w, x) ==
  /\ x # w /\ Own(t, x) /\ Usable(x)
  /\ ~closed[data[x]] /\ Lock(data[x]) # None

\* MessagePortPostMessageCallback up to CollectTransferredPorts.  A call that
\* fails validation throws before it changes anything.
PostMessage(t, w, x) ==
  /\ posts < MaxPosts
  /\ Own(t, w)
  /\ x # None => Transferable(t, w, x)
  /\ posts' = posts + 1
  /\ Push(t, [op |-> "post", pc |-> "clone", wrap |-> w, xwrap |-> x,
              xdata |-> IF x = None THEN None ELSE data[x],
              targets |-> {}, lost |-> FALSE])
  /\ UNCHANGED <<dataVars, wrapVars, envVars>>

\* The payload cannot be cloned: the call throws, nothing was detached.
PostCloneFails(t) ==
  /\ MayFail /\ At(t, "post", "clone")
  /\ Return(t)
  /\ UNCHANGED <<dataVars, wrapVars, envVars, posts>>

\* The port was closed or transferred: only the transferred port is detached.
PostOnClosed(t) ==
  /\ At(t, "post", "clone") /\ ~Usable(Top(t).wrap)
  /\ DetachTransferredPort(Top(t).xwrap)
  /\ Return(t)
  /\ UNCHANGED <<queue, closeEnq, closed, sibling, group, born, members,
                 thread, receiving, async, envVars, posts>>

\* The port has a sibling.  A sibling that is itself in the transfer list
\* loses the channel.
PostToPeer(t) ==
  /\ At(t, "post", "clone") /\ Usable(Top(t).wrap)
  /\ LET f    == Top(t)
         peer == Lock(data[f.wrap])
     IN  /\ peer # None
         /\ IF f.xdata = None
            THEN Continue(t, Enqueue(peer, Payload(None)))
            ELSE Continue(t, [f EXCEPT !.pc = "detach",
                              !.targets = IF f.xdata = peer THEN {} ELSE {peer},
                              !.lost = f.xdata = peer])
  /\ UNCHANGED <<dataVars, wrapVars, envVars, posts>>

\* No sibling: post to the group's other members, or to nobody.  A transfer
\* to several members throws.
PostToGroup(t) ==
  /\ At(t, "post", "clone") /\ Usable(Top(t).wrap)
  /\ LET f   == Top(t)
         all == BroadcastTargets(data[f.wrap])
     IN  /\ Lock(data[f.wrap]) = None
         /\ IF Cardinality(all) > 1 /\ f.xdata # None
            THEN Return(t)
            ELSE Continue(t, [f EXCEPT !.pc = "detach", !.targets = all])
  /\ UNCHANGED <<dataVars, wrapVars, envVars, posts>>

\* EnqueueMessageToPort for one target, which gets the port; the post goes on
\* when there are more.  The group's order is not kept: any target may be next.
PostNext(t, f) == \E d \in f.targets :
  LET call == Enqueue(d, Payload(f.xdata)) IN
    IF f.targets = {d}
    THEN Continue(t, call)
    ELSE Call(t, [f EXCEPT !.pc = "push", !.targets = @ \ {d}, !.xdata = None], call)

\* DetachTransferredPorts, and then the first target.  A post without targets
\* ends here, unless it has to warn that the channel was lost.
PostDetach(t) ==
  /\ At(t, "post", "detach")
  /\ DetachTransferredPort(Top(t).xwrap)
  /\ \/ Top(t).lost /\ Continue(t, [Top(t) EXCEPT !.pc = "warn"])
     \/ ~Top(t).lost /\ PostNext(t, Top(t))
     \/ ~Top(t).lost /\ Top(t).targets = {} /\ Return(t)
  /\ UNCHANGED <<queue, closeEnq, closed, sibling, group, born, members,
                 thread, receiving, async, envVars, posts>>

\* The target was posted to itself: after the warning the port is closed.
PostLost(t) ==
  /\ At(t, "post", "warn")
  /\ state' = BeginClosePort(Top(t).wrap)
  /\ Return(t)
  /\ UNCHANGED <<dataVars, thread, data, receiving, async, envVars, posts>>

\* The other members of a broadcast group.
PostMore(t) ==
  /\ At(t, "post", "push")
  /\ PostNext(t, Top(t))
  /\ UNCHANGED <<dataVars, wrapVars, envVars, posts>>

-----------------------------------------------------------------------------
(* EnqueueQueuedMessage and TriggerPortAsync                               *)

\* A closed Data takes nothing, and a Data takes one close message.
Refuses(d, m) == closed[d] \/ (m.close /\ closeEnq[d])

\* Mutant: the target is not triggered.
EnqueuePushOnly(t) ==
  /\ At(t, "enqueue", "push")
  /\ LET f == Top(t) IN
       /\ queue'    = [queue EXCEPT ![f.target] = Append(@, f.msg)]
       /\ closeEnq' = [closeEnq EXCEPT ![f.target] = @ \/ f.msg.close]
  /\ Return(t)
  /\ UNCHANGED <<closed, sibling, attached, group, born, members, wrapVars,
                 envVars, posts>>

\* Under the target's mutex: the message is queued or dropped.
EnqueuePush(t) ==
  /\ At(t, "enqueue", "push")
  /\ LET f == Top(t)
         d == f.target
     IN  IF Refuses(d, f.msg)
         THEN Return(t) /\ UNCHANGED <<queue, closeEnq>>
         ELSE /\ queue'    = [queue EXCEPT ![d] = Append(@, f.msg)]
              /\ closeEnq' = [closeEnq EXCEPT ![d] = @ \/ f.msg.close]
              /\ Continue(t, [f EXCEPT !.pc = "attached"])
  /\ UNCHANGED <<closed, sibling, attached, group, born, members, wrapVars,
                 envVars, posts>>

\* Under the target's mutex: copy the raw pointer to the attached wrap.
TriggerReadAttached(t) ==
  /\ At(t, "enqueue", "attached")
  /\ LET f == Top(t) IN
       IF attached[f.target] = None
       THEN Return(t)
       ELSE Continue(t, [f EXCEPT !.pc = "check", !.trig = attached[f.target]])
  /\ UNCHANGED <<dataVars, wrapVars, envVars, posts>>

\* Without a lock: look at the wrap's state.  What a deleted wrap shows is
\* undefined.
TriggerCheck(t) ==
  /\ At(t, "enqueue", "check")
  /\ LET f == Top(t) IN
       \/ state[f.trig] \in {"Initialized", "Deleted"} /\ Continue(t, [f EXCEPT !.pc = "send"])
       \/ state[f.trig] # "Initialized" /\ Return(t)
  /\ UNCHANGED <<dataVars, wrapVars, envVars, posts>>

\* uv_async_send; it wakes only a handle that is still open.
TriggerSend(t) ==
  /\ At(t, "enqueue", "send")
  /\ async' = [async EXCEPT ![Top(t).trig] = @ \/ state[Top(t).trig] = "Initialized"]
  /\ Return(t)
  /\ UNCHANGED <<dataVars, state, thread, data, receiving, envVars, posts>>

-----------------------------------------------------------------------------
(* Receiving                                                               *)

\* A message leaves the queue of d and, on thread t, its port gets a new
\* wrap when restored; otherwise (the payload does not mention the port, or
\* cannot be deserialized) the port is dropped with the message.
TakeMessage(t, d, restored) ==
  /\ queue' = [queue EXCEPT ![d] = Tail(@)]
  /\ LET p == Head(queue[d]).port IN
       IF p # None /\ restored
       THEN \E w \in Wraps : ReceivePort(t, w, p)
       ELSE UNCHANGED <<thread, data, attached, closed, async, state>>

\* Mutant: close_message_enqueued stays set.
TakeCloseKeepsFlag(w) ==
  /\ queue' = [queue EXCEPT ![data[w]] = Tail(@)]
  /\ state' = BeginClosePort(w)
  /\ UNCHANGED closeEnq

\* A close message leaves the queue of the wrap's Data and closes the wrap.
TakeClose(w) ==
  /\ queue'    = [queue EXCEPT ![data[w]] = Tail(@)]
  /\ closeEnq' = [closeEnq EXCEPT ![data[w]] = FALSE]
  /\ state'    = BeginClosePort(w)

\* Mutant: the limit is the number of messages behind the first one, which of
\* an empty queue is below zero.
AsyncCallbackBehind(t, w) ==
  /\ running[t] /\ stack[t] = << >>
  /\ Own(t, w) /\ Usable(w) /\ async[w]
  /\ async' = [async EXCEPT ![w] = FALSE]
  /\ Push(t, Pump(w, FALSE, Len(queue[data[w]]) - 1))
  /\ UNCHANGED <<dataVars, state, thread, data, receiving, envVars, posts>>

\* OnMessagePortAsync: the loop runs the callback of a handle that was sent
\* to and is not closing.
AsyncCallback(t, w) ==
  /\ running[t] /\ stack[t] = << >>
  /\ Own(t, w) /\ Usable(w) /\ async[w]
  /\ async' = [async EXCEPT ![w] = FALSE]
  /\ LET n == Len(queue[data[w]]) IN
       Push(t, Pump(w, FALSE, IF n > PumpLimit THEN n ELSE PumpLimit))
  /\ UNCHANGED <<dataVars, state, thread, data, receiving, envVars, posts>>

\* DrainMessagePortCallback: pump without limit, started or not.
DrainMessagePort(t, w) ==
  /\ Own(t, w) /\ Usable(w)
  /\ Push(t, Pump(w, TRUE, 0))
  /\ UNCHANGED <<dataVars, wrapVars, envVars, posts>>

\* Mutant: a stopped port does not see a close message.
PumpHasNoClose(f) ==
  /\ f.force \/ (f.left > 0 /\ receiving[f.wrap])
  /\ data[f.wrap] # None /\ queue[data[f.wrap]] # << >>

\* What the loop of ProcessQueuedMessages finds at the head of the queue.
PumpHas(f) ==
  /\ f.force \/ f.left > 0
  /\ data[f.wrap] # None
  /\ queue[data[f.wrap]] # << >>
  /\ f.force \/ receiving[f.wrap] \/ Head(queue[data[f.wrap]]).close

\* One message: restore its port, then emit "message" (or "messageerror").
PumpMessage(t) ==
  /\ At(t, "pump", "loop") /\ PumpHas(Top(t))
  /\ LET f == Top(t) IN
       /\ ~Head(queue[data[f.wrap]]).close
       /\ \E ok \in {TRUE, ~MayFail} : TakeMessage(t, data[f.wrap], ok)
       /\ Continue(t, [f EXCEPT !.pc = "emit",
                       !.left = IF f.force THEN @ ELSE @ - 1])
  /\ UNCHANGED <<closeEnq, sibling, group, born, members, receiving, envVars, posts>>

\* The message handlers have returned; the loop does not look at the wrap's
\* state again.
PumpReturn(t) ==
  /\ At(t, "pump", "emit")
  /\ Continue(t, [Top(t) EXCEPT !.pc = "loop"])
  /\ UNCHANGED <<dataVars, wrapVars, envVars, posts>>

\* A close message ends the loop.
PumpClose(t) ==
  /\ At(t, "pump", "loop") /\ PumpHas(Top(t))
  /\ Head(queue[data[Top(t).wrap]]).close
  /\ TakeClose(Top(t).wrap)
  /\ Return(t)
  /\ UNCHANGED <<closed, sibling, attached, group, born, members, thread,
                 data, receiving, async, envVars, posts>>

\* Messages are left and the port is open.
PumpAgain(f) ==
  /\ ~f.force /\ data[f.wrap] # None
  /\ queue[data[f.wrap]] # << >>
  /\ attached[data[f.wrap]] # None
  /\ state[attached[data[f.wrap]]] = "Initialized"

\* The loop stops.  Whatever is left makes the handle run again.
PumpEnd(t) ==
  /\ At(t, "pump", "loop") /\ ~PumpHas(Top(t))
  /\ Return(t)
  /\ async' = IF PumpAgain(Top(t))
              THEN [async EXCEPT ![attached[data[Top(t).wrap]]] = TRUE]
              ELSE async
  /\ UNCHANGED <<dataVars, state, thread, data, receiving, envVars, posts>>

\* ReceiveMessageOnPortCallback, whatever the state of the port.
ReceiveMessageOnPort(t, w) ==
  /\ Own(t, w) /\ data[w] # None /\ queue[data[w]] # << >>
  /\ IF Head(queue[data[w]]).close
     THEN TakeClose(w) /\ UNCHANGED <<thread, data, attached, closed, async>>
     ELSE /\ \E restored \in BOOLEAN : TakeMessage(t, data[w], restored)
          /\ UNCHANGED closeEnq
  /\ UNCHANGED <<sibling, group, born, members, receiving, envVars, stack, posts>>

\* MessagePortStartCallback
Start(t, w) ==
  /\ Own(t, w) /\ state[w] = "Initialized"
  /\ receiving' = [receiving EXCEPT ![w] = TRUE]
  /\ async'     = [async EXCEPT ![w] = TRUE]
  /\ UNCHANGED <<dataVars, state, thread, data, envVars, stack, posts>>

\* StopMessagePortCallback
Stop(t, w) ==
  /\ Own(t, w)
  /\ receiving' = [receiving EXCEPT ![w] = FALSE]
  /\ UNCHANGED <<dataVars, state, thread, data, async, envVars, stack, posts>>

-----------------------------------------------------------------------------
(* Closing                                                                 *)

\* MessagePortCloseCallback and EdgeCloseMessagePortForValue
Close(t, w) ==
  /\ Own(t, w) /\ state[w] = "Initialized"
  /\ state' = BeginClosePort(w)
  /\ UNCHANGED <<dataVars, thread, data, receiving, async, envVars, stack, posts>>

\* OnMessagePortClosed up to the first critical section of
\* RemoveFromBroadcastChannelGroup: under its own mutex, the Data forgets the
\* group.  A Data in no group goes straight on to DisentanglePeer's section.
CloseCallback(t, w) ==
  /\ running[t] /\ stack[t] = << >>
  /\ Own(t, w) /\ state[w] = "Closing"
  /\ state' = [state EXCEPT ![w] = "Closed"]
  /\ LET d == data[w]
         g == IF d = None THEN None ELSE group[d]
     IN  /\ group' = IF d = None THEN group ELSE [group EXCEPT ![d] = None]
         /\ Push(t, [op |-> "close", wrap |-> w, own |-> d, group |-> g, peer |-> None,
                     pc |-> IF d = None THEN "onclose"
                            ELSE IF g = None THEN "disentangle" ELSE "leave"])
  /\ UNCHANGED <<queue, closeEnq, closed, sibling, attached, born, members,
                 thread, data, receiving, async, envVars, posts>>

\* Mutant: the Data has forgotten the group, whose list is not updated.
CloseLeaveStaysListed(t) ==
  /\ At(t, "close", "leave")
  /\ Continue(t, [Top(t) EXCEPT !.pc = "disentangle", !.group = None])
  /\ UNCHANGED <<dataVars, wrapVars, envVars, posts>>

\* The second critical section of RemoveFromBroadcastChannelGroup, under the
\* group's mutex: the group no longer lists the Data.
CloseLeave(t) ==
  /\ At(t, "close", "leave")
  /\ members' = [members EXCEPT ![Top(t).group] = @ \ {Top(t).own}]
  /\ Continue(t, [Top(t) EXCEPT !.pc = "disentangle", !.group = None])
  /\ UNCHANGED <<queue, closeEnq, closed, sibling, attached, group, born,
                 wrapVars, envVars, posts>>

\* DisentanglePeer's first critical section, under the Data's own mutex: mark
\* it closed and take its sibling.
CloseDisentangle(t) ==
  /\ At(t, "close", "disentangle") /\ Top(t).own # None
  /\ LET f    == Top(t)
         peer == Lock(f.own)
     IN  /\ sibling' = [sibling EXCEPT ![f.own] = None]
         /\ closed'  = [closed EXCEPT ![f.own] = TRUE]
         /\ Continue(t, [f EXCEPT !.pc = IF peer = None THEN "onclose" ELSE "peer",
                                  !.peer = peer])
  /\ UNCHANGED <<queue, closeEnq, attached, group, born, members, wrapVars,
                 envVars, posts>>

\* The peer's link is reset.
Unlinked(e) == [sibling EXCEPT ![e] = None]

\* DisentanglePeer's second critical section, under the peer's mutex, and the
\* call that sends the close message; then the onclose handler runs.
CloseUnlinkPeer(t) ==
  /\ At(t, "close", "peer") /\ Top(t).peer # None
  /\ sibling' = Unlinked(Top(t).peer)
  /\ Call(t, [Top(t) EXCEPT !.pc = "onclose", !.peer = None],
             Enqueue(Top(t).peer, CloseMsg))
  /\ UNCHANGED <<queue, closeEnq, closed, attached, group, born, members,
                 wrapVars, envVars, posts>>

\* The rest of OnMessagePortClosed: the Data forgets the wrap, which is
\* deleted at once when the environment is being cleaned up.
CloseFinish(t) ==
  /\ At(t, "close", "onclose")
  /\ Return(t)
  /\ attached' = ClearAttached(Top(t).wrap)
  /\ IF cleanup[t] THEN Delete(Top(t).wrap)
                   ELSE UNCHANGED <<state, data, queue, closeEnq>>
  /\ UNCHANGED <<closed, sibling, group, born, members, thread, receiving,
                 async, envVars, posts>>

\* MessagePortFinalize.  The wrapper is held strongly until OnMessagePortClosed,
\* and by every frame that uses it, so only a closed wrap is collected.
Finalize(t, w) ==
  /\ "gc" \in Calls /\ running[t] /\ InJS(t)
  /\ Own(t, w) /\ state[w] = "Closed"
  /\ \A i \in DOMAIN stack[t] :
       LET f == stack[t][i] IN
         /\ f.op # "enqueue" => f.wrap # w
         /\ f.op = "post" => f.xwrap # w
  /\ Delete(w)
  /\ UNCHANGED <<closed, sibling, attached, group, born, members, thread,
                 receiving, async, envVars, stack, posts>>

\* Environment::RunCleanup closes every port of the environment
\* (CloseMessagePortForCleanup); from then on it runs no JavaScript.
EnvCleanup(t) ==
  /\ "cleanup" \in Calls /\ running[t] /\ ~cleanup[t] /\ stack[t] = << >>
  /\ cleanup' = [cleanup EXCEPT ![t] = TRUE]
  /\ state'   = [w \in Wraps |-> IF thread[w] = t /\ state[w] = "Initialized"
                                 THEN "Closing" ELSE state[w]]
  /\ UNCHANGED <<dataVars, thread, data, receiving, async, running, envData,
                 envPort, stack, posts>>

-----------------------------------------------------------------------------
\* JavaScript of thread t may call function c of the binding.
CanCall(t, c) ==
  c \in Calls /\ running[t] /\ ~cleanup[t] /\ InJS(t) /\ Len(stack[t]) < MaxDepth

\* Calls that JavaScript makes
Script(t) ==
  \/ CanCall(t, "MessageChannel") /\ \E v, w \in Wraps, d \in Datas : MessageChannel(t, v, w, d)
  \/ CanCall(t, "BroadcastChannel")
       /\ \E w \in Wraps, d \in Datas, g \in Groups : BroadcastChannel(t, w, d, g)
  \/ CanCall(t, "Worker")
       /\ \E w \in Wraps, u \in Threads, d \in Datas : StartWorker(t, u, w, d)
  \/ CanCall(t, "Worker") /\ \E w \in Wraps : GetEnvMessagePort(t, w)
  \/ CanCall(t, "postMessage")
       /\ \E w \in Wraps : Own(t, w) /\ \E x \in Wraps \cup {None} : PostMessage(t, w, x)
  \/ CanCall(t, "drain")   /\ \E w \in Wraps : DrainMessagePort(t, w)
  \/ CanCall(t, "receive") /\ \E w \in Wraps : ReceiveMessageOnPort(t, w)
  \/ CanCall(t, "start")   /\ \E w \in Wraps : Start(t, w)
  \/ CanCall(t, "stop")    /\ \E w \in Wraps : Stop(t, w)
  \/ CanCall(t, "close")   /\ \E w \in Wraps : Close(t, w)

\* The running frame's next step
Proceed(t) ==
  \/ PostCloneFails(t) \/ PostOnClosed(t) \/ PostToPeer(t) \/ PostToGroup(t)
  \/ PostDetach(t) \/ PostLost(t) \/ PostMore(t)
  \/ EnqueuePush(t) \/ TriggerReadAttached(t) \/ TriggerCheck(t) \/ TriggerSend(t)
  \/ PumpMessage(t) \/ PumpReturn(t) \/ PumpClose(t) \/ PumpEnd(t)
  \/ JoinGroup(t) \/ CloseLeave(t) \/ CloseDisentangle(t)
  \/ CloseUnlinkPeer(t) \/ CloseFinish(t)

Next == \E t \in Threads :
  \/ Script(t)
  \/ Proceed(t)
  \/ \E w \in Wraps : AsyncCallback(t, w) \/ CloseCallback(t, w) \/ Finalize(t, w)
  \/ EnvCleanup(t)

Spec == Init /\ [][Next]_vars

-----------------------------------------------------------------------------
WrapStates == {"Unborn", "Initialized", "Closing", "Closed", "Deleted"}

\* Every field has its type.
TypeOK ==
  /\ queue \in [Datas -> Seq(Message)]
  /\ closeEnq \in [Datas -> BOOLEAN] /\ closed \in [Datas -> BOOLEAN]
  /\ sibling \in [Datas -> Datas \cup {None}]
  /\ attached \in [Datas -> Wraps \cup {None}]
  /\ group \in [Datas -> Groups \cup {None}]
  /\ born \subseteq Datas
  /\ members \in [Groups -> SUBSET Datas]
  /\ state \in [Wraps -> WrapStates]
  /\ thread \in [Wraps -> Threads]
  /\ data \in [Wraps -> Datas \cup {None}]
  /\ receiving \in [Wraps -> BOOLEAN] /\ async \in [Wraps -> BOOLEAN]
  /\ running \in [Threads -> BOOLEAN] /\ cleanup \in [Threads -> BOOLEAN]
  /\ envData \in [Threads -> Datas \cup {None}]
  /\ envPort \in [Threads -> BOOLEAN]
  /\ stack \in [Threads -> Seq(Frame)]
  /\ posts \in 0..MaxPosts

(***************************************************************************)
(* Safety                                                                  *)
(***************************************************************************)
Frames == UNION {{stack[t][i] : i \in DOMAIN stack[t]} : t \in Threads}

\* The raw attached_port of a Data always points at a wrap that has not been
\* deleted and that holds this very Data: every path that closes, transfers
\* or deletes a wrap clears the pointer first.
AttachedIsOwner ==
  \A d \in Datas : attached[d] # None =>
    data[attached[d]] = d /\ Live(attached[d])

\* Why AttachedIsOwner holds: OnMessagePortClosed, the only code that leaves a
\* closed wrap attached, is then still at the bottom of its thread's stack.
ClosingFrame(w) == LET s == stack[thread[w]] IN
  s # << >> /\ s[1].op = "close" /\ s[1].wrap = w
AttachedInv ==
  \A d \in Datas : attached[d] # None =>
    /\ data[attached[d]] = d
    /\ \/ state[attached[d]] \in {"Initialized", "Closing"}
       \/ state[attached[d]] = "Closed" /\ ClosingFrame(attached[d])

\* A Data has one owner: a wrap, a message in a queue, a message on its way
\* into a queue, or an environment that has not made its port yet.
InFlight(f, d) == f.op = "enqueue" /\ f.pc = "push" /\ f.msg.port = d
Owners(d) ==
  {<<"wrap", w>> : w \in {v \in Wraps : data[v] = d}} \cup
  {<<"queue", q>> : q \in {e \in Datas : Carries(e, d)}} \cup
  {<<"frame", t>> : t \in {u \in Threads : \E i \in DOMAIN stack[u] : InFlight(stack[u][i], d)}} \cup
  {<<"env", t>> : t \in {u \in Threads : envData[u] = d /\ ~envPort[u]}}
SingleOwner ==
  \A d \in Datas :
    /\ Cardinality(Owners(d)) <= 1
    /\ \A q \in Datas : \A i, j \in DOMAIN queue[q] :
         queue[q][i].port = d /\ queue[q][j].port = d => i = j

\* close_message_enqueued says exactly whether a close message is queued, and
\* nothing is queued behind a close message.
CloseMessageIsLast ==
  \A d \in Datas :
    /\ closeEnq[d] <=> \E i \in DOMAIN queue[d] : queue[d][i].close
    /\ \A i \in DOMAIN queue[d] : queue[d][i].close => i = Len(queue[d])

\* Sibling links are symmetric, except between the two critical sections of
\* DisentanglePeer, and then the side that is gone is closed.
SiblingSymmetric ==
  \A d \in Datas : LET e == sibling[d] IN
    e # None /\ Alive(d) =>
      \/ sibling[e] = d
      \/ closed[e] /\ \E f \in Frames : f.op = "close" /\ f.pc = "peer" /\ f.peer = d

\* Transfer and close keep the graph of Datas whole: a Data has one owner, and
\* the two ends of a channel, wherever each of them is, point at each other.
WellLinked == SingleOwner /\ SiblingSymmetric

\* The news of a close is never lost: when one end is closed the other one is
\* closed too, or closing, or has the close message, or is about to get it,
\* or no longer exists.
CloseNotified ==
  \A d \in Datas : d \in born /\ Twin[d] # d /\ closed[d] =>
    LET e == Twin[d] IN
      \/ closed[e] \/ closeEnq[e] \/ ~Alive(e)
      \/ \E f \in Frames : f.op = "close" /\ f.peer = e
      \/ \E f \in Frames : f.op = "enqueue" /\ f.pc = "push" /\ f.target = e /\ f.msg.close
      \/ \E w \in Wraps : data[w] = e /\ state[w] \in {"Closing", "Closed"}

\* The other end of a closed port is told, once and after everything that was
\* posted before, however the two closes and the posts interleave.
CloseReported == CloseMessageIsLast /\ CloseNotified

\* No wakeup is lost: an open port with queued messages has its async handle
\* pending, is being pumped, or is about to be triggered.
NoLostWakeup ==
  \A d \in Datas : LET w == attached[d] IN
    w # None /\ queue[d] # << >> /\ state[w] = "Initialized" =>
      \/ async[w]
      \/ \E f \in Frames : \/ f.op = "pump" /\ ~f.force /\ f.wrap = w
                           \/ f.op = "enqueue" /\ f.pc = "attached" /\ f.target = d
                           \/ f.op = "enqueue" /\ f.pc \in {"check", "send"} /\ f.trig = w

\* A closed Data stays closed: no wrap is ever made for it again.
ClosedIsFinal == [][\A d \in Datas : closed[d] => closed'[d]]_closed

\* Between its two critical sections a port that joins g names a group that
\* does not list it, and one that leaves is listed where it does not belong.
Joins(d, g)  == \E f \in Frames : f.op = "join" /\ f.own = d /\ f.group = g
Leaves(d, g) == \E f \in Frames :
  f.op = "close" /\ f.pc = "leave" /\ f.own = d /\ f.group = g

\* The snapshot that GetBroadcastChannelTargets takes under the group's mutex
\* misses no open port and offers no closed one, whichever critical sections
\* of joining and leaving ports it falls between: a broadcast port that is
\* open names a group, which lists it once its constructor is through; a Data
\* that is listed is not closed yet, and it names the group or is leaving it.
GroupIsOpenPorts ==
  /\ \A w \in Wraps : LET d == data[w] IN
       d # None /\ Twin[d] = d /\ state[w] \in {"Initialized", "Closing"} =>
         group[d] # None /\ (d \in members[group[d]] \/ Joins(d, group[d]))
  /\ \A g \in Groups : \A d \in members[g] :
       ~closed[d] /\ (group[d] = g \/ Leaves(d, g))

-----------------------------------------------------------------------------
(***************************************************************************)
(* Liveness.  A native frame always goes on and JavaScript handlers        *)
(* return.  The event loop runs a pending async callback and a close       *)
(* callback in every iteration, so neither can be passed over forever even *)
(* though each is enabled only between two frames: strong fairness.        *)
(***************************************************************************)
Fairness == \A t \in Threads :
  /\ WF_vars(Proceed(t))
  /\ \A w \in Wraps : SF_vars(AsyncCallback(t, w)) /\ SF_vars(CloseCallback(t, w))

FairSpec == Spec /\ Fairness

HasMessages(w) == Usable(w) /\ receiving[w] /\ queue[data[w]] # << >>

\* What is queued for a started port is delivered, unless the port is stopped
\* or closed first.
QueuedIsDelivered == \A w \in Wraps : HasMessages(w) ~> ~HasMessages(w)

\* The Data e has no port yet, or its port is stopped in front of an
\* undelivered message.
Waiting(e) == \A w \in Wraps : data[w] = e =>
  ~receiving[w] /\ queue[e] # << >> /\ ~Head(queue[e]).close

\* Closing one end closes the other, after delivery of what was posted before
\* the close; only a port that is stopped or was never made waits.
CloseReachesPeer ==
  \A d \in Datas : Twin[d] # d /\ closed[d] ~> closed[Twin[d]] \/ Waiting(Twin[d])

=============================================================================
