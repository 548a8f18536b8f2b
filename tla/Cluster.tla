------------------------------- MODULE Cluster -------------------------------
(***************************************************************************)
(* The cluster module: lib/internal/cluster/primary.js, child.js,          *)
(* round_robin_handle.js, shared_handle.js, utils.js and worker.js.  A     *)
(* primary process forks workers; a worker that listens asks the primary,  *)
(* which owns the listening socket, shares it (SCHED_NONE) or accepts the  *)
(* connections itself and hands them out round robin (SCHED_RR).           *)
(*                                                                         *)
(* The workers listen on one address, so that `handles' of the primary has *)
(* one key; each worker has one server at a time.  The IPC channel is a    *)
(* FIFO per direction (module IpcChannel says why) that ends with "EOF".   *)
(* A worker may die at any time; what it sent before still arrives, what   *)
(* it did not read, or is sent to it later, stays unread.                  *)
(***************************************************************************)
EXTENDS Naturals, SequencesExt

CONSTANTS Workers,    \* the ids that fork() gives, in order
          Conns,
          None,       \* no worker, no handle, no fault
          Policies,   \* scheduling policies to consider: "rr", "shared"
          MaxServed,  \* server.maxConnections of a worker
          Binds,      \* how listen() of the primary may end: "now", "later", "fail"
          UserCalls,  \* what the users of the processes do
          MaxCalls    \* bound: how often they do it

Faults == {"handle.close()", "handles.get(key)"}

ASSUME ClusterAssumption ==
  /\ Workers \subseteq Nat /\ None \notin Nat \cup Conns \cup Faults
  /\ Policies \subseteq {"rr", "shared"}
  /\ MaxServed \in Nat /\ MaxCalls \in Nat

VARIABLES policy,  \* cluster.schedulingPolicy
          reg,     \* the primary's Worker objects
          table,   \* handles.get(key): the index of a handle in hs, or None
          hs,      \* the RoundRobinHandles and SharedHandles created so far
          fault,   \* the TypeError that ended the primary, or None
          up, down,  \* messages to and from the primary, by worker
          proc,    \* the worker processes
          open,    \* connections whose handle the primary has not closed
          served,  \* the workers that accepted a connection, by connection
          sent,    \* the worker a connection was last sent to, by connection
          seen,    \* connections that were accepted from the socket
          calls    \* what the users did so far

vars == <<policy, reg, table, hs, fault, up, down, proc, open, served, sent, seen, calls>>
primary == <<reg, table, hs, open>>

Msg(act) == [act |-> act, c |-> None, h |-> None, ok |-> TRUE]
ConnMsg(act, c, h, ok) == [act |-> act, c |-> c, h |-> h, ok |-> ok]

NewHandle(kind, st) ==
  [kind |-> kind, all |-> {}, free |-> <<>>, conns |-> <<>>, st |-> st, waiting |-> <<>>]

Init ==
  /\ policy \in Policies
  /\ reg = [w \in Workers |-> [state |-> "unforked", listed |-> FALSE, connected |-> FALSE,
                               dead |-> FALSE, exitedAfterDisconnect |-> FALSE]]
  /\ table = None /\ hs = <<>> /\ fault = None
  /\ up = [w \in Workers |-> <<>>] /\ down = [w \in Workers |-> <<>>]
  /\ proc = [w \in Workers |-> [alive |-> FALSE, connected |-> FALSE, state |-> "none",
                                server |-> "none", exitedAfterDisconnect |-> FALSE,
                                waiting |-> "no", conns |-> {}]]
  /\ open = {} /\ seen = {} /\ calls = 0 /\ served = [c \in Conns |-> {}]
  /\ sent = [c \in Conns |-> None]

-----------------------------------------------------------------------------
(* Messages. *)

(* send() of the primary: nothing is sent to a worker known as disconnected.  *)
(* What is sent to one that left, and whose EOF is still to be read, stays in *)
(* `down': writing a handle succeeds (uv_write2() returns 0) and turns the    *)
(* queue on that waits for its ACK.  S maps workers to message sequences.     *)
SendAll(S) ==
  LET Handed(c) == {w \in Workers : \E m \in ToSet(S[w]) : m.c = c} IN
  /\ down' = [w \in Workers |->
               IF reg[w].connected THEN down[w] \o S[w] ELSE down[w]]
  /\ sent' = [c \in Conns |->
               IF Handed(c) = {} THEN sent[c] ELSE CHOOSE w \in Handed(c) : TRUE]
To(w, ms) == [x \in Workers |-> IF x = w THEN ms ELSE <<>>]

(* send() of a worker. *)
Tell(w, ms) == up' = [up EXCEPT ![w] = @ \o ms]

(* Worker w has the message m of the primary in front; the primary that of w. *)
Gets(w, act) == proc[w].alive /\ proc[w].connected /\ down[w] # <<>> /\ Head(down[w]).act = act
Hears(w, act) == fault = None /\ up[w] # <<>> /\ Head(up[w]).act = act
UserCall(c) == c \in UserCalls /\ calls < MaxCalls /\ calls' = calls + 1
Take(ch, w) == [ch EXCEPT ![w] = Tail(@)]

(* A handle sent to w, before or after it left, that w has not read: a       *)
(* connection, or a shared socket.                                           *)
Unacknowledged(w) ==
  \E m \in ToSet(down[w]) : m.act = "newconn" \/ (m.act = "reply" /\ m.ok /\ policy = "shared")

-----------------------------------------------------------------------------
(* RoundRobinHandle and SharedHandle, as functions of a handle H. *)

\* Mutant: the connection that is sent stays in the queue.
handoffKeeps(H, w) ==
  IF w \notin H.all \/ H.conns # <<>> THEN H
  ELSE [H EXCEPT !.free = IF w \in ToSet(@) THEN @ ELSE Append(@, w)]

(* handoff(worker): the oldest connection goes to w, or w is free again. *)
handoff(H, w) ==
  IF w \notin H.all THEN H
  ELSE IF H.conns = <<>>
       THEN [H EXCEPT !.free = IF w \in ToSet(@) THEN @ ELSE Append(@, w)]
       ELSE [H EXCEPT !.conns = Tail(@)]
handoffSends(H, h, w) ==
  IF w \in H.all /\ H.conns # <<>> THEN <<ConnMsg("newconn", Head(H.conns), h, TRUE)>> ELSE <<>>

(* distribute(0, c): the first free worker gets the oldest connection. *)
\* Mutant: the connection waits although a worker is free.
distributeLater(H, c) == [H EXCEPT !.conns = Append(@, c)]
queued(H, c) == [H EXCEPT !.conns = Append(@, c)]
distribute(H, c) ==
  IF H.free = <<>> THEN queued(H, c)
  ELSE handoff([queued(H, c) EXCEPT !.free = Tail(@)], Head(H.free))
distributeSends(H, h, c) ==
  [w \in Workers |-> IF H.free # <<>> /\ w = Head(H.free)
                     THEN handoffSends([queued(H, c) EXCEPT !.free = Tail(@)], h, w) ELSE <<>>]

(* remove(worker); RemoveLast: it was the last one, the socket is closed. *)
RemoveLast(H, w) == H.all = {w}
remove(H, w) ==
  IF w \notin H.all THEN H
  ELSE IF RemoveLast(H, w)
       THEN [H EXCEPT !.all = {}, !.free = <<>>, !.conns = <<>>, !.st = "closed"]
       ELSE [H EXCEPT !.all = @ \ {w}, !.free = RemoveFirst(@, w)]
RemoveCloses(H, w) == IF RemoveLast(H, w) THEN ToSet(H.conns) ELSE {}

(* A handle whose last worker goes while it is still binding has no handle *)
(* to close: this.handle is null.                                          *)
RemoveFaults(w) ==
  table # None /\ RemoveLast(hs[table], w) /\ hs[table].st = "binding"

\* Mutant: the key of a closed handle stays in the table.
RemoveHandlesKeepsKey(w) ==
  IF table = None THEN UNCHANGED <<hs, table, open>>
  ELSE /\ hs' = [hs EXCEPT ![table] = remove(@, w)]
       /\ open' = open \ RemoveCloses(hs[table], w)
       /\ UNCHANGED table

(* removeHandlesForWorker(worker), and close(worker): one key, one handle. *)
RemoveHandles(w) ==
  IF table = None THEN UNCHANGED <<hs, table, open>>
  ELSE /\ hs' = [hs EXCEPT ![table] = remove(@, w)]
       /\ table' = IF RemoveLast(hs[table], w) THEN None ELSE table
       /\ open' = open \ RemoveCloses(hs[table], w)

RemoveOrFault(w) ==
  \/ ~RemoveFaults(w) /\ RemoveHandles(w) /\ UNCHANGED fault
  \/ RemoveFaults(w) /\ fault' = "handle.close()" /\ UNCHANGED <<hs, table, open>>

-----------------------------------------------------------------------------
(* The primary. *)

fork(w) ==
  /\ fault = None /\ reg[w].state = "unforked"
  /\ \A v \in Workers : v < w => reg[v].state # "unforked"
  /\ reg' = [reg EXCEPT ![w] = [@ EXCEPT !.state = "none", !.listed = TRUE, !.connected = TRUE]]
  /\ proc' = [proc EXCEPT ![w] = [@ EXCEPT !.alive = TRUE, !.connected = TRUE,
                                           !.state = "online"]]
  /\ Tell(w, <<Msg("online")>>)
  /\ UNCHANGED <<policy, table, hs, fault, down, open, served, sent, seen, calls>>

online(w) ==
  /\ Hears(w, "online")
  /\ reg' = [reg EXCEPT ![w].state = "online"]
  /\ up' = Take(up, w)
  /\ UNCHANGED <<policy, table, hs, fault, down, proc, open, served, sent, seen, calls>>

listening(w) ==
  /\ Hears(w, "listening")
  /\ reg' = [reg EXCEPT ![w].state = "listening"]
  /\ up' = Take(up, w)
  /\ UNCHANGED <<policy, table, hs, fault, down, proc, open, served, sent, seen, calls>>

exitedAfterDisconnect(w) ==
  /\ Hears(w, "exitedAfterDisconnect")
  /\ reg' = [reg EXCEPT ![w].exitedAfterDisconnect = TRUE]
  /\ up' = Take(up, w)
  /\ SendAll(To(w, <<Msg("ackExited")>>))
  /\ UNCHANGED <<policy, table, hs, fault, proc, open, served, seen, calls>>

(* queryServer of a worker that is disconnecting is dropped. *)
queryServerIgnored(w) ==
  /\ Hears(w, "queryServer") /\ reg[w].exitedAfterDisconnect
  /\ up' = Take(up, w)
  /\ UNCHANGED <<policy, reg, table, hs, fault, down, proc, open, served, sent, seen, calls>>

(* The handle a query uses: the cached one unless the worker is in it. *)
Cached(w) == table # None /\ w \notin hs[table].all

(* The callback of add(): answer the worker, then (rr) hand it a connection. *)
Answer(H, h, w, ok) ==
  SendAll(To(w, <<ConnMsg("reply", None, h, ok)>> \o (IF ok THEN handoffSends(H, h, w) ELSE <<>>)))

Added(H, w) == [H EXCEPT !.all = @ \cup {w}]

(* A query that finds the handle, or creates one.  A new socket is bound at *)
(* once, fails at once, or is still binding when the next message comes.    *)
queryServer(w) ==
  /\ Hears(w, "queryServer") /\ ~reg[w].exitedAfterDisconnect
  /\ up' = Take(up, w)
  /\ \/ /\ Cached(w) /\ hs[table].st = "bound"
        /\ LET H == Added(hs[table], w) IN
           /\ hs' = [hs EXCEPT ![table] = IF H.kind = "rr" THEN handoff(H, w) ELSE H]
           /\ Answer(H, table, w, TRUE)
        /\ UNCHANGED table
     \/ /\ Cached(w) /\ hs[table].st # "bound"
        /\ LET H == Added(hs[table], w) IN
           hs' = [hs EXCEPT ![table] = [H EXCEPT !.waiting = Append(@, w)]]
        /\ UNCHANGED <<table, down, sent>>
     \/ /\ ~Cached(w)
        /\ LET h == Len(hs) + 1
               H == Added(NewHandle(policy, "bound"), w)
           IN
           \/ /\ "now" \in Binds
              /\ hs' = Append(hs, IF policy = "rr" THEN handoff(H, w) ELSE H)
              /\ table' = h
              /\ Answer(H, h, w, TRUE)
           \/ /\ "fail" \in Binds
              /\ hs' = Append(hs, [H EXCEPT !.st = "failed"])
              /\ Answer(H, h, w, FALSE)
              /\ UNCHANGED table
           \/ /\ "later" \in Binds /\ policy = "rr"
              /\ hs' = Append(hs, [H EXCEPT !.st = "binding", !.waiting = <<w>>])
              /\ table' = IF table = None THEN h ELSE table
              /\ UNCHANGED <<down, sent>>
  /\ UNCHANGED <<policy, reg, fault, proc, open, served, seen, calls>>

(* 'listening' of the primary's server: every waiting add() is answered, and *)
(* its worker is handed a connection; there is none yet.                     *)
handoffAll(H, ws) ==
  LET after[i \in 0 .. Len(ws)] == IF i = 0 THEN H ELSE handoff(after[i - 1], ws[i])
  IN  after[Len(ws)]
bound(h) ==
  /\ fault = None /\ hs[h].st = "binding"
  /\ hs' = [hs EXCEPT ![h] = handoffAll([@ EXCEPT !.st = "bound", !.waiting = <<>>], hs[h].waiting)]
  /\ table' = IF hs[h].waiting = <<>> THEN table ELSE h
  /\ SendAll([w \in Workers |-> IF w \in ToSet(hs[h].waiting)
                                THEN <<ConnMsg("reply", None, h, TRUE)>> ELSE <<>>])
  /\ UNCHANGED <<policy, reg, fault, up, proc, open, served, seen, calls>>

(* 'error' of it: the worker that created the handle takes it out of the     *)
(* table; the callback of the next one then reads `data' of undefined.       *)
bindFailed(h) ==
  /\ fault = None /\ hs[h].st = "binding"
  /\ hs' = [hs EXCEPT ![h].st = "failed", ![h].waiting = <<>>]
  /\ table' = IF table = h THEN None ELSE table
  /\ fault' = IF table = h /\ Len(hs[h].waiting) > 1 THEN "handles.get(key)" ELSE fault
  /\ LET told == IF table = h THEN {Head(hs[h].waiting)} ELSE ToSet(hs[h].waiting)
     IN SendAll([w \in Workers |-> IF w \in told
                                   THEN <<ConnMsg("reply", None, h, FALSE)>> ELSE <<>>])
  /\ UNCHANGED <<policy, reg, up, proc, open, served, seen, calls>>

(* The worker closed its server. *)
close(w) ==
  /\ Hears(w, "close")
  /\ up' = Take(up, w)
  /\ RemoveOrFault(w)
  /\ UNCHANGED <<policy, reg, down, proc, served, sent, seen, calls>>

\* Mutant: a connection that was sent back is forgotten.
redistributeNot(H, c) == H
(* "Worker is shutting down. Send to another." *)
redistribute(H, c) == distribute(H, c)

(* The worker answered newconn; the rest of handoff()'s callback. *)
ackNewconn(w) ==
  /\ Hears(w, "ackNewconn")
  /\ up' = Take(up, w)
  /\ LET m == Head(up[w])
         H == hs[m.h]
         H1 == IF m.ok THEN H ELSE redistribute(H, m.c)
         S1 == IF m.ok THEN To(w, <<>>) ELSE distributeSends(H, m.h, m.c)
     IN
     /\ hs' = [hs EXCEPT ![m.h] = handoff(H1, w)]
     /\ open' = IF m.ok THEN open \ {m.c} ELSE open
     /\ SendAll([x \in Workers |-> IF x = w THEN S1[x] \o handoffSends(H1, m.h, w) ELSE S1[x]])
  /\ UNCHANGED <<policy, reg, table, fault, proc, served, seen, calls>>

(* A client connects: distribute() of the bound round-robin handle. *)
connection(c) ==
  /\ fault = None /\ table # None /\ c \notin seen
  /\ hs[table].st = "bound" /\ hs[table].kind = "rr"
  /\ seen' = seen \cup {c} /\ open' = open \cup {c}
  /\ hs' = [hs EXCEPT ![table] = distribute(@, c)]
  /\ SendAll(distributeSends(hs[table], table, c))
  /\ UNCHANGED <<policy, reg, table, fault, up, proc, served, calls>>

(* removeWorker(), unless the other one of 'exit' and 'disconnect' is still to come. *)
Listed(w, still) == reg[w].listed /\ still

(* The channel of the worker ends: the 'disconnect' event of its process. *)
disconnectEvent(w) ==
  /\ Hears(w, "EOF") /\ ~Unacknowledged(w)
  /\ up' = Take(up, w)
  /\ RemoveOrFault(w)
  /\ reg' = IF RemoveFaults(w) THEN reg
            ELSE [reg EXCEPT ![w] = [@ EXCEPT !.connected = FALSE, !.state = "disconnected",
                                              !.listed = Listed(w, ~reg[w].dead)]]
  /\ UNCHANGED <<policy, down, proc, served, sent, seen, calls>>

(* It ends while the primary waits for NODE_HANDLE_ACK: target.disconnect()  *)
(* of lib/internal/child_process.js puts the rest off until the ACK, so that *)
(* only `connected' changes and the event never comes.                       *)
silentDisconnect(w) ==
  /\ Hears(w, "EOF") /\ Unacknowledged(w)
  /\ up' = Take(up, w)
  /\ reg' = [reg EXCEPT ![w].connected = FALSE]
  /\ UNCHANGED <<policy, table, hs, open, fault, down, proc, served, sent, seen, calls>>

(* The 'exit' event of the process, before or after 'disconnect'. *)
exitEvent(w) ==
  /\ fault = None /\ reg[w].state # "unforked" /\ ~proc[w].alive /\ ~reg[w].dead
  /\ IF reg[w].connected THEN UNCHANGED <<hs, table, open, fault>> ELSE RemoveOrFault(w)
  /\ reg' = IF ~reg[w].connected /\ RemoveFaults(w) THEN [reg EXCEPT ![w].dead = TRUE]
            ELSE [reg EXCEPT ![w] = [@ EXCEPT !.dead = TRUE, !.state = "dead",
                                              !.listed = Listed(w, reg[w].connected)]]
  /\ UNCHANGED <<policy, up, down, proc, served, sent, seen, calls>>

(* worker.disconnect() in the primary, also by cluster.disconnect(). *)
primaryDisconnect(w) ==
  /\ fault = None /\ UserCall("primaryDisconnect")
  /\ reg[w].listed /\ reg[w].connected /\ ~reg[w].exitedAfterDisconnect
  /\ reg' = [reg EXCEPT ![w] = [@ EXCEPT !.exitedAfterDisconnect = TRUE, !.listed = RemoveFaults(w)]]
  /\ SendAll(To(w, <<Msg("disconnect")>>))
  /\ RemoveOrFault(w)
  /\ UNCHANGED <<policy, up, proc, served, seen>>

-----------------------------------------------------------------------------
(* The workers. *)

Set(w, p) == proc' = [proc EXCEPT ![w] = p]
Running(w) == proc[w].alive /\ proc[w].connected

(* listen(): cluster._getServer asks the primary. *)
listen(w) ==
  /\ Running(w) /\ proc[w].server = "none" /\ UserCall("listen")
  /\ Set(w, [proc[w] EXCEPT !.server = "asked"])
  /\ Tell(w, <<Msg("queryServer")>>)
  /\ UNCHANGED <<policy, primary, fault, down, served, sent, seen>>

(* The answer: rr() or shared(), then the 'listening' event of the server. *)
reply(w) ==
  /\ Gets(w, "reply")
  /\ down' = Take(down, w)
  /\ \/ /\ Head(down[w]).ok
        /\ Set(w, [proc[w] EXCEPT !.server = "open", !.state = "listening"])
        /\ Tell(w, <<Msg("listening")>>)
     \/ /\ ~Head(down[w]).ok
        /\ Set(w, [proc[w] EXCEPT !.server = "none"])
        /\ UNCHANGED up
  /\ UNCHANGED <<policy, primary, fault, served, sent, seen, calls>>

(* onconnection(): accepted by an open server that is not full. *)
Accepts(w) == proc[w].server = "open" /\ Cardinality(proc[w].conns) < MaxServed
onconnection(w) ==
  /\ Gets(w, "newconn")
  /\ down' = Take(down, w)
  /\ LET m == Head(down[w]) IN
     /\ Tell(w, <<ConnMsg("ackNewconn", m.c, m.h, Accepts(w))>>)
     /\ IF Accepts(w)
        THEN /\ Set(w, [proc[w] EXCEPT !.conns = @ \cup {m.c}])
             /\ served' = [served EXCEPT ![m.c] = @ \cup {w}]
        ELSE UNCHANGED <<proc, served>>
  /\ UNCHANGED <<policy, primary, fault, sent, seen, calls>>

(* A served connection ends. *)
endConn(w, c) ==
  /\ proc[w].alive /\ c \in proc[w].conns
  /\ Set(w, [proc[w] EXCEPT !.conns = @ \ {c}])
  /\ UNCHANGED <<policy, primary, fault, up, down, served, sent, seen, calls>>

(* The user closes the server; its connections no longer count. *)
closeServer(w) ==
  /\ Running(w) /\ proc[w].server = "open" /\ UserCall("close")
  /\ Set(w, [proc[w] EXCEPT !.server = "none", !.conns = {}])
  /\ Tell(w, <<Msg("close")>>)
  /\ UNCHANGED <<policy, primary, fault, down, served, sent, seen>>

(* process.disconnect(); a worker that is destroying itself exits then. *)
Disconnected(w, p) ==
  [p EXCEPT !.connected = FALSE, !.alive = (p.state # "destroying"), !.waiting = "no"]

(* _disconnect(primaryInitiated): every server is closed, and the rest waits *)
(* for its connections to end.                                               *)
_disconnect(w, who, state) ==
  LET p == [proc[w] EXCEPT !.exitedAfterDisconnect = TRUE, !.state = state]
      closes == IF p.server = "open" THEN <<Msg("close")>> ELSE <<>>
      q == [p EXCEPT !.server = IF @ = "open" THEN "none" ELSE @]
  IN
  \/ /\ p.server = "open" /\ p.conns # {}
     /\ Set(w, [q EXCEPT !.waiting = who])
     /\ Tell(w, closes)
  \/ /\ p.server # "open" \/ p.conns = {}
     /\ \/ /\ who = "primary"
           /\ Set(w, Disconnected(w, q))
           /\ Tell(w, closes \o <<Msg("EOF")>>)
        \/ /\ who = "self"
           /\ Set(w, q)
           /\ Tell(w, closes \o <<Msg("exitedAfterDisconnect")>>)

disconnectMessage(w) ==
  /\ Gets(w, "disconnect")
  /\ down' = Take(down, w)
  /\ _disconnect(w, "primary", proc[w].state)
  /\ UNCHANGED <<policy, primary, fault, served, sent, seen, calls>>

workerDisconnect(w) ==
  /\ Running(w) /\ proc[w].state \notin {"disconnecting", "destroying"}
  /\ UserCall("workerDisconnect")
  /\ _disconnect(w, "self", "disconnecting")
  /\ UNCHANGED <<policy, primary, fault, down, served, sent, seen>>

\* Mutant: the callbacks of close() are not counted.
waitingNeverDone(w) == FALSE

(* checkWaitingCount(): the last connection of the closed servers ended. *)
waitingDone(w) ==
  /\ Running(w) /\ proc[w].waiting # "no" /\ proc[w].conns = {}
  /\ \/ /\ proc[w].waiting = "primary"
        /\ Set(w, Disconnected(w, proc[w]))
        /\ Tell(w, <<Msg("EOF")>>)
     \/ /\ proc[w].waiting = "self"
        /\ Set(w, [proc[w] EXCEPT !.waiting = "no"])
        /\ Tell(w, <<Msg("exitedAfterDisconnect")>>)
  /\ UNCHANGED <<policy, primary, fault, down, served, sent, seen, calls>>

workerDestroy(w) ==
  /\ Running(w) /\ proc[w].state # "destroying" /\ UserCall("workerDestroy")
  /\ Set(w, [proc[w] EXCEPT !.exitedAfterDisconnect = TRUE, !.state = "destroying"])
  /\ Tell(w, <<Msg("exitedAfterDisconnect")>>)
  /\ UNCHANGED <<policy, primary, fault, down, served, sent, seen>>

(* The primary knows that the worker leaves on purpose. *)
ackExited(w) ==
  /\ Gets(w, "ackExited")
  /\ down' = Take(down, w)
  /\ Set(w, Disconnected(w, proc[w]))
  /\ Tell(w, <<Msg("EOF")>>)
  /\ UNCHANGED <<policy, primary, fault, served, sent, seen, calls>>

(* The primary died: a worker that did not want to leave exits. *)
orphaned(w) ==
  /\ fault # None /\ Running(w)
  /\ Set(w, [proc[w] EXCEPT !.connected = FALSE, !.alive = @ /\ proc[w].exitedAfterDisconnect])
  /\ UNCHANGED <<policy, primary, fault, up, down, served, sent, seen, calls>>

(* A disconnected worker ends with its last connection. *)
exit(w) ==
  /\ proc[w].alive /\ ~proc[w].connected /\ proc[w].conns = {}
  /\ Set(w, [proc[w] EXCEPT !.alive = FALSE])
  /\ UNCHANGED <<policy, primary, fault, up, down, served, sent, seen, calls>>

(* The process is killed, by worker.process.kill() of the primary too. *)
crash(w) ==
  /\ proc[w].alive /\ UserCall("crash")
  /\ Set(w, [proc[w] EXCEPT !.alive = FALSE, !.connected = FALSE, !.conns = {}])
  /\ Tell(w, IF proc[w].connected THEN <<Msg("EOF")>> ELSE <<>>)
  /\ UNCHANGED <<policy, primary, fault, down, served, sent, seen>>

-----------------------------------------------------------------------------
Hear(w) ==
  \/ online(w) \/ listening(w) \/ exitedAfterDisconnect(w) \/ queryServerIgnored(w)
  \/ queryServer(w) \/ close(w) \/ ackNewconn(w) \/ disconnectEvent(w)
  \/ silentDisconnect(w) \/ exitEvent(w)
Get(w) ==
  reply(w) \/ onconnection(w) \/ disconnectMessage(w) \/ ackExited(w) \/ waitingDone(w)
  \/ orphaned(w) \/ exit(w)
Bind(h) == bound(h) \/ bindFailed(h)

Next ==
  \/ \E w \in Workers : fork(w) \/ primaryDisconnect(w) \/ Hear(w) \/ Get(w) \/ listen(w)
                         \/ closeServer(w) \/ workerDisconnect(w) \/ workerDestroy(w) \/ crash(w)
  \/ \E h \in DOMAIN hs : Bind(h)
  \/ \E c \in Conns : connection(c) \/ \E w \in Workers : endConn(w, c)

Spec == Init /\ [][Next]_vars

(* Messages arrive, events are emitted, connections end. *)
FairSpec ==
  /\ Spec
  /\ \A w \in Workers : WF_vars(Hear(w)) /\ WF_vars(Get(w)) /\ WF_vars(\E c \in Conns : endConn(w, c))
  /\ WF_vars(\E h \in DOMAIN hs : Bind(h))

-----------------------------------------------------------------------------
Messages ==
  [act : {"online", "listening", "exitedAfterDisconnect", "queryServer", "close", "ackNewconn",
          "EOF", "ackExited", "reply", "newconn", "disconnect"},
   c : Conns \cup {None}, h : Nat \cup {None}, ok : BOOLEAN]

(* The types of the variables. *)
TypeOK ==
  /\ policy \in Policies /\ table \in DOMAIN hs \cup {None}
  /\ reg \in [Workers -> [state : {"unforked", "none", "online", "listening", "disconnected", "dead"},
                          listed : BOOLEAN, connected : BOOLEAN, dead : BOOLEAN,
                          exitedAfterDisconnect : BOOLEAN]]
  /\ hs \in Seq([kind : Policies, all : SUBSET Workers, free : Seq(Workers), conns : Seq(Conns),
                 st : {"binding", "bound", "failed", "closed"}, waiting : Seq(Workers)])
  /\ up \in [Workers -> Seq(Messages)] /\ down \in [Workers -> Seq(Messages)]
  /\ proc \in [Workers -> [alive : BOOLEAN, connected : BOOLEAN,
                           state : {"none", "online", "listening", "disconnecting", "destroying"},
                           server : {"none", "asked", "open"}, exitedAfterDisconnect : BOOLEAN,
                           waiting : {"no", "primary", "self"}, conns : SUBSET Conns]]
  /\ open \subseteq seen /\ seen \subseteq Conns /\ served \in [Conns -> SUBSET Workers]
  /\ sent \in [Conns -> Workers \cup {None}] /\ calls \in 0 .. MaxCalls
  /\ fault \in Faults \cup {None}

(* A connection is accepted by one worker at most, although a worker that is   *)
(* closing or full sends it back and handoff() gives it to another one.        *)
ServedOnce == \A c \in Conns : Cardinality(served[c]) <= 1

(* RoundRobinHandle: no worker is in `free' while a connection is in `handles',*)
(* through distribute(), handoff(), add(), remove() and late answers.          *)
NoIdleWorker == \A h \in DOMAIN hs : hs[h].free # <<>> => hs[h].conns = <<>>

(* The records of the primary are well formed and its queues consistent.       *)
HandlesSound == TypeOK /\ NoIdleWorker

Queued(c) == \E h \in DOMAIN hs : c \in ToSet(hs[h].conns)
Underway(c) == \E w \in Workers : \E m \in ToSet(up[w]) \cup ToSet(down[w]) : m.c = c

(* A connection the primary has accepted and not closed is queued, or under    *)
(* way to a worker or back; the exception is one sent to a worker that left.   *)
NothingLost ==
  \A c \in open : Queued(c) \/ Underway(c) \/ ~proc[sent[c]].connected

(* Accepted connections are neither lost nor served twice, through refusals,   *)
(* late answers and the death of workers.                                      *)
ConnsAccounted == ServedOnce /\ NothingLost

(* removeWorker() asserts 'Resource leak detected.': when cluster.workers is   *)
(* empty, so is the table of handles.                                          *)
NoLeak == (fault = None /\ \A w \in Workers : ~reg[w].listed) => table = None

(* A worker whose process exited and whose channel is closed is not in         *)
(* cluster.workers, in whichever order 'exit' and 'disconnect' came; the       *)
(* exception is one that did not acknowledge a handle, sent before or after    *)
(* its death, which gets no 'disconnect' event.                                *)
GoneIsRemoved ==
  \A w \in Workers : reg[w].dead /\ ~reg[w].connected => ~reg[w].listed \/ Unacknowledged(w)

(* What is left of a worker that is gone: nothing.                             *)
GoneIsForgotten == NoLeak /\ GoneIsRemoved

(* The queue of the live handle becomes empty again and again: its workers     *)
(* answer, accept or send back, or go; the exception is a worker that left     *)
(* without the primary's noticing.                                             *)
GoneUnnoticed == table # None /\ \E w \in hs[table].all : ~reg[w].connected
QueueDrains == []<>(table = None \/ hs[table].conns = <<>> \/ fault # None \/ GoneUnnoticed)

(* worker.disconnect(), by either side, and worker.kill() in the worker end    *)
(* with the channel closed, whatever the worker is doing.                      *)
DisconnectEnds ==
  <>[](\A w \in Workers : reg[w].exitedAfterDisconnect => ~reg[w].connected \/ fault # None)

(* rr() of child.js: a handle received after close() is sent back, and         *)
(* "onconnection() below handles that by sending those handles back to the     *)
(* primary", which sends it to another worker or closes it: a handle that was  *)
(* closed with its last worker holds no connection.                            *)
ClosedIsDrained == \A h \in DOMAIN hs : hs[h].st = "closed" => hs[h].conns = <<>>
=============================================================================
