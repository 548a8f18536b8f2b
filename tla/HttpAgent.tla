------------------------------ MODULE HttpAgent ------------------------------
(***************************************************************************)
(* The connection pool of the HTTP client: Agent of lib/_http_agent.js,    *)
(* with the life of a request on a socket of lib/_http_client.js.          *)
(*                                                                         *)
(* The agent's handlers call each other ('free' calls removeSocket(),      *)
(* which calls createSocket(), which emits 'free' on the new socket), so   *)
(* each of them is a function from the agent's state G to the next one and *)
(* an action applies the one that its event calls.                         *)
(***************************************************************************)
EXTENDS Integers, SequencesExt

CONSTANTS Origins,  \* names of getName()
          Reqs,     \* the requests of the user
          NSockets, \* sockets are numbers, used again after their 'close'; a bound
          None,
          Options,  \* the agent's options
          Homes,    \* which requests go to which origin
          Destroys  \* whether the user calls agent.destroy() and request.destroy()

Sockets == 1 .. NSockets
Limits == Nat \ {0}

ASSUME AgentAssumption ==
  /\ NSockets \in Nat /\ None \notin Reqs \cup Sockets /\ Destroys \in BOOLEAN
  /\ Homes \subseteq [Reqs -> Origins]
  /\ Options \subseteq [keepAlive : BOOLEAN, scheduling : {"fifo", "lifo"}, tunnel : BOOLEAN,
                        maxSockets : Limits, maxTotalSockets : Limits, maxFreeSockets : Limits]

VARIABLES opt,   \* keepAlive, scheduling, the three limits, tunnel
          agent, \* the state of the agent and of its sockets
          req,   \* "idle", "open" or "destroyed", for each request
          home,  \* the origin of each request
          closes \* number of 'close' events of each request

vars == <<opt, agent, req, home, closes>>

(* sock: "none", "open", "ended" (no longer writable), "destroyed" (until its *)
(* 'close').  attached: sockets with the listeners of _http_client.js.        *)
(* waiter: the request that finished() tells of the socket's end.  creating:  *)
(* how many tunnels are under way for a caller, a request and an origin.      *)
Tunnels == [by : {"addRequest", "removeSocket"}, r : Reqs, o : Origins]
NoTunnel == [c \in Tunnels |-> 0]
EmptyAgent ==
  [requests |-> [o \in Origins |-> <<>>], keys |-> <<>>, options |-> {},
   sockets |-> [o \in Origins |-> {}], free |-> [o \in Origins |-> <<>>], total |-> 0,
   sock |-> [s \in Sockets |-> "none"], origin |-> [s \in Sockets |-> None],
   message |-> [s \in Sockets |-> None], waiter |-> [s \in Sockets |-> None],
   attached |-> {}, ticks |-> <<>>, creating |-> NoTunnel]

Init ==
  /\ opt \in Options
  /\ agent = EmptyAgent
  /\ req = [r \in Reqs |-> "idle"]
  /\ home \in Homes
  /\ closes = [r \in Reqs |-> 0]

Writable(G, s) == G.sock[s] = "open"

-----------------------------------------------------------------------------
(* The handlers of the agent. *)

(* req.onSocket(): a tick gives the socket, or an error, to the request. *)
setRequestSocket(G, r, s) == [G EXCEPT !.ticks = Append(@, [t |-> "onSocket", r |-> r, s |-> s])]

destroySocket(G, s) == [G EXCEPT !.sock[s] = IF @ = "none" THEN @ ELSE "destroyed"]

(* this.requests[name].shift(), and delete this.requests[name] when empty. *)
Shifted(G, o) ==
  [G EXCEPT !.requests[o] = Tail(@),
            !.keys = IF Len(G.requests[o]) = 1 THEN RemoveFirst(@, o) ELSE @]

(* 'free' of a socket, when it is kept or destroyed at once. *)
TakenBy(G, s) == G.requests[G.origin[s]]
Keepable(G, s) ==
  LET o == G.origin[s] IN
  /\ G.message[s] # None /\ opt.keepAlive
  /\ G.total <= opt.maxTotalSockets
  /\ Len(G.free[o]) + Cardinality(G.sockets[o]) <= opt.maxSockets
  /\ Len(G.free[o]) < opt.maxFreeSockets

(* 'free' of a socket that no pool will take: the queue has it, or it dies. *)
FreeToQueue(G, s) ==
  IF ~Writable(G, s) \/ TakenBy(G, s) = <<>> THEN destroySocket(G, s)
  ELSE setRequestSocket(Shifted(G, G.origin[s]), Head(TakenBy(G, s)), s)

(* oncreate() of createSocket(): the socket is the agent's. *)
NewSocket(G) == CHOOSE s \in Sockets : G.sock[s] = "none"

(* The bound on what may make a socket: there is a number for it. *)
Room == \E s \in Sockets : agent.sock[s] = "none"

\* Mutant: totalSocketCount is not incremented.
OncreateUncounted(G, o, s) ==
  [G EXCEPT !.sockets[o] = @ \cup {s}, !.sock[s] = "open", !.origin[s] = o, !.message[s] = None]

Oncreate(G, o, s) ==
  [G EXCEPT !.sockets[o] = @ \cup {s}, !.total = @ + 1,
            !.sock[s] = "open", !.origin[s] = o, !.message[s] = None]

(* createSocket(): through a tunnel it takes a while, and the callers may have *)
(* several made for one request.  `by' is the caller; Then() its callback.     *)
Then(G, by, r, s) == IF by = "addRequest" THEN setRequestSocket(G, r, s) ELSE FreeToQueue(G, s)
createSocket(G, by, r, o) ==
  IF opt.tunnel THEN [G EXCEPT !.creating[[by |-> by, r |-> r, o |-> o]] = @ + 1]
  ELSE Then(Oncreate(G, o, NewSocket(G)), by, r, NewSocket(G))

(* removeSocket(): the socket leaves, and a request that waits gets a new one: *)
(* one of the same origin, or the first of the first key when that origin has  *)
(* no socket.                                                                  *)
Left(G, s, o) ==
  [G EXCEPT !.sockets[o] = @ \ {s},
            !.free[o] = IF Writable(G, s) THEN @ ELSE RemoveFirst(@, s)]

\* Mutant: a request of another origin is not looked for.
OtherOriginNever(G) == FALSE
OtherOrigin(G) ==
  G.keys # <<>> /\ LET k == Head(G.keys) IN G.sockets[k] = {} /\ Head(G.requests[k]) \in G.options

removeSocket(G, s) ==
  LET o == G.origin[s]
      H == Left(G, s, o)
      Make(p) == LET r == Head(H.requests[p]) IN
                 createSocket([H EXCEPT !.options = @ \ {r}], "removeSocket", r, p)
  IN
  IF H.requests[o] # <<>> THEN Make(o)
  ELSE IF OtherOrigin(H) THEN Make(Head(H.keys))
  ELSE H

(* agent.on('free'). *)
Free(G, s) ==
  IF Writable(G, s) /\ TakenBy(G, s) = <<>> /\ Keepable(G, s)
  THEN [removeSocket([G EXCEPT !.message[s] = None], s) EXCEPT !.free[G.origin[s]] = Append(@, s)]
  ELSE FreeToQueue(G, s)

(* onRemove() and onClose(): they are called once, then nothing knows the socket. *)
Gone(G, s) ==
  LET H == removeSocket([G EXCEPT !.total = @ - 1], s) IN
  [H EXCEPT !.sock[s] = "none", !.origin[s] = None, !.message[s] = None,
            !.waiter[s] = None, !.attached = @ \ {s}]

-----------------------------------------------------------------------------
(* The user. *)

(* The free socket that addRequest() takes: destroyed ones are skipped at the *)
(* head only, then scheduling decides.                                        *)
Skip(G, q) ==
  LET dead == {i \in DOMAIN q : \A j \in 1 .. i : G.sock[q[j]] = "destroyed"} IN
  SubSeq(q, Cardinality(dead) + 1, Len(q))
Chosen(q) == IF opt.scheduling = "fifo" THEN Head(q) ELSE q[Len(q)]
\* Mutant: the chosen socket stays in the pool.
RestAll(q) == q
Rest(q) == IF opt.scheduling = "fifo" THEN Tail(q) ELSE SubSeq(q, 1, Len(q) - 1)

\* Mutant: one socket too many in total.
UnderLimitsTotal(G, o) ==
  Cardinality(G.sockets[o]) < opt.maxSockets /\ G.total <= opt.maxTotalSockets
UnderLimits(G, o) ==
  Cardinality(G.sockets[o]) < opt.maxSockets /\ G.total < opt.maxTotalSockets

Enqueued(G, r, o) ==
  [G EXCEPT !.requests[o] = Append(@, r), !.options = @ \cup {r},
            !.keys = IF G.requests[o] = <<>> THEN Append(@, o) ELSE @]

addRequest(r) ==
  LET o == home[r]
      q == Skip(agent, agent.free[o])
      G == [agent EXCEPT !.free[o] = IF q = <<>> THEN q ELSE Rest(q)]
  IN
  /\ req[r] = "idle" /\ Room
  /\ req' = [req EXCEPT ![r] = "open"]
  /\ agent' = IF q # <<>> THEN [setRequestSocket(G, r, Chosen(q)) EXCEPT !.sockets[o] = @ \cup {Chosen(q)}]
              ELSE IF UnderLimits(G, o) THEN createSocket(G, "addRequest", r, o)
              ELSE Enqueued(G, r, o)
  /\ UNCHANGED <<opt, home, closes>>

(* ClientRequest.prototype.destroy(). *)
destroyRequest(r) ==
  /\ Destroys /\ req[r] = "open"
  /\ req' = [req EXCEPT ![r] = "destroyed"]
  /\ agent' = [agent EXCEPT !.sock =
                 [s \in Sockets |-> IF agent.message[s] = r /\ s \in agent.attached
                                    THEN "destroyed" ELSE @[s]]]
  /\ UNCHANGED <<opt, home, closes>>

(* Agent.prototype.destroy(). *)
destroy ==
  /\ Destroys
  /\ LET all == UNION {agent.sockets[o] \cup ToSet(agent.free[o]) : o \in Origins} IN
     /\ \E s \in all : agent.sock[s] # "destroyed"
     /\ agent' = [agent EXCEPT !.sock = [s \in Sockets |-> IF s \in all THEN "destroyed" ELSE @[s]]]
  /\ UNCHANGED <<opt, req, home, closes>>

-----------------------------------------------------------------------------
(* The ticks. *)

Closed(r) == closes' = [closes EXCEPT ![r] = @ + 1]
Ticking(t) == agent.ticks # <<>> /\ Head(agent.ticks).t = t /\ Room
Ticked == [agent EXCEPT !.ticks = Tail(@)]

(* onSocketNT(): the socket is attached to the request, or, when the request *)
(* is destroyed, set free or destroyed; s = None is an error.                *)
onSocketNT ==
  /\ Ticking("onSocket")
  /\ LET r == Head(agent.ticks).r
         s == Head(agent.ticks).s
     IN
     /\ req' = IF s = None THEN [req EXCEPT ![r] = "destroyed"] ELSE req
     /\ \/ s = None /\ agent' = Ticked /\ Closed(r)
        \/ /\ s # None /\ req[r] = "destroyed" /\ agent.sock[s] # "destroyed"
           /\ agent' = Free(Ticked, s) /\ Closed(r)
        \/ /\ s # None /\ req[r] = "destroyed" /\ agent.sock[s] = "destroyed"
           /\ agent' = [Ticked EXCEPT !.waiter[s] = r] /\ UNCHANGED closes
        \/ /\ s # None /\ req[r] = "open"
           /\ agent' = [Ticked EXCEPT !.message[s] = r, !.attached = @ \cup {s}]
           /\ UNCHANGED closes
  /\ UNCHANGED <<opt, home>>

emitFreeNT ==
  /\ Ticking("free")
  /\ agent' = Free(Ticked, Head(agent.ticks).s)
  /\ Closed(Head(agent.ticks).r)
  /\ UNCHANGED <<opt, req, home>>

-----------------------------------------------------------------------------
(* The network, between ticks. *)

Quiet == agent.ticks = <<>>
Active(s) == s \in agent.attached /\ agent.sock[s] = "open"
Idle(s) == \E o \in Origins : s \in ToSet(agent.free[o])

Detached(G, s) == [G EXCEPT !.attached = @ \ {s}]

(* The response ends: responseKeepAlive(), or destroySoon(). *)
responseOnEnd(s, keep) ==
  /\ Quiet /\ Active(s)
  /\ IF keep
     THEN /\ agent' = [Detached(agent, s) EXCEPT
                         !.ticks = Append(@, [t |-> "free", r |-> agent.message[s], s |-> s])]
          /\ req' = [req EXCEPT ![agent.message[s]] = "destroyed"]
     ELSE agent' = [agent EXCEPT !.sock[s] = "ended"] /\ UNCHANGED req
  /\ UNCHANGED <<opt, home, closes>>

(* socketOnEnd() and socketErrorListener(): the socket of a request fails. *)
socketFails(s) ==
  /\ Quiet /\ Active(s)
  /\ agent' = destroySocket(agent, s)
  /\ UNCHANGED <<opt, req, home, closes>>

(* An upgrade: agentRemove, and the socket is the user's. *)
upgrade(s) ==
  /\ Quiet /\ Active(s) /\ Room
  /\ agent' = Gone(agent, s)
  /\ req' = [req EXCEPT ![agent.message[s]] = "destroyed"]
  /\ Closed(agent.message[s])
  /\ UNCHANGED <<opt, home>>

(* An idle socket: its timeout, the server's FIN, or an error, which removes it. *)
onTimeout(s) ==
  /\ Quiet /\ Idle(s) /\ agent.sock[s] # "destroyed"
  /\ agent' = destroySocket(agent, s)
  /\ UNCHANGED <<opt, req, home, closes>>
serverEnds(s) ==
  /\ Quiet /\ Idle(s) /\ agent.sock[s] = "open"
  /\ agent' = [agent EXCEPT !.sock[s] = "ended"]
  /\ UNCHANGED <<opt, req, home, closes>>
freeSocketErrorListener(s) ==
  /\ Quiet /\ Idle(s) /\ agent.sock[s] # "destroyed" /\ Room
  /\ agent' = Gone(destroySocket(agent, s), s)
  /\ UNCHANGED <<opt, req, home, closes>>

(* A socket that ended is destroyed when its output is flushed. *)
endFinishes(s) ==
  /\ Quiet /\ agent.sock[s] = "ended"
  /\ agent' = destroySocket(agent, s)
  /\ UNCHANGED <<opt, req, home, closes>>

(* 'close': onClose() of the agent, then the listener of the request, if any. *)
onClose(s) ==
  /\ Quiet /\ agent.sock[s] = "destroyed" /\ Room
  /\ agent' = Gone(agent, s)
  /\ LET told == {agent.waiter[s]} \cup (IF s \in agent.attached THEN {agent.message[s]} ELSE {}) IN
     /\ closes' = [r \in Reqs |-> IF r \in told THEN closes[r] + 1 ELSE closes[r]]
     /\ req' = [r \in Reqs |-> IF r \in told THEN "destroyed" ELSE req[r]]
  /\ UNCHANGED <<opt, home>>

(* A tunnel is ready, or fails: then the request is told, and is not taken *)
(* from the queue.                                                         *)
tunnelOpens(c) ==
  /\ Quiet /\ agent.creating[c] > 0 /\ Room
  /\ agent' = LET G == [agent EXCEPT !.creating[c] = @ - 1] IN
              Then(Oncreate(G, c.o, NewSocket(G)), c.by, c.r, NewSocket(G))
  /\ UNCHANGED <<opt, req, home, closes>>
tunnelFails(c) ==
  /\ Quiet /\ agent.creating[c] > 0
  /\ agent' = setRequestSocket([agent EXCEPT !.creating[c] = @ - 1], c.r, None)
  /\ UNCHANGED <<opt, req, home, closes>>

Tick == onSocketNT \/ emitFreeNT
Answer(s) == \/ \E keep \in BOOLEAN : responseOnEnd(s, keep)
             \/ socketFails(s) \/ upgrade(s)
Expire(s) == onTimeout(s) \/ serverEnds(s) \/ freeSocketErrorListener(s)
Die(s) == endFinishes(s) \/ onClose(s)
Tunnel == \E c \in Tunnels : tunnelOpens(c) \/ tunnelFails(c)

Next ==
  \/ \E r \in Reqs : addRequest(r) \/ destroyRequest(r)
  \/ destroy \/ Tick \/ Tunnel
  \/ \E s \in Sockets : Answer(s) \/ Expire(s) \/ Die(s)

Spec == Init /\ [][Next]_vars

(* Ticks and 'close' events come; a server answers or hangs up; the agent has a *)
(* `timeout', as the global agent does, so idle sockets expire.                 *)
FairSpec ==
  /\ Spec /\ WF_vars(Tick) /\ WF_vars(Tunnel)
  /\ \A s \in Sockets : WF_vars(Answer(s)) /\ WF_vars(Expire(s)) /\ WF_vars(Die(s))

-----------------------------------------------------------------------------
(* The types of the variables. *)
TypeOK ==
  /\ opt \in Options /\ home \in [Reqs -> Origins] /\ closes \in [Reqs -> Nat]
  /\ req \in [Reqs -> {"idle", "open", "destroyed"}]
  /\ agent.requests \in [Origins -> Seq(Reqs)] /\ agent.keys \in Seq(Origins)
  /\ agent.sockets \in [Origins -> SUBSET Sockets] /\ agent.free \in [Origins -> Seq(Sockets)]
  /\ agent.sock \in [Sockets -> {"none", "open", "ended", "destroyed"}]
  /\ agent.message \in [Sockets -> Reqs \cup {None}] /\ agent.attached \subseteq Sockets

(* totalSocketCount, which the limit of all origins is checked against, is the  *)
(* number of sockets that have not yet had their 'close' or 'agentRemove',      *)
(* whichever pool they are in and however they left it.                         *)
CountExact == agent.total = Cardinality({s \in Sockets : agent.sock[s] # "none"})

(* The state is well formed and the count agrees with the sockets.              *)
PoolExact == TypeOK /\ CountExact

(* A socket that is not destroyed is in this.sockets or in this.freeSockets, of *)
(* one origin and once, so that it is never lost or given out from both; one    *)
(* that is gone is in none.                                                     *)
Held(s) == {o \in Origins : s \in agent.sockets[o]}
Pooled(s) == UNION {{<<o, i>> : i \in {j \in DOMAIN agent.free[o] : agent.free[o][j] = s}} : o \in Origins}
OneHome ==
  \A s \in Sockets :
    /\ Cardinality(Held(s)) + Cardinality(Pooled(s)) <= 1
    /\ agent.sock[s] \in {"open", "ended"} => Cardinality(Held(s)) + Cardinality(Pooled(s)) = 1
    /\ agent.sock[s] = "none" => Held(s) = {} /\ Pooled(s) = {}

(* A socket serves one request: between onSocket() or responseKeepAlive() and   *)
(* its tick nobody else is given it, and no request has a socket of the pool.   *)
Users(s) == {i \in DOMAIN agent.ticks : agent.ticks[i].s = s}
NotShared ==
  \A s \in Sockets :
    /\ Cardinality(Users(s)) + (IF s \in agent.attached THEN 1 ELSE 0) <= 1
    /\ Pooled(s) # {} => Users(s) = {} /\ s \notin agent.attached

(* Every socket has one place and one user: none leaks out of the pools, and    *)
(* none is given out twice.                                                     *)
OneOwner == OneHome /\ NotShared

(* maxTotalSockets: removeSocket() does not look at it, and when a socket       *)
(* becomes free makes one for another origin: the limit is exceeded, but never   *)
(* by more than one, and not without keepAlive.  Behind a tunnel a socket is     *)
(* counted only when it is ready, and neither limit holds.                       *)
TotalBounded == ~opt.tunnel => agent.total <= opt.maxTotalSockets + (IF opt.keepAlive THEN 1 ELSE 0)

(* maxSockets: an origin's sockets, used and free, pass the limit in one case    *)
(* only.  addRequest() drops a destroyed socket from the pool before its         *)
(* 'close', makes another one in its place, and when the 'close' comes           *)
(* removeSocket() makes one more for a request that waits.                       *)
OriginSize(o) == Cardinality(agent.sockets[o]) + Len(agent.free[o])
DroppedCloses(o) ==
  \E s \in Sockets :
    /\ agent.sock[s] = "destroyed" /\ agent.origin[s] = o /\ agent'.sock[s] = "none"
    /\ s \notin agent.sockets[o] \cup ToSet(agent.free[o])
PassesLimit(o) == OriginSize(o)' > opt.maxSockets /\ OriginSize(o)' > OriginSize(o)
OriginStep == ~opt.tunnel => \A o \in Origins : PassesLimit(o) => DroppedCloses(o)

(* No step goes past the limits but by the slack that removeSocket() gives them; *)
(* there is no socket at first.                                                  *)
LimitsKept == [][TotalBounded' /\ OriginStep]_vars

ClosedOnce == ~opt.tunnel => \A r \in Reqs : closes[r] <= 1
RequestsClose == \A r \in Reqs : req[r] # "idle" /\ ~opt.tunnel ~> closes[r] > 0

(* A request emits 'close' exactly once, whichever of the socket's 'close', the  *)
(* end of the response, an upgrade or destroy() comes first; one that waits in   *)
(* the queue of an origin is given a socket, although only the first origin of   *)
(* the queue is looked at when a socket leaves, and ends with it.  Requests of   *)
(* an agent that makes tunnels are left out: one whose tunnel fails is told so   *)
(* and stays in the queue, to be given a socket and told again.                  *)
ClosesOnce == []ClosedOnce /\ RequestsClose
=============================================================================
