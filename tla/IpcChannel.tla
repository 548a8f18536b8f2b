----------------------------- MODULE IpcChannel -----------------------------
(***************************************************************************)
(* The IPC channel between a process and its child: setupChannel() of      *)
(* lib/internal/child_process.js.  Each end sends messages and handles.    *)
(* After a handle the sender queues everything until the other end has     *)
(* acknowledged it; a handle that the kernel dropped on the way is refused *)
(* with a NACK and sent again.                                             *)
(*                                                                         *)
(* A message is a number, in the order of the send() calls of its end.     *)
(* What a read delivers is emitted in a tick; user code may run between    *)
(* two ticks.  An assertion that fails ends the process (`fault').  Both   *)
(* ends have listeners for 'message' and 'error'.                          *)
(***************************************************************************)
EXTENDS Naturals, Sequences, FiniteSets

CONSTANTS Senders,         \* the ends whose users send
          Kinds,           \* what they send: "msg", "socket", "native"
          Lossy,           \* whether the kernel may drop a handle on the way
          Disconnecters,   \* the ends whose users call disconnect()
          Crashers,        \* the ends whose process may be killed
          MaxSends         \* bound: send() calls of each end

Ends == {"parent", "child"}
Other(p) == IF p = "parent" THEN "child" ELSE "parent"

ASSUME IpcAssumption ==
  /\ Senders \cup Disconnecters \cup Crashers \subseteq Ends
  /\ Kinds \subseteq {"msg", "socket", "native"}
  /\ Lossy \in BOOLEAN
  /\ MaxSends \in [Ends -> Nat]

MAX_HANDLE_RETRANSMISSIONS == 3

VARIABLES connected,       \* target.connected
          channel,         \* target.channel is not null
          handleQueue,     \* target._handleQueue: on, and what it holds
          pending,         \* target._pendingMessage: none or one message number
          retransmissions, \* of the pending message
          ticks,           \* emit and finish ticks
          wire,            \* what the other end wrote and this one has not read
          ended,           \* channel.close() was called, or the process is gone
          got,             \* messages emitted to the user, in order
          sends,           \* number of send() calls
          closed,          \* sockets this end sent and then closed, in order
          writes,          \* how often a message was written
          lost,            \* messages whose handle the kernel dropped
          left,            \* the ends whose user called disconnect()
          events,          \* 'disconnect' and 'error' events
          fault            \* what ended the process

vars == <<connected, channel, handleQueue, pending, retransmissions, ticks, wire, ended, got,
          sends, closed, writes, lost, left, events, fault>>

(* A message: its kind, its number, and whether it wraps a NODE_HANDLE      *)
(* message, as every retransmission does.  `has' is the handle that the     *)
(* reader found with it.                                                    *)
Msg(k, id) == [k |-> k, id |-> id, has |-> k \in {"socket", "native"}, wraps |-> FALSE]
Rewrapped(id) == [Msg("native", id) EXCEPT !.wraps = TRUE]
IsHandle(m) == m.k \in {"socket", "native"}
Ack == Msg("NODE_HANDLE_ACK", 0)
Nack == Msg("NODE_HANDLE_NACK", 0)
EOF == Msg("EOF", 0)
Finish == Msg("finish", 0)

Off == [on |-> FALSE, q |-> <<>>]

Init ==
  /\ connected = [p \in Ends |-> TRUE] /\ channel = [p \in Ends |-> TRUE]
  /\ handleQueue = [p \in Ends |-> Off]
  /\ pending = [p \in Ends |-> 0] /\ retransmissions = [p \in Ends |-> 0]
  /\ ticks = [p \in Ends |-> <<>>] /\ wire = [p \in Ends |-> <<>>]
  /\ ended = [p \in Ends |-> FALSE] /\ got = [p \in Ends |-> <<>>]
  /\ sends = [p \in Ends |-> 0] /\ closed = [p \in Ends |-> <<>>]
  /\ writes = [p \in Ends |-> [i \in 1 .. MaxSends[p] |-> 0]]
  /\ lost = [p \in Ends |-> {}] /\ left = [p \in Ends |-> FALSE]
  /\ events = [p \in Ends |-> <<>>] /\ fault = [p \in Ends |-> "none"]

Alive(p) == fault[p] = "none"

-----------------------------------------------------------------------------
(* A run of _send() calls, for the messages ms and with the queue Q: those  *)
(* up to and with the first handle are written, the rest are queued.        *)

\* Mutant: a message passes the queue, a handle does not.
WrittenPastQueue(Q, ms) == IF Q.on /\ IsHandle(ms[1]) THEN <<>> ELSE ms
\* Mutant: _handleQueue is never set.
QueueNeverOn(Q, ms) == Q

FirstHandle(ms) == {i \in DOMAIN ms : IsHandle(ms[i]) /\ \A j \in 1 .. (i - 1) : ~IsHandle(ms[j])}
Cut(ms) == CHOOSE i \in FirstHandle(ms) : TRUE
Written(Q, ms) ==
  IF Q.on THEN <<>>
  ELSE IF FirstHandle(ms) = {} THEN ms
  ELSE SubSeq(ms, 1, Cut(ms))
QueueAfter(Q, ms) ==
  IF Q.on THEN [Q EXCEPT !.q = @ \o ms]
  ELSE IF FirstHandle(ms) = {} THEN Q
  ELSE [on |-> TRUE, q |-> SubSeq(ms, Cut(ms) + 1, Len(ms))]

(* postSend(): the handle of a written net.Socket is kept until the ACK. *)
Posted(ws) == ws # <<>> /\ ws[Len(ws)].k = "socket"

(* writeChannelMessage(): what is written to an end that is gone reaches nobody. *)
Write(p, ws) ==
  /\ wire' = [wire EXCEPT ![Other(p)] = IF ended[Other(p)] THEN @ ELSE @ \o ws]
  /\ writes' = [writes EXCEPT ![p] =
                   [i \in 1 .. MaxSends[p] |-> @[i] + Cardinality({j \in DOMAIN ws : ws[j].id = i})]]

(* The calls of _send() for ms: Q, P and n are the end's queue, pending     *)
(* message and its retransmissions before them.                             *)
SendAll(p, Q, P, n, ms) ==
  LET ws == Written(Q, ms) IN
  /\ handleQueue' = [handleQueue EXCEPT ![p] = QueueAfter(Q, ms)]
  /\ pending' = [pending EXCEPT ![p] = IF Posted(ws) THEN ws[Len(ws)].id ELSE P]
  /\ retransmissions' = [retransmissions EXCEPT ![p] = IF Posted(ws) THEN 0 ELSE n]
  /\ Write(p, ws)

(* send() of the user. *)
send(p, k) ==
  /\ Alive(p) /\ connected[p] /\ p \in Senders /\ sends[p] < MaxSends[p]
  /\ sends' = [sends EXCEPT ![p] = @ + 1]
  /\ SendAll(p, handleQueue[p], pending[p], retransmissions[p], <<Msg(k, sends[p] + 1)>>)
  /\ UNCHANGED <<connected, channel, ticks, ended, got, closed, lost, left, events, fault>>

(* An assertion that fails, or a signal: the process ends, its channel with it. *)
Die(p, why) ==
  /\ fault' = [fault EXCEPT ![p] = why]
  /\ ended' = [ended EXCEPT ![p] = TRUE]
  /\ ticks' = [ticks EXCEPT ![p] = <<>>]
  /\ wire' = [wire EXCEPT ![p] = <<>>,
                          ![Other(p)] = IF ended[p] \/ ended[Other(p)] THEN @ ELSE Append(@, EOF)]
  /\ UNCHANGED <<connected, channel, handleQueue, pending, retransmissions, got, sends, closed,
                 writes, lost, left, events>>

Crash(p) == Alive(p) /\ p \in Crashers /\ Die(p, "killed")

-----------------------------------------------------------------------------
(* disconnect(): connected is off at once, _disconnect() waits for the queue. *)

\* Mutant: the queue is not waited for.
NeverWaits(p) == FALSE
Unacknowledged(p) == handleQueue[p].on

closePendingHandle(p) == IF pending[p] = 0 THEN closed[p] ELSE Append(closed[p], pending[p])

\* Mutant: finish() is not scheduled.
_disconnectNoFinish(p) ==
  /\ channel' = [channel EXCEPT ![p] = FALSE]
  /\ closed' = [closed EXCEPT ![p] = closePendingHandle(p)]
  /\ pending' = [pending EXCEPT ![p] = 0]
  /\ UNCHANGED ticks

_disconnect(p) ==
  /\ channel' = [channel EXCEPT ![p] = FALSE]
  /\ closed' = [closed EXCEPT ![p] = closePendingHandle(p)]
  /\ pending' = [pending EXCEPT ![p] = 0]
  /\ ticks' = [ticks EXCEPT ![p] = Append(@, Finish)]

disconnect(p) ==
  /\ Alive(p) /\ connected[p] /\ p \in Disconnecters
  /\ connected' = [connected EXCEPT ![p] = FALSE]
  /\ IF Unacknowledged(p)
     THEN UNCHANGED <<channel, closed, pending, ticks>>
     ELSE _disconnect(p)
  /\ left' = [left EXCEPT ![p] = TRUE]
  /\ UNCHANGED <<handleQueue, retransmissions, wire, ended, got, sends, writes, lost, events, fault>>

(* finish() of _disconnect(). *)
RunFinish(p) ==
  /\ Alive(p) /\ ticks[p] # <<>> /\ Head(ticks[p]).k = "finish"
  /\ ticks' = [ticks EXCEPT ![p] = Tail(@)]
  /\ ended' = [ended EXCEPT ![p] = TRUE]
  /\ wire' = [wire EXCEPT ![p] = <<>>,
                          ![Other(p)] = IF ended[p] \/ ended[Other(p)] THEN @ ELSE Append(@, EOF)]
  /\ events' = [events EXCEPT ![p] = Append(@, "disconnect")]
  /\ UNCHANGED <<connected, channel, handleQueue, pending, retransmissions, got, sends, closed,
                 writes, lost, left, fault>>

-----------------------------------------------------------------------------
(* onread(): a chunk has whole messages, and at most one with a handle.  A   *)
(* handle that the kernel dropped is not there when the message is.          *)

Chunk(p, n) ==
  /\ \A i \in 1 .. n : wire[p][i].k # "EOF"
  /\ Cardinality({i \in 1 .. n : IsHandle(wire[p][i])}) <= 1

Read(p, n, drop) ==
  /\ Alive(p) /\ ~ended[p] /\ ticks[p] = <<>> /\ n <= Len(wire[p]) /\ Chunk(p, n)
  /\ drop => Lossy /\ \E i \in 1 .. n : IsHandle(wire[p][i])
  /\ ticks' = [ticks EXCEPT ![p] =
                 [i \in 1 .. n |-> [wire[p][i] EXCEPT !.has = @ /\ ~drop]]]
  /\ lost' = [lost EXCEPT ![Other(p)] =
                 IF drop THEN @ \cup {wire[p][i].id : i \in {j \in 1 .. n : IsHandle(wire[p][j])}} ELSE @]
  /\ wire' = [wire EXCEPT ![p] = SubSeq(@, n + 1, Len(@))]
  /\ UNCHANGED <<connected, channel, handleQueue, pending, retransmissions, ended, got, sends,
                 closed, writes, left, events, fault>>

(* onread() at the end of the stream: disconnect(), then close the channel. *)
ReadEOF(p) ==
  /\ Alive(p) /\ ~ended[p] /\ ticks[p] = <<>> /\ wire[p] # <<>> /\ Head(wire[p]).k = "EOF"
  /\ wire' = [wire EXCEPT ![p] = <<>>]
  /\ connected' = [connected EXCEPT ![p] = FALSE]
  /\ ended' = [ended EXCEPT ![p] = TRUE]
  /\ IF connected[p] /\ ~Unacknowledged(p)
     THEN _disconnect(p)
     ELSE channel' = [channel EXCEPT ![p] = FALSE] /\ UNCHANGED <<closed, pending, ticks>>
  /\ events' = [events EXCEPT ![p] = IF connected[p] THEN @ ELSE Append(@, "error")]
  /\ UNCHANGED <<handleQueue, retransmissions, got, sends, writes, lost, left, fault>>

-----------------------------------------------------------------------------
(* The ticks that emit what was read. *)

Emitting(p, ks) == Alive(p) /\ ticks[p] # <<>> /\ Head(ticks[p]).k \in ks

(* A message without a handle, for the user. *)
EmitMessage(p) ==
  /\ Emitting(p, {"msg"})
  /\ got' = [got EXCEPT ![p] = Append(@, Head(ticks[p]).id)]
  /\ ticks' = [ticks EXCEPT ![p] = Tail(@)]
  /\ UNCHANGED <<connected, channel, handleQueue, pending, retransmissions, wire, ended, sends,
                 closed, writes, lost, left, events, fault>>

(* ACK and NACK: the pending handle is closed or sent again, then the queue  *)
(* is sent, and a pending disconnect() takes its turn when nothing waits.    *)
\* Mutant: one retransmission too many.
GivenUpLate(p, m) ==
  pending[p] # 0 /\ (m.k = "NODE_HANDLE_ACK" \/ retransmissions[p] > MAX_HANDLE_RETRANSMISSIONS)
\* Mutant: a pending disconnect() is forgotten.
NoPendingDisconnect(p, ms) == FALSE

GivenUp(p, m) ==
  pending[p] # 0 /\ (m.k = "NODE_HANDLE_ACK" \/ retransmissions[p] = MAX_HANDLE_RETRANSMISSIONS)

PendingDisconnect(p, ms) == ~connected[p] /\ channel[p] /\ ~QueueAfter(Off, ms).on

EmitAck(p) ==
  /\ Emitting(p, {"NODE_HANDLE_ACK", "NODE_HANDLE_NACK"}) /\ handleQueue[p].on
  /\ LET m == Head(ticks[p])
         P == IF GivenUp(p, m) THEN 0 ELSE pending[p]
         again == IF P = 0 THEN <<>> ELSE <<Rewrapped(P)>>
         ms == again \o handleQueue[p].q
         now == PendingDisconnect(p, ms)
     IN
     /\ SendAll(p, Off, P, IF P = 0 THEN retransmissions[p] ELSE retransmissions[p] + 1, ms)
     /\ closed' = [closed EXCEPT ![p] = IF GivenUp(p, m) THEN Append(@, pending[p]) ELSE @]
     /\ channel' = [channel EXCEPT ![p] = @ /\ ~now]
     /\ ticks' = [ticks EXCEPT ![p] = IF now THEN Append(Tail(@), Finish) ELSE Tail(@)]
  /\ UNCHANGED <<connected, ended, got, sends, lost, left, events, fault>>

(* The assertion of the handler that the queue is on. *)
EmitAckFails(p) ==
  /\ Emitting(p, {"NODE_HANDLE_ACK", "NODE_HANDLE_NACK"}) /\ ~handleQueue[p].on
  /\ Die(p, "ACK without a queue")

(* NODE_HANDLE: acknowledge, convert the handle and emit the message in a     *)
(* tick of its own; the message of a retransmission is a NODE_HANDLE again.   *)
\* Mutant: the message of a retransmission is not converted.
ConvertedBare(m) == IF m.wraps THEN Msg("NODE_HANDLE", m.id) ELSE Msg("msg", m.id)
Converted(m) == IF m.wraps THEN Msg("socket", m.id) ELSE Msg("msg", m.id)

EmitHandle(p) ==
  /\ Emitting(p, {"socket", "native"}) /\ (connected[p] \/ channel[p])
  /\ Write(p, <<IF Head(ticks[p]).has THEN Ack ELSE Nack>>)
  /\ ticks' = [ticks EXCEPT ![p] =
                 IF Head(@).has THEN Append(Tail(@), Converted(Head(@))) ELSE Tail(@)]
  /\ UNCHANGED <<connected, channel, handleQueue, pending, retransmissions, ended, got, sends,
                 closed, lost, left, events, fault>>

(* The assertion of _send(): the channel is gone. *)
EmitHandleFails(p) ==
  /\ Emitting(p, {"socket", "native"}) /\ ~(connected[p] \/ channel[p])
  /\ Die(p, "ACK after disconnect")

Tick(p) == EmitMessage(p) \/ EmitAck(p) \/ EmitAckFails(p) \/ EmitHandle(p)
             \/ EmitHandleFails(p) \/ RunFinish(p)
Reading(p) == (\E n \in 1 .. Len(wire[p]), drop \in BOOLEAN : Read(p, n, drop)) \/ ReadEOF(p)

Next ==
  \E p \in Ends :
    \/ \E k \in Kinds : send(p, k)
    \/ disconnect(p) \/ Crash(p) \/ Reading(p) \/ Tick(p)

Spec == Init /\ [][Next]_vars

(* The event loop polls the channel, and runs the ticks before it polls again. *)
FairSpec == Spec /\ \A p \in Ends : WF_vars(Reading(p)) /\ WF_vars(Tick(p))

-----------------------------------------------------------------------------
Messages ==
  [k : {"msg", "socket", "native", "NODE_HANDLE_ACK", "NODE_HANDLE_NACK", "EOF", "finish"},
   id : Nat, has : BOOLEAN, wraps : BOOLEAN]

(* The types of the variables. *)
TypeOK ==
  /\ connected \in [Ends -> BOOLEAN] /\ channel \in [Ends -> BOOLEAN]
  /\ ended \in [Ends -> BOOLEAN]
  /\ handleQueue \in [Ends -> [on : BOOLEAN, q : Seq(Messages)]]
  /\ pending \in [Ends -> Nat] /\ retransmissions \in [Ends -> Nat] /\ sends \in [Ends -> Nat]
  /\ ticks \in [Ends -> Seq(Messages)] /\ wire \in [Ends -> Seq(Messages)]
  /\ got \in [Ends -> Seq(Nat)] /\ closed \in [Ends -> Seq(Nat)]
  /\ DOMAIN writes = Ends /\ \A p \in Ends : writes[p] \in [1 .. MaxSends[p] -> Nat]
  /\ lost \in [Ends -> SUBSET Nat] /\ left \in [Ends -> BOOLEAN]
  /\ events \in [Ends -> Seq({"disconnect", "error"})]
  /\ fault \in [Ends -> {"none", "killed", "ACK without a queue", "ACK after disconnect"}]

Ordered(p) == \A i, j \in DOMAIN got[p] : i < j => got[p][i] < got[p][j]

(* _send() queues "to avoid out-of-order messages": what an end emits is in   *)
(* the order of the send() calls of the other end, and nothing twice.         *)
InOrder == \A p \in Ends : Ordered(p)

(* Messages and handles arrive in the order of the send() calls, although a   *)
(* handle takes two ticks and a message one, as long as no handle was lost    *)
(* and sent again.                                                            *)
InOrderUnlessLost == \A p \in Ends : lost[Other(p)] = {} => Ordered(p)

(* "There can only be one _pendingMessage" (postSend()): while a socket waits *)
(* for its ACK the queue is on, so that no other handle can take its place,   *)
(* through ACK, NACK, retransmission and the end of the channel.              *)
PendingMatches == \A p \in Ends : pending[p] # 0 => handleQueue[p].on

(* The native handle of a socket that was sent is closed at most once, by the *)
(* ACK, by the last NACK or by _disconnect().                                 *)
ClosedOnce ==
  \A p \in Ends : \A i, j \in DOMAIN closed[p] : i # j => closed[p][i] # closed[p][j]

(* A handle that the kernel drops each time is written once and then at most  *)
(* MAX_HANDLE_RETRANSMISSIONS times.                                          *)
RetriesBounded ==
  \A p \in Ends : \A i \in 1 .. MaxSends[p] : writes[p][i] <= MAX_HANDLE_RETRANSMISSIONS + 1

(* A handle that is not acknowledged comes to one end: bounded attempts, and    *)
(* one close.                                                                   *)
HandlesSettled == ClosedOnce /\ RetriesBounded

(* An end whose channel was closed has emitted 'disconnect'; the exception is *)
(* an end that waited for an ACK when the other one went away.                *)
Disconnected(p) == \E i \in DOMAIN events[p] : events[p][i] = "disconnect"
SilentOnlyUnacknowledged ==
  \A p \in Ends : Alive(p) /\ ended[p] /\ ticks[p] = <<>> /\ ~Disconnected(p) => handleQueue[p].on

(* assert(ArrayIsArray(target._handleQueue)) of the ACK handler: until an end   *)
(* sends a handle again, each ACK finds the queue on, through handles that cross *)
(* and through the end of the channel.                                          *)
AckFindsQueue ==
  \A p \in Ends :
    fault[p] = "ACK without a queue" => \E i \in 1 .. MaxSends[p] : writes[p][i] > 1

(* The comment on the ACK: "Don't emit error events (for example if the other   *)
(* side has disconnected) because this call to send() is not initiated by the   *)
(* user and it shouldn't be fatal to be unable to ACK a message."               *)
AckNotFatal == \A p \in Ends : fault[p] # "ACK after disconnect"

(* disconnect() is "postponed so that it happens internally after the queue is *)
(* flushed", and it does happen: the channel is closed whatever the other end  *)
(* does with the handles that are under way.                                   *)
DisconnectCloses == \A p \in Ends : ~connected[p] ~> ended[p]

(* What was sent is delivered, also what was queued when disconnect() was      *)
(* called, unless its handle was lost, or a process is gone, or the reader's   *)
(* user disconnected.                                                          *)
Delivered ==
  \A p \in Ends : \A i \in 1 .. MaxSends[p] :
    sends[p] >= i ~> \/ \E j \in DOMAIN got[Other(p)] : got[Other(p)][j] = i
                     \/ i \in lost[p] \/ ~Alive(p) \/ ~Alive(Other(p)) \/ left[Other(p)]
=============================================================================
