---------------------------- MODULE SinkContract ----------------------------
(***************************************************************************)
(* What a writable stream promises, without its flags, ticks and frames:   *)
(* chunks reach the sink in the order in which write() accepted them, one  *)
(* batch at a time, none twice; only a stream that failed or was destroyed *)
(* drops chunks, and then the oldest first; the stream finishes only when  *)
(* the sink was given every accepted chunk and none is in progress.        *)
(***************************************************************************)
EXTENDS Naturals, Sequences

VARIABLES accepted,  \* number of chunks write() accepted
          pending,   \* accepted chunks the sink has not been given
          sunk,      \* chunks given to the sink, in order
          busy,      \* a batch is with the sink
          failed,    \* a batch failed, or the stream was destroyed
          finished   \* the stream announced that everything is written

vars == <<accepted, pending, sunk, busy, failed, finished>>

Init ==
  /\ accepted = 0 /\ pending = <<>> /\ sunk = <<>>
  /\ busy = FALSE /\ failed = FALSE /\ finished = FALSE

Accept ==
  /\ ~finished
  /\ accepted' = accepted + 1
  /\ pending' = Append(pending, accepted + 1)
  /\ UNCHANGED <<sunk, busy, failed, finished>>

(* A chunk goes straight to an idle sink only if none waits before it. *)
PassThrough ==
  /\ ~finished /\ ~busy /\ ~failed /\ pending = <<>>
  /\ accepted' = accepted + 1
  /\ sunk' = Append(sunk, accepted + 1)
  /\ busy' = TRUE
  /\ UNCHANGED <<pending, failed, finished>>

Sink(n) ==
  /\ ~busy /\ ~finished
  /\ sunk' = sunk \o SubSeq(pending, 1, n)
  /\ pending' = SubSeq(pending, n + 1, Len(pending))
  /\ busy' = TRUE
  /\ UNCHANGED <<accepted, failed, finished>>

Complete(er) ==
  /\ busy
  /\ busy' = FALSE
  /\ failed' = (failed \/ er)
  /\ UNCHANGED <<accepted, pending, sunk, finished>>

Fail ==
  /\ failed' = TRUE
  /\ UNCHANGED <<accepted, pending, sunk, busy, finished>>

Drop ==
  /\ failed /\ ~busy /\ pending # <<>>
  /\ pending' = Tail(pending)
  /\ UNCHANGED <<accepted, sunk, busy, failed, finished>>

Finish ==
  /\ pending = <<>> /\ ~busy
  /\ sunk = [i \in 1 .. accepted |-> i]
  /\ finished' = TRUE
  /\ UNCHANGED <<accepted, pending, sunk, busy, failed>>

Next ==
  \/ Accept \/ PassThrough \/ Fail \/ Drop \/ Finish
  \/ \E n \in 1 .. Len(pending) : Sink(n)
  \/ \E er \in BOOLEAN : Complete(er)

Spec == Init /\ [][Next]_vars
=============================================================================
