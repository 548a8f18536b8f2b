---------------------------- MODULE MCIpcChannel ----------------------------
(* Instances of IpcChannel for TLC. *)
EXTENDS IpcChannel

(* Both ends send: handles cross, and one end queues. *)
MCMaxSends == [p \in Ends |-> IF p = "parent" THEN 2 ELSE 1]

(* One end sends a message and a handle.  The other one disconnects; between two *)
(* ticks its user runs in the listener of a message that was emitted.            *)
MCTwo == [p \in Ends |-> IF p = "parent" THEN 2 ELSE 0]
SpecListener ==
  Init /\ [][Next /\ \A p \in Ends : left'[p] # left[p] => ticks[p] = <<>> \/ got[p] # <<>>]_vars

(* One end sends a handle that is lost, another one, and a message. *)
MCThree == [p \in Ends |-> IF p = "parent" THEN 3 ELSE 0]
=============================================================================
