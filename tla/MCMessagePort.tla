--------------------------- MODULE MCMessagePort ---------------------------
(* Small instances of MessagePort for TLC. *)
EXTENDS MessagePort

CONSTANTS t1, t2, g1

\* Datas 1 and 2, and 3 and 4, are twins.
MCTwin == [d \in Datas |-> IF d % 2 = 0 THEN d - 1 ELSE d + 1]

\* Datas 1 and 2 are twins, the others are for broadcast channels.
MCTwinBroadcast == [d \in Datas |-> IF d <= 2 THEN 3 - d ELSE d]

\* A state reached by constructing the Datas 1..Len(owner) with started ports:
\* wrap d has Data d and belongs to the thread owner[d].  env is what the
\* environments were given.
Constructed(owner, env) ==
  LET made == 1..Len(owner) IN
  /\ queue    = [d \in Datas |-> << >>]
  /\ closeEnq = [d \in Datas |-> FALSE]
  /\ closed   = [d \in Datas |-> FALSE]
  /\ sibling  = [d \in Datas |-> IF d \notin made \/ Twin[d] = d THEN None ELSE Twin[d]]
  /\ attached = [d \in Datas |-> IF d \in made THEN d ELSE None]
  /\ group    = [d \in Datas |-> IF d \in made /\ Twin[d] = d THEN g1 ELSE None]
  /\ born     = made
  /\ members  = [g \in Groups |-> {d \in made : Twin[d] = d}]
  /\ state    = [w \in Wraps |-> IF w \in made THEN "Initialized" ELSE "Unborn"]
  /\ thread   = [w \in Wraps |-> IF w \in made THEN owner[w] ELSE Main]
  /\ data     = [w \in Wraps |-> IF w \in made THEN w ELSE None]
  /\ receiving = [w \in Wraps |-> w \in made]
  /\ async    = [w \in Wraps |-> FALSE]
  /\ running  = [t \in Threads |-> TRUE]
  /\ cleanup  = [t \in Threads |-> FALSE]
  /\ envData  = env
  /\ envPort  = [t \in Threads |-> env[t] # None]
  /\ stack    = [t \in Threads |-> << >>]
  /\ posts    = 0

\* t2 is a worker of t1 (wraps 1 and 2 are their channel) and t1 has both ends
\* of a second channel (wraps 3 and 4).
SpecWorker ==
  /\ Constructed(<<t1, t2, t1, t1>>, [t \in Threads |-> IF t = t2 THEN 2 ELSE None])
  /\ [][Next]_vars

\* t1 has a channel (wraps 1 and 2) and a port of the group g1, t2 has another
\* port of the group; the worker's own channel is closed and collected.
SpecBroadcast ==
  /\ Constructed(<<t1, t1, t1, t2>>, [t \in Threads |-> None])
  /\ [][Next]_vars
=============================================================================
