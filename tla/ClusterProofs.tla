--------------------------- MODULE ClusterProofs ---------------------------
(***************************************************************************)
(* Proofs about the cluster module.  The inductive invariants are built    *)
(* on each other:                                                          *)
(*                                                                         *)
(*   Base     the records are well formed, the handles consistent, and a   *)
(*            message with a connection names a handle that was bound;     *)
(*   Tracked  Base, and what a worker and the primary know of each other:  *)
(*            the dialogue of listen() and close(), the end of the         *)
(*            channel, which workers are listed, which a handle has.       *)
(*   Flow     Tracked, and where every connection is: in one place, and    *)
(*            once; the workers of a handle were forked, so that the one   *)
(*            who is handed a connection has it or has left.               *)
(***************************************************************************)
EXTENDS Cluster, SequenceTheorems, FiniteSetTheorems, WellFoundedInduction, TLAPS

(* A set of naturals that is not empty has a least element. *)
LEMMA LeastNat ==
  ASSUME NEW T \in SUBSET Nat, T # {}
  PROVE  \E n \in T : \A m \in T : n <= m
<1> DEFINE R == OpToRel(<, Nat)
<1>1. IsWellFoundedOn(R, Nat)
  BY NatLessThanWellFounded
<1>3. \A x, y \in Nat : y < x => <<y, x>> \in R
  BY DEF OpToRel
<1> HIDE DEF R
<1>2. \E x \in T : \A y \in T : ~ (<<y, x>> \in R)
  BY <1>1, WFMin
<1>4. PICK x \in T : \A y \in T : ~ (<<y, x>> \in R)
  BY <1>2, Zenon
<1>5. x \in Nat /\ \A y \in T : y \in Nat
  OBVIOUS
<1>6. \A y \in T : ~(y < x)
  BY <1>3, <1>4, <1>5, Zenon
<1> QED BY <1>5, <1>6

(* q without its element i. *)
Without(w, q, i) ==
  Len(w) = Len(q) - 1 /\ \A j \in 1 .. Len(q) - 1 : w[j] = IF j < i THEN q[j] ELSE q[j + 1]

(* removeFirst of a sequence that has e: one element e is left out. *)
LEMMA RemoveFirstIs ==
  ASSUME NEW S, NEW q \in Seq(S), NEW e, NEW k \in 1 .. Len(q), q[k] = e
  PROVE  /\ RemoveFirst(q, e) \in Seq(S)
         /\ \E i \in 1 .. Len(q) : q[i] = e /\ Without(RemoveFirst(q, e), q, i)
<1> DEFINE I == {i \in 1 .. Len(q) : q[i] = e}
<1>1. I \in SUBSET Nat /\ I # {}
  OBVIOUS
<1>2. \E n \in I : \A m \in I : n <= m
  <2> HIDE DEF I
  <2> QED BY <1>1, LeastNat
<1>3. Min(I) \in I
  BY <1>2 DEF Min
<1>4. RemoveFirst(q, e) = SubSeq(q, 1, Min(I) - 1) \o SubSeq(q, Min(I) + 1, Len(q))
  BY <1>1 DEF RemoveFirst, RemoveAt, SelectInSeq
<1> DEFINE i == Min(I)
<1>5. i \in 1 .. Len(q) /\ q[i] = e
  BY <1>3
<1> HIDE DEF i, I
<1>6. /\ SubSeq(q, 1, i - 1) \in Seq(S) /\ Len(SubSeq(q, 1, i - 1)) = i - 1
      /\ SubSeq(q, i + 1, Len(q)) \in Seq(S) /\ Len(SubSeq(q, i + 1, Len(q))) = Len(q) - i
      /\ \A j \in 1 .. i - 1 : SubSeq(q, 1, i - 1)[j] = q[j]
      /\ \A j \in 1 .. Len(q) - i : SubSeq(q, i + 1, Len(q))[j] = q[i + j]
  BY <1>5
<1>7. RemoveFirst(q, e) = SubSeq(q, 1, i - 1) \o SubSeq(q, i + 1, Len(q))
  BY <1>4 DEF i
<1> DEFINE a == SubSeq(q, 1, i - 1)
           b == SubSeq(q, i + 1, Len(q))
<1> HIDE DEF a, b
<1>8. /\ a \in Seq(S) /\ Len(a) = i - 1 /\ b \in Seq(S) /\ Len(b) = Len(q) - i
      /\ \A j \in 1 .. i - 1 : a[j] = q[j]
      /\ \A j \in 1 .. Len(q) - i : b[j] = q[i + j]
      /\ RemoveFirst(q, e) = a \o b
  BY <1>6, <1>7 DEF a, b
<1>9. /\ a \o b \in Seq(S) /\ Len(a \o b) = Len(a) + Len(b)
      /\ \A j \in 1 .. Len(a) + Len(b) : (a \o b)[j] = IF j <= Len(a) THEN a[j] ELSE b[j - Len(a)]
  BY <1>8, ConcatProperties, Zenon
<1>10. /\ Len(a \o b) = Len(q) - 1
       /\ \A j \in 1 .. Len(q) - 1 : (a \o b)[j] = IF j < i THEN q[j] ELSE q[j + 1]
  BY <1>5, <1>8, <1>9
<1> QED BY <1>5, <1>8, <1>9, <1>10 DEF Without

(* Membership in a sequence, and a sequence without repetition. *)
In(q, t) == \E i \in 1 .. Len(q) : q[i] = t
Distinct(q) == \A i, j \in 1 .. Len(q) : q[i] = q[j] => i = j

(* Of a sequence without repetition it leaves out e, and only e. *)
LEMMA RemoveFirstSet ==
  ASSUME NEW S, NEW q \in Seq(S), NEW e, Distinct(q), NEW y, y = RemoveFirst(q, e)
  PROVE  /\ y \in Seq(S) /\ Distinct(y)
         /\ \A p : In(y, p) <=> In(q, p) /\ p # e
         /\ Len(y) = IF In(q, e) THEN Len(q) - 1 ELSE Len(q)
<1>1. CASE ~In(q, e)
  <2>1. y = q
    BY <1>1 DEF RemoveFirst, In
  <2> QED BY <1>1, <2>1 DEF In
<1>2. CASE In(q, e)
  <2>1. PICK k \in 1 .. Len(q) : q[k] = e
    BY <1>2 DEF In
  <2>2. y \in Seq(S) /\ \E j \in 1 .. Len(q) : q[j] = e /\ Without(y, q, j)
    BY <2>1, RemoveFirstIs
  <2>3. PICK j \in 1 .. Len(q) : q[j] = e /\ Without(y, q, j)
    BY <2>2
  <2>4. /\ Len(y) = Len(q) - 1 /\ Len(q) \in Nat /\ j \in 1 .. Len(q) /\ q[j] = e
        /\ \A m \in 1 .. Len(q) - 1 : y[m] = IF m < j THEN q[m] ELSE q[m + 1]
    BY <2>3 DEF Without
  <2>5. \A m, n \in 1 .. Len(q) : q[m] = q[n] => m = n
    BY DEF Distinct
  <2>6. ASSUME NEW p, p # e, NEW m \in 1 .. Len(q), q[m] = p
        PROVE  \E n \in 1 .. Len(y) : y[n] = p
    <3>1. CASE m < j
      BY <2>4, <2>6, <3>1
    <3>2. CASE ~(m < j)
      <4>1. m # j
        BY <2>4, <2>6
      <4>2. m - 1 \in 1 .. Len(y) /\ ~(m - 1 < j)
        BY <2>4, <3>2, <4>1
      <4>3. y[m - 1] = q[(m - 1) + 1]
        BY <2>4, <4>2
      <4> QED BY <2>4, <2>6, <4>2, <4>3
    <3> QED BY <3>1, <3>2
  <2>7. ASSUME NEW p, NEW m \in 1 .. Len(y), y[m] = p
        PROVE  p # e /\ \E n \in 1 .. Len(q) : q[n] = p
    <3>1. CASE m < j
      BY <2>4, <2>5, <2>7, <3>1
    <3>2. CASE ~(m < j)
      BY <2>4, <2>5, <2>7, <3>2
    <3> QED BY <3>1, <3>2
  <2>8. \A m, n \in 1 .. Len(y) : y[m] = y[n] => m = n
    BY <2>4, <2>5
  <2>9. Distinct(y)
    BY <2>8 DEF Distinct
  <2>10. ASSUME NEW p PROVE In(y, p) <=> In(q, p) /\ p # e
    BY <2>6, <2>7 DEF In
  <2> QED BY <1>2, <2>2, <2>4, <2>9, <2>10
<1> QED BY <1>1, <1>2

(* What push() makes of an array. *)
Appended(w, q, e) ==
  /\ Len(w) = Len(q) + 1
  /\ \A t : In(w, t) <=> In(q, t) \/ t = e
  /\ Distinct(q) /\ ~In(q, e) => Distinct(w)

(* push() puts e in the array, once when it was not there. *)
LEMMA AppendIn ==
  ASSUME NEW S, NEW q \in Seq(S), NEW e \in S, NEW w, w = Append(q, e)
  PROVE  w \in Seq(S) /\ Appended(w, q, e)
<1> DEFINE n == Len(q)
<1>1. /\ w \in Seq(S) /\ Len(w) = n + 1 /\ n \in Nat
      /\ \A i \in 1 .. n : w[i] = q[i]
      /\ w[n + 1] = e
  BY AppendProperties
<1>2. \A t : In(q, t) <=> \E i \in 1 .. n : q[i] = t
  BY DEF In
<1>3. Distinct(q) <=> \A i, j \in 1 .. n : q[i] = q[j] => i = j
  BY DEF Distinct
<1> HIDE DEF n
<1>4. \A i : i \in 1 .. n + 1 <=> i \in 1 .. n \/ i = n + 1
  BY <1>1
<1>5. ASSUME NEW t PROVE In(w, t) <=> In(q, t) \/ t = e
  <2>1. In(w, t) <=> \E i \in 1 .. n + 1 : w[i] = t
    BY <1>1 DEF In
  <2> QED BY <1>1, <1>2, <1>4, <2>1
<1>6. ASSUME Distinct(q), ~In(q, e) PROVE Distinct(w)
  <2>1. SUFFICES ASSUME NEW i \in 1 .. n + 1, NEW j \in 1 .. n + 1, w[i] = w[j] PROVE i = j
    BY <1>1 DEF Distinct
  <2>2. \A m \in 1 .. n : q[m] # e
    BY <1>2, <1>6
  <2> QED BY <1>1, <1>3, <1>4, <1>6, <2>1, <2>2
<1> QED BY <1>1, <1>5, <1>6 DEF n, Appended

-----------------------------------------------------------------------------
(* The types of the records, and of the messages of each direction. *)
UpActs == {"online", "listening", "exitedAfterDisconnect", "queryServer", "close", "ackNewconn", "EOF"}
DownActs == {"ackExited", "reply", "newconn", "disconnect"}
UpMsg == [act : UpActs, c : Conns \cup {None}, h : Nat \cup {None}, ok : BOOLEAN]
DownMsg == [act : DownActs, c : Conns \cup {None}, h : Nat \cup {None}, ok : BOOLEAN]
HandleRec ==
  [kind : Policies, all : SUBSET Workers, free : Seq(Workers), conns : Seq(Conns),
   st : {"binding", "bound", "failed", "closed"}, waiting : Seq(Workers)]
RegRec ==
  [state : {"unforked", "none", "online", "listening", "disconnected", "dead"},
   listed : BOOLEAN, connected : BOOLEAN, dead : BOOLEAN, exitedAfterDisconnect : BOOLEAN]
ProcRec ==
  [alive : BOOLEAN, connected : BOOLEAN,
   state : {"none", "online", "listening", "disconnecting", "destroying"},
   server : {"none", "asked", "open"}, exitedAfterDisconnect : BOOLEAN,
   waiting : {"no", "primary", "self"}, conns : SUBSET Conns]

(* A handle: its free workers are workers of it, and none is free while a      *)
(* connection waits; before it is bound nobody is handed anything.             *)
Fit(H) ==
  /\ H \in HandleRec /\ Distinct(H.free) /\ \A w : In(H.free, w) => w \in H.all
  /\ H.free # <<>> => H.conns = <<>>
  /\ H.st = "binding" => H.free = <<>> /\ H.conns = <<>>
  /\ H.st # "binding" => H.waiting = <<>>

LEMMA HandleFields ==
  ASSUME NEW H \in HandleRec
  PROVE  /\ H.kind \in Policies /\ H.all \in SUBSET Workers /\ H.free \in Seq(Workers)
         /\ H.conns \in Seq(Conns) /\ H.waiting \in Seq(Workers)
         /\ H.st \in {"binding", "bound", "failed", "closed"}
BY DEF HandleRec

LEMMA InSet ==
  ASSUME NEW q, NEW t
  PROVE  t \in ToSet(q) <=> \E i \in DOMAIN q : q[i] = t
BY DEF ToSet

LEMMA InIs ==
  ASSUME NEW S, NEW q \in Seq(S), NEW t
  PROVE  /\ In(q, t) <=> t \in ToSet(q)
         /\ In(q, t) => t \in S /\ q # <<>>
BY DEF ToSet, In

(* A handle that differs in `free' or in `conns'. *)
Kept(G, H) == G.kind = H.kind /\ G.all = H.all /\ G.st = H.st /\ G.waiting = H.waiting
FreeIs(G, H, f) == G \in HandleRec /\ G.free = f /\ G.conns = H.conns /\ Kept(G, H)
ConnsIs(G, H, q) == G \in HandleRec /\ G.free = H.free /\ G.conns = q /\ Kept(G, H)

LEMMA FreeRec ==
  ASSUME NEW H \in HandleRec, NEW f \in Seq(Workers), NEW G, G = [H EXCEPT !.free = f]
  PROVE  FreeIs(G, H, f)
BY DEF HandleRec, FreeIs, Kept
LEMMA ConnsRec ==
  ASSUME NEW H \in HandleRec, NEW q \in Seq(Conns), NEW G, G = [H EXCEPT !.conns = q]
  PROVE  ConnsIs(G, H, q)
BY DEF HandleRec, ConnsIs, Kept

(* handoff(): the worker takes the oldest connection, or is free again. *)
LEMMA handoffFit ==
  ASSUME NEW H, Fit(H), H.st # "binding", NEW w \in Workers, NEW G, G = handoff(H, w)
  PROVE  /\ Fit(G) /\ Kept(G, H)
         /\ G.conns = IF w \in H.all /\ H.conns # <<>> THEN Tail(H.conns) ELSE H.conns
<1> H \in HandleRec
  BY DEF Fit
<1> USE HandleFields
<1>1. CASE w \notin H.all
  BY <1>1 DEF handoff, Kept
<1>2. CASE w \in H.all /\ H.conns = <<>>
  <2>1. CASE w \in ToSet(H.free)
    <3>1. G = [H EXCEPT !.free = H.free]
      BY <1>2, <2>1 DEF handoff
    <3>2. G = H
      BY <3>1 DEF HandleRec
    <3> QED BY <1>2, <3>2 DEF Kept
  <2>2. CASE w \notin ToSet(H.free)
    <3> DEFINE f == Append(H.free, w)
    <3>1. G = [H EXCEPT !.free = f]
      BY <1>2, <2>2 DEF handoff
    <3>2. f \in Seq(Workers) /\ Appended(f, H.free, w)
      BY AppendIn
    <3>3. ~In(H.free, w)
      BY <2>2, InIs
    <3> HIDE DEF f
    <3>4. G \in HandleRec /\ G.free = f /\ Kept(G, H) /\ G.conns = H.conns
      BY <3>1, <3>2, FreeRec DEF FreeIs
    <3>5. Distinct(f) /\ \A t : In(f, t) => t \in H.all
      BY <1>2, <3>2, <3>3 DEF Appended, Fit
    <3> QED BY <1>2, <3>4, <3>5 DEF Fit, Kept
  <2> QED BY <2>1, <2>2
<1>3. CASE w \in H.all /\ H.conns # <<>>
  <2> DEFINE z == Tail(H.conns)
  <2>1. G = [H EXCEPT !.conns = z] /\ z \in Seq(Conns)
    BY <1>3 DEF handoff
  <2> HIDE DEF z
  <2>4. ConnsIs(G, H, z)
    BY <2>1, ConnsRec
  <2>2. G \in HandleRec /\ G.conns = Tail(H.conns) /\ Kept(G, H) /\ G.free = H.free
    BY <2>4 DEF ConnsIs, z
  <2>3. H.free = <<>>
    BY <1>3 DEF Fit
  <2> QED BY <1>3, <2>2, <2>3 DEF Fit, Kept
<1> QED BY <1>1, <1>2, <1>3

(* distribute(): the connection waits, or the first free worker has it. *)
LEMMA FirstFree ==
  ASSUME NEW H, Fit(H), H.free # <<>>
  PROVE  Head(H.free) \in H.all /\ Head(H.free) \in Workers
<1>1. H.free \in Seq(Workers)
  BY HandleFields DEF Fit
<1>2. In(H.free, Head(H.free))
  BY <1>1 DEF In
<1> QED BY <1>1, <1>2 DEF Fit

LEMMA TailSub ==
  ASSUME NEW S, NEW q \in Seq(S), q # <<>>, Distinct(q)
  PROVE  /\ Tail(q) \in Seq(S) /\ Distinct(Tail(q))
         /\ \A t : In(Tail(q), t) <=> In(q, t) /\ t # Head(q)
<1>1. /\ Tail(q) \in Seq(S) /\ Len(Tail(q)) = Len(q) - 1
      /\ \A i \in 1 .. Len(q) - 1 : Tail(q)[i] = q[i + 1]
      /\ Len(q) \in Nat /\ Len(q) >= 1 /\ Head(q) = q[1]
  OBVIOUS
<1>2. Distinct(Tail(q))
  BY <1>1 DEF Distinct
<1>3. ASSUME NEW t PROVE In(Tail(q), t) <=> In(q, t) /\ t # Head(q)
  <2>1. ASSUME NEW i \in 1 .. Len(Tail(q)), Tail(q)[i] = t PROVE In(q, t) /\ t # Head(q)
    <3>1. i + 1 \in 1 .. Len(q) /\ q[i + 1] = t /\ i + 1 # 1
      BY <1>1, <2>1
    <3> QED BY <1>1, <3>1 DEF In, Distinct
  <2>2. ASSUME NEW i \in 1 .. Len(q), q[i] = t, t # Head(q) PROVE In(Tail(q), t)
    <3>1. i # 1
      BY <1>1, <2>2
    <3>2. i - 1 \in 1 .. Len(Tail(q)) /\ Tail(q)[i - 1] = q[(i - 1) + 1]
      BY <1>1, <3>1
    <3> QED BY <2>2, <3>2 DEF In
  <2> QED BY <2>1, <2>2 DEF In
<1> QED BY <1>1, <1>2, <1>3

LEMMA distributeFit ==
  ASSUME NEW H, Fit(H), H.st # "binding", NEW c \in Conns, NEW G, G = distribute(H, c)
  PROVE  /\ Fit(G) /\ Kept(G, H)
         /\ G.conns = IF H.free = <<>> THEN Append(H.conns, c) ELSE <<>>
<1> H \in HandleRec
  BY DEF Fit
<1> DEFINE Q == queued(H, c)
<1>4. ConnsIs(Q, H, Append(H.conns, c))
  <2> DEFINE z == Append(H.conns, c)
  <2>1. Q = [H EXCEPT !.conns = z] /\ z \in Seq(Conns)
    BY HandleFields DEF queued
  <2> HIDE DEF z, Q
  <2>2. ConnsIs(Q, H, z)
    BY <2>1, ConnsRec
  <2> QED BY <2>2 DEF z
<1> HIDE DEF Q
<1>1. Q \in HandleRec /\ Q.conns = Append(H.conns, c) /\ Kept(Q, H) /\ Q.free = H.free
  BY <1>4 DEF ConnsIs
<1>2. CASE H.free = <<>>
  <2>1. G = Q
    BY <1>2 DEF distribute, Q
  <2>2. Fit(Q)
    BY <1>1, <1>2 DEF Fit, Kept
  <2> QED BY <1>1, <1>2, <2>1, <2>2
<1>3. CASE H.free # <<>>
  <2> DEFINE w == Head(H.free)
             F == [Q EXCEPT !.free = Tail(@)]
  <2>1. w \in H.all /\ w \in Workers /\ H.conns = <<>>
    BY <1>3, FirstFree DEF Fit
  <2>2. Tail(H.free) \in Seq(Workers) /\ Distinct(Tail(H.free)) /\ \A t : In(Tail(H.free), t) => In(H.free, t)
    BY <1>3, HandleFields, TailSub DEF Fit
  <2> DEFINE y == Tail(H.free)
  <2>3. F = [Q EXCEPT !.free = y] /\ y \in Seq(Workers)
    BY <1>1, <2>2
  <2> HIDE DEF y
  <2>4. F \in HandleRec /\ F.free = Tail(H.free) /\ Kept(F, Q) /\ F.conns = Q.conns
    <3> HIDE DEF F
    <3>1. FreeIs(F, Q, y)
      BY <1>1, <2>3, FreeRec
    <3> QED BY <3>1 DEF FreeIs, y
  <2>5. G = handoff(F, w)
    BY <1>3 DEF distribute, Q
  <2> HIDE DEF F, w
  <2>11. F.conns = Append(<<>>, c) /\ w \in F.all
    BY <1>1, <2>1, <2>4 DEF Kept
  <2>6. F.conns = <<c>> /\ w \in F.all
    BY <2>11
  <2>9. Tail(F.conns) = <<>> /\ F.conns # <<>>
    BY <2>6
  <2> DEFINE z == Tail(F.conns)
  <2>7. G = [F EXCEPT !.conns = z]
    BY <2>5, <2>6, <2>9 DEF handoff
  <2>10. z = <<>> /\ z \in Seq(Conns)
    <3>1. <<>> \in Seq(Conns)
      OBVIOUS
    <3> QED BY <2>9, <3>1, Zenon DEF z
  <2> HIDE DEF z
  <2>12. ConnsIs(G, F, z)
    BY <2>4, <2>7, <2>10, ConnsRec
  <2>8. G \in HandleRec /\ G.conns = <<>> /\ Kept(G, F) /\ G.free = F.free
    BY <2>10, <2>12, Zenon DEF ConnsIs
  <2> QED BY <1>1, <1>3, <2>2, <2>4, <2>8 DEF Fit, Kept
<1> QED BY <1>2, <1>3

(* remove(): the worker leaves; with the last one the connections are closed. *)
LEMMA removeFit ==
  ASSUME NEW H, Fit(H), NEW w \in Workers, H.st = "binding" => ~RemoveLast(H, w), NEW G, G = remove(H, w)
  PROVE  /\ Fit(G) /\ G.all = H.all \ {w} /\ G.waiting = H.waiting
         /\ G.st = IF RemoveLast(H, w) THEN "closed" ELSE H.st
         /\ G.conns = IF RemoveLast(H, w) THEN <<>> ELSE H.conns
<1> H \in HandleRec
  BY DEF Fit
<1> USE HandleFields
<1>1. CASE w \notin H.all
  BY <1>1 DEF remove, RemoveLast
<1>2. CASE w \in H.all /\ RemoveLast(H, w)
  <2>1. G = [H EXCEPT !.all = {}, !.free = <<>>, !.conns = <<>>, !.st = "closed"]
    BY <1>2 DEF remove
  <2> DEFINE e == <<>>
  <2>4. e \in Seq(Workers) /\ e \in Seq(Conns) /\ {} \in SUBSET Workers /\ "closed" \in {"binding", "bound", "failed", "closed"}
    OBVIOUS
  <2>5. G = [H EXCEPT !.all = {}, !.free = e, !.conns = e, !.st = "closed"]
    BY <2>1
  <2> HIDE DEF e
  <2>6. /\ G \in HandleRec /\ G.all = {} /\ G.free = e /\ G.conns = e /\ G.st = "closed"
        /\ G.waiting = H.waiting
    BY <2>4, <2>5 DEF HandleRec
  <2>2. /\ G \in HandleRec /\ G.all = {} /\ G.free = <<>> /\ G.conns = <<>> /\ G.st = "closed"
        /\ G.waiting = H.waiting
    BY <2>6 DEF e
  <2>3. Distinct(G.free) /\ \A t : ~In(G.free, t)
    BY <2>2 DEF Distinct, In
  <2> QED BY <1>2, <2>2, <2>3 DEF Fit, RemoveLast
<1>3. CASE w \in H.all /\ ~RemoveLast(H, w)
  <2> DEFINE f == RemoveFirst(H.free, w)
  <2>1. G = [H EXCEPT !.all = H.all \ {w}, !.free = f]
    BY <1>3 DEF remove
  <2>2. f \in Seq(Workers) /\ Distinct(f) /\ \A p : In(f, p) <=> In(H.free, p) /\ p # w
    BY RemoveFirstSet DEF Fit
  <2>3. f # <<>> => H.free # <<>>
    <3>1. Len(f) = IF In(H.free, w) THEN Len(H.free) - 1 ELSE Len(H.free)
      BY RemoveFirstSet DEF Fit
    <3> QED BY <2>2, <3>1 DEF In
  <2> HIDE DEF f
  <2>4. /\ G \in HandleRec /\ G.all = H.all \ {w} /\ G.free = f /\ G.conns = H.conns /\ G.st = H.st
        /\ G.waiting = H.waiting
    BY <2>1, <2>2 DEF HandleRec
  <2> QED BY <1>3, <2>2, <2>3, <2>4 DEF Fit
<1> QED BY <1>1, <1>2, <1>3

-----------------------------------------------------------------------------
(* The callbacks of add(), one after the other. *)
(* There is a function that has the values of the callbacks. *)
LEMMA AfterExists ==
  ASSUME NEW H, NEW ws \in Seq(Workers)
  PROVE  \E f : f = [i \in 0 .. Len(ws) |-> IF i = 0 THEN H ELSE handoff(f[i - 1], ws[i])]
<1> DEFINE D(n) == 0 .. n
           Step(f, n) == \A i \in 0 .. n : f[i] = IF i = 0 THEN H ELSE handoff(f[i - 1], ws[i])
           Bad == {n \in Nat : ~ \E f : f = [i \in 0 .. n |-> f[i]] /\ Step(f, n)}
<1>1. Bad = {}
  <2> SUFFICES ASSUME Bad # {} PROVE FALSE
    OBVIOUS
  <2>1. \E n \in Bad : \A m \in Bad : n <= m
    <3>1. Bad \in SUBSET Nat /\ Bad # {}
      OBVIOUS
    <3> HIDE DEF Bad
    <3> QED BY <3>1, LeastNat
  <2>2. PICK n \in Bad : \A m \in Bad : n <= m
    BY <2>1
  <2>3. n \in Nat
    OBVIOUS
  <2>4. CASE n = 0
    <3> DEFINE f == [i \in 0 .. n |-> H]
    <3>1. f = [i \in 0 .. n |-> f[i]] /\ Step(f, n)
      BY <2>4
    <3> HIDE DEF f
    <3> QED BY <3>1, <2>2
  <2>5. CASE n # 0
    <3>1. n - 1 \in Nat /\ ~(n <= n - 1)
      BY <2>3, <2>5
    <3>2. n - 1 \notin Bad
      BY <2>2, <3>1
    <3>3. PICK g : Step(g, n - 1)
      BY <3>1, <3>2
    <3> DEFINE f == [i \in 0 .. n |-> IF i < n THEN g[i] ELSE handoff(g[n - 1], ws[n])]
    <3>4. f = [i \in 0 .. n |-> f[i]]
      OBVIOUS
    <3>5. \A i \in 0 .. n - 1 : f[i] = g[i]
      BY <2>3, <3>1
    <3>6. f[n] = handoff(g[n - 1], ws[n])
      BY <2>3
    <3> HIDE DEF f
    <3>7. ASSUME NEW i \in 0 .. n PROVE f[i] = IF i = 0 THEN H ELSE handoff(f[i - 1], ws[i])
      <4>1. CASE i = n
        <5>1. n - 1 \in 0 .. n - 1 /\ i # 0 /\ i - 1 = n - 1
          BY <2>3, <2>5, <3>1, <4>1
        <5>2. f[n - 1] = g[n - 1]
          BY <3>5, <5>1
        <5> QED BY <3>6, <4>1, <5>1, <5>2
      <4>2. CASE i # n
        <5>1. i \in 0 .. n - 1
          BY <2>3, <4>2
        <5>2. g[i] = IF i = 0 THEN H ELSE handoff(g[i - 1], ws[i])
          BY <3>3, <5>1
        <5>3. i # 0 => i - 1 \in 0 .. n - 1
          BY <5>1, <3>1
        <5> QED BY <3>5, <5>1, <5>2, <5>3
      <4> QED BY <4>1, <4>2
    <3>8. Step(f, n)
      BY <3>7
    <3> QED BY <2>2, <3>4, <3>8
  <2> QED BY <2>4, <2>5
<1>2. Len(ws) \in Nat
  OBVIOUS
<1>3. PICK f : f = [i \in 0 .. Len(ws) |-> f[i]] /\ Step(f, Len(ws))
  BY <1>1, <1>2
<1>4. [i \in 0 .. Len(ws) |-> f[i]] = [i \in 0 .. Len(ws) |-> IF i = 0 THEN H ELSE handoff(f[i - 1], ws[i])]
  BY <1>3
<1> QED BY <1>3, <1>4

LEMMA handoffAllFit ==
  ASSUME NEW H, Fit(H), H.st # "binding", H.conns = <<>>, NEW ws \in Seq(Workers),
         NEW G, G = handoffAll(H, ws)
  PROVE  Fit(G) /\ Kept(G, H) /\ G.conns = <<>>
<1> DEFINE f == CHOOSE f : f = [i \in 0 .. Len(ws) |-> IF i = 0 THEN H ELSE handoff(f[i - 1], ws[i])]
           P(i) == Fit(f[i]) /\ Kept(f[i], H) /\ f[i].conns = <<>>
<1>1. G = f[Len(ws)]
  BY DEF handoffAll
<1>2. f = [i \in 0 .. Len(ws) |-> IF i = 0 THEN H ELSE handoff(f[i - 1], ws[i])]
  BY AfterExists
<1> HIDE DEF f
<1>3. \A i \in 0 .. Len(ws) : f[i] = IF i = 0 THEN H ELSE handoff(f[i - 1], ws[i])
  BY <1>2
<1> DEFINE Bad == {i \in 0 .. Len(ws) : ~P(i)}
<1>4. Bad = {}
  <2> SUFFICES ASSUME Bad # {} PROVE FALSE
    OBVIOUS
  <2>1. \E n \in Bad : \A m \in Bad : n <= m
    <3>1. Bad \in SUBSET Nat /\ Bad # {}
      OBVIOUS
    <3> HIDE DEF Bad
    <3> QED BY <3>1, LeastNat
  <2>2. PICK n \in Bad : \A m \in Bad : n <= m
    BY <2>1
  <2>3. n \in 0 .. Len(ws) /\ ~P(n)
    OBVIOUS
  <2>4. n # 0
    <3>1. n = 0 => f[n] = H
      BY <1>3, <2>3
    <3>2. Fit(H) /\ Kept(H, H) /\ H.conns = <<>>
      BY DEF Kept
    <3> QED BY <2>3, <3>1, <3>2
  <2>5. n - 1 \in 0 .. Len(ws) /\ ~(n <= n - 1) /\ n \in 1 .. Len(ws)
    BY <2>3, <2>4
  <2>6. P(n - 1)
    BY <2>2, <2>5
  <2>7. f[n] = handoff(f[n - 1], ws[n]) /\ ws[n] \in Workers
    BY <1>3, <2>3, <2>4, <2>5
  <2> DEFINE E == f[n - 1]
             F == f[n]
             w == ws[n]
  <2>8. Fit(E) /\ Kept(E, H) /\ E.conns = <<>> /\ F = handoff(E, w) /\ w \in Workers
    BY <2>6, <2>7
  <2>9. ~(Fit(F) /\ Kept(F, H) /\ F.conns = <<>>)
    BY <2>3
  <2> HIDE DEF E, F, w, P
  <2>10. E.st # "binding"
    BY <2>8 DEF Kept
  <2>11. /\ Fit(F) /\ Kept(F, E)
         /\ F.conns = IF w \in E.all /\ E.conns # <<>> THEN Tail(E.conns) ELSE E.conns
    BY <2>8, <2>10, handoffFit
  <2> QED BY <2>8, <2>9, <2>11 DEF Kept
<1> QED BY <1>1, <1>4

-----------------------------------------------------------------------------
(* The types of the variables, with what every handle and message has: a       *)
(* message that carries a connection names a handle that has been bound.       *)
Carries(m, act, HS) ==
  IF m.act = act THEN m.c \in Conns /\ m.h \in DOMAIN HS /\ HS[m.h].st # "binding" ELSE m.c = None
GoodUp(m, HS) == m \in UpMsg /\ Carries(m, "ackNewconn", HS)
GoodDown(m, HS) == m \in DownMsg /\ Carries(m, "newconn", HS)
AllUp(ms, HS) == ms \in Seq(UpMsg) /\ \A i \in 1 .. Len(ms) : GoodUp(ms[i], HS)
AllDown(ms, HS) == ms \in Seq(DownMsg) /\ \A i \in 1 .. Len(ms) : GoodDown(ms[i], HS)

PrimaryOK ==
  /\ policy \in Policies /\ table \in DOMAIN hs \cup {None} /\ reg \in [Workers -> RegRec]
  /\ hs \in Seq(HandleRec) /\ \A h \in DOMAIN hs : Fit(hs[h])
  /\ table # None => hs[table].st \in {"bound", "binding"}
  /\ fault \in Faults \cup {None}
  /\ open \subseteq seen /\ seen \subseteq Conns /\ sent \in [Conns -> Workers \cup {None}]
  /\ calls \in 0 .. MaxCalls
WorkersOK == proc \in [Workers -> ProcRec] /\ served \in [Conns -> SUBSET Workers]
UpsOK == up \in [Workers -> Seq(UpMsg)] /\ \A w \in Workers : AllUp(up[w], hs)
DownsOK == down \in [Workers -> Seq(DownMsg)] /\ \A w \in Workers : AllDown(down[w], hs)
Base == PrimaryOK /\ WorkersOK /\ UpsOK /\ DownsOK

(* No handle goes, and none is bound again. *)
Grown == \A h \in DOMAIN hs : h \in DOMAIN hs' /\ (hs[h].st # "binding" => hs'[h].st # "binding")

LEMMA UpGrown ==
  ASSUME Grown, NEW m, GoodUp(m, hs)
  PROVE  GoodUp(m, hs')
BY DEF Grown, GoodUp, Carries
LEMMA DownGrown ==
  ASSUME Grown, NEW m, GoodDown(m, hs)
  PROVE  GoodDown(m, hs')
BY DEF Grown, GoodDown, Carries

LEMMA AllUpCat ==
  ASSUME NEW HS, NEW q, AllUp(q, HS), NEW p, AllUp(p, HS)
  PROVE  AllUp(q \o p, HS)
<1>1. /\ q \o p \in Seq(UpMsg) /\ Len(q \o p) = Len(q) + Len(p) /\ Len(q) \in Nat /\ Len(p) \in Nat
      /\ \A i \in 1 .. Len(q) + Len(p) : (q \o p)[i] = IF i <= Len(q) THEN q[i] ELSE p[i - Len(q)]
  BY DEF AllUp
<1> DEFINE y == q \o p
<1> HIDE DEF y
<1>2. ASSUME NEW i \in 1 .. Len(y) PROVE GoodUp(y[i], HS)
  <2>1. CASE i <= Len(q)
    BY <1>1, <2>1 DEF y, AllUp
  <2>2. CASE ~(i <= Len(q))
    <3>1. i - Len(q) \in 1 .. Len(p) /\ y[i] = p[i - Len(q)]
      BY <1>1, <2>2 DEF y
    <3> QED BY <3>1 DEF AllUp
  <2> QED BY <2>1, <2>2
<1> QED BY <1>1, <1>2 DEF y, AllUp

LEMMA AllDownCat ==
  ASSUME NEW HS, NEW q, AllDown(q, HS), NEW p, AllDown(p, HS)
  PROVE  AllDown(q \o p, HS)
<1>1. /\ q \o p \in Seq(DownMsg) /\ Len(q \o p) = Len(q) + Len(p) /\ Len(q) \in Nat /\ Len(p) \in Nat
      /\ \A i \in 1 .. Len(q) + Len(p) : (q \o p)[i] = IF i <= Len(q) THEN q[i] ELSE p[i - Len(q)]
  BY DEF AllDown
<1> DEFINE y == q \o p
<1> HIDE DEF y
<1>2. ASSUME NEW i \in 1 .. Len(y) PROVE GoodDown(y[i], HS)
  <2>1. CASE i <= Len(q)
    BY <1>1, <2>1 DEF y, AllDown
  <2>2. CASE ~(i <= Len(q))
    <3>1. i - Len(q) \in 1 .. Len(p) /\ y[i] = p[i - Len(q)]
      BY <1>1, <2>2 DEF y
    <3> QED BY <3>1 DEF AllDown
  <2> QED BY <2>1, <2>2
<1> QED BY <1>1, <1>2 DEF y, AllDown

LEMMA TailGood ==
  ASSUME NEW HS, NEW q
  PROVE  /\ AllUp(q, HS) /\ q # <<>> => AllUp(Tail(q), HS) /\ GoodUp(Head(q), HS)
         /\ AllDown(q, HS) /\ q # <<>> => AllDown(Tail(q), HS) /\ GoodDown(Head(q), HS)
<1>1. ASSUME NEW S, q \in Seq(S), q # <<>>
      PROVE  /\ Tail(q) \in Seq(S) /\ Head(q) = q[1] /\ 1 \in 1 .. Len(q)
             /\ \A i \in 1 .. Len(Tail(q)) : Tail(q)[i] = q[i + 1] /\ i + 1 \in 1 .. Len(q)
  BY <1>1
<1>2. ASSUME AllUp(q, HS), q # <<>> PROVE AllUp(Tail(q), HS) /\ GoodUp(Head(q), HS)
  BY <1>1, <1>2 DEF AllUp
<1>3. ASSUME AllDown(q, HS), q # <<>> PROVE AllDown(Tail(q), HS) /\ GoodDown(Head(q), HS)
  BY <1>1, <1>3 DEF AllDown
<1> QED BY <1>2, <1>3

(* Messages that carry no connection. *)
LEMMA MsgGood ==
  ASSUME NEW HS, NEW act
  PROVE  /\ act \in UpActs \ {"ackNewconn"} => AllUp(<<Msg(act)>>, HS)
         /\ act \in DownActs \ {"newconn"} => AllDown(<<Msg(act)>>, HS)
<1>1. act \in UpActs \ {"ackNewconn"} => GoodUp(Msg(act), HS)
  BY DEF GoodUp, Carries, Msg, UpMsg
<1>2. act \in DownActs \ {"newconn"} => GoodDown(Msg(act), HS)
  BY DEF GoodDown, Carries, Msg, DownMsg
<1>3. \A m : GoodUp(m, HS) => AllUp(<<m>>, HS)
  BY DEF AllUp, GoodUp
<1>4. \A m : GoodDown(m, HS) => AllDown(<<m>>, HS)
  BY DEF AllDown, GoodDown
<1> QED BY <1>1, <1>2, <1>3, <1>4

LEMMA ReplyGood ==
  ASSUME NEW HS, NEW h \in Nat, NEW ok \in BOOLEAN
  PROVE  AllDown(<<ConnMsg("reply", None, h, ok)>>, HS)
<1>1. GoodDown(ConnMsg("reply", None, h, ok), HS)
  BY DEF GoodDown, Carries, ConnMsg, DownMsg, DownActs
<1> QED BY <1>1 DEF AllDown, GoodDown

LEMMA EmptyGood == \A HS : AllDown(<<>>, HS) /\ AllUp(<<>>, HS)
BY DEF AllDown, AllUp

LEMMA newconnGood ==
  ASSUME NEW HS, NEW h \in DOMAIN HS, h \in Nat, HS[h].st # "binding", NEW c \in Conns, NEW ok \in BOOLEAN
  PROVE  /\ AllDown(<<ConnMsg("newconn", c, h, ok)>>, HS)
         /\ AllUp(<<ConnMsg("ackNewconn", c, h, ok)>>, HS)
<1>1. GoodDown(ConnMsg("newconn", c, h, ok), HS)
  BY DEF GoodDown, Carries, ConnMsg, DownMsg, DownActs
<1>2. GoodUp(ConnMsg("ackNewconn", c, h, ok), HS)
  BY DEF GoodUp, Carries, ConnMsg, UpMsg, UpActs
<1> QED BY <1>1, <1>2 DEF AllDown, AllUp, GoodDown, GoodUp

LEMMA handoffSendsGood ==
  ASSUME NEW HS, NEW h \in DOMAIN HS, h \in Nat, HS[h].st # "binding", NEW H \in HandleRec, NEW w
  PROVE  AllDown(handoffSends(H, h, w), HS)
<1>1. CASE w \in H.all /\ H.conns # <<>>
  <2>1. Head(H.conns) \in Conns
    BY <1>1, HandleFields
  <2> QED BY <1>1, <2>1, newconnGood DEF handoffSends
<1>2. CASE ~(w \in H.all /\ H.conns # <<>>)
  BY <1>2, EmptyGood DEF handoffSends
<1> QED BY <1>1, <1>2

LEMMA distributeSendsGood ==
  ASSUME NEW HS, NEW h \in DOMAIN HS, h \in Nat, HS[h].st # "binding", NEW H, Fit(H), NEW c \in Conns, NEW w \in Workers
  PROVE  AllDown(distributeSends(H, h, c)[w], HS)
<1> H \in HandleRec
  BY DEF Fit
<1>1. CASE H.free # <<>> /\ w = Head(H.free)
  <2> DEFINE z == Append(H.conns, c)
             Q == [H EXCEPT !.conns = z]
             y == Tail(H.free)
             F == [Q EXCEPT !.free = y]
  <2>1. z \in Seq(Conns) /\ y \in Seq(Workers)
    BY <1>1, HandleFields
  <2>2. distributeSends(H, h, c)[w] = handoffSends([queued(H, c) EXCEPT !.free = Tail(@)], h, w)
    BY <1>1 DEF distributeSends
  <2>3. [queued(H, c) EXCEPT !.free = Tail(@)] = F
    <3>1. queued(H, c) = Q
      BY DEF queued
    <3>2. Q.free = H.free
      BY DEF HandleRec
    <3> HIDE DEF Q
    <3> QED BY <3>1, <3>2
  <2> HIDE DEF z, y
  <2>4. Q \in HandleRec
    BY <2>1, ConnsRec DEF ConnsIs
  <2> HIDE DEF Q
  <2>5. F \in HandleRec
    BY <2>1, <2>4, FreeRec DEF FreeIs
  <2> HIDE DEF F
  <2> QED BY <2>2, <2>3, <2>5, handoffSendsGood
<1>2. CASE ~(H.free # <<>> /\ w = Head(H.free))
  BY <1>2, EmptyGood DEF distributeSends
<1> QED BY <1>1, <1>2

(* What the channels become. *)
LEMMA UpTold ==
  ASSUME Base, Grown, NEW w \in Workers, NEW ms, AllUp(ms, hs'), Tell(w, ms)
  PROVE  /\ UpsOK' /\ up'[w] = up[w] \o ms
         /\ \A v \in Workers : v # w => up'[v] = up[v]
<1>1. /\ up \in [Workers -> Seq(UpMsg)] /\ \A v \in Workers : AllUp(up[v], hs)
      /\ up' = [up EXCEPT ![w] = up[w] \o ms]
  BY DEF Base, UpsOK, Tell
<1>2. \A v \in Workers : AllUp(up[v], hs')
  BY <1>1, UpGrown DEF AllUp
<1>3. AllUp(up[w] \o ms, hs')
  BY <1>2, AllUpCat
<1>4. up'[w] = up[w] \o ms /\ \A v \in Workers : v # w => up'[v] = up[v]
  BY <1>1
<1>5. up[w] \o ms \in Seq(UpMsg)
  BY <1>3 DEF AllUp
<1> QED BY <1>1, <1>2, <1>3, <1>4, <1>5 DEF UpsOK

LEMMA UpTaken ==
  ASSUME Base, Grown, NEW w \in Workers, up[w] # <<>>, up' = Take(up, w)
  PROVE  /\ UpsOK' /\ up'[w] = Tail(up[w]) /\ GoodUp(Head(up[w]), hs)
         /\ \A v \in Workers : v # w => up'[v] = up[v]
<1>1. /\ up \in [Workers -> Seq(UpMsg)] /\ \A v \in Workers : AllUp(up[v], hs)
      /\ up' = [up EXCEPT ![w] = Tail(up[w])]
  BY DEF Base, UpsOK, Take
<1>2. \A v \in Workers : AllUp(up[v], hs')
  BY <1>1, UpGrown DEF AllUp
<1>3. AllUp(Tail(up[w]), hs') /\ GoodUp(Head(up[w]), hs)
  BY <1>1, <1>2, TailGood
<1>4. up'[w] = Tail(up[w]) /\ \A v \in Workers : v # w => up'[v] = up[v]
  BY <1>1
<1>5. Tail(up[w]) \in Seq(UpMsg)
  BY <1>3 DEF AllUp
<1> QED BY <1>1, <1>2, <1>3, <1>4, <1>5 DEF UpsOK

LEMMA UpSame ==
  ASSUME Base, Grown, up' = up
  PROVE  UpsOK'
<1>1. \A v \in Workers : AllUp(up[v], hs')
  BY UpGrown DEF AllUp, UpsOK, Base
<1> QED BY <1>1 DEF UpsOK, Base

LEMMA DownTaken ==
  ASSUME Base, Grown, NEW w \in Workers, down[w] # <<>>, down' = Take(down, w)
  PROVE  /\ DownsOK' /\ down'[w] = Tail(down[w]) /\ GoodDown(Head(down[w]), hs)
         /\ \A v \in Workers : v # w => down'[v] = down[v]
<1>1. /\ down \in [Workers -> Seq(DownMsg)] /\ \A v \in Workers : AllDown(down[v], hs)
      /\ down' = [down EXCEPT ![w] = Tail(down[w])]
  BY DEF Base, DownsOK, Take
<1>2. \A v \in Workers : AllDown(down[v], hs')
  BY <1>1, DownGrown DEF AllDown
<1>3. AllDown(Tail(down[w]), hs') /\ GoodDown(Head(down[w]), hs)
  BY <1>1, <1>2, TailGood
<1>4. down'[w] = Tail(down[w]) /\ \A v \in Workers : v # w => down'[v] = down[v]
  BY <1>1
<1>5. Tail(down[w]) \in Seq(DownMsg)
  BY <1>3 DEF AllDown
<1> QED BY <1>1, <1>2, <1>3, <1>4, <1>5 DEF DownsOK

LEMMA DownSame ==
  ASSUME Base, Grown, down' = down
  PROVE  DownsOK'
<1>1. \A v \in Workers : AllDown(down[v], hs')
  BY DownGrown DEF AllDown, DownsOK, Base
<1> QED BY <1>1 DEF DownsOK, Base

Sendable(w) == reg[w].connected
LEMMA DownSent ==
  ASSUME Base, Grown, NEW S, \A w \in Workers : AllDown(S[w], hs'), SendAll(S)
  PROVE  /\ DownsOK' /\ sent' \in [Conns -> Workers \cup {None}]
         /\ \A w \in Workers : down'[w] = IF Sendable(w) THEN down[w] \o S[w] ELSE down[w]
<1>1. /\ down \in [Workers -> Seq(DownMsg)] /\ \A v \in Workers : AllDown(down[v], hs)
      /\ down' = [w \in Workers |-> IF Sendable(w) THEN down[w] \o S[w] ELSE down[w]]
  BY DEF Base, DownsOK, SendAll, Sendable
<1>2. \A v \in Workers : AllDown(down[v], hs') /\ AllDown(down[v] \o S[v], hs')
  <2>1. ASSUME NEW v \in Workers PROVE AllDown(down[v], hs') /\ AllDown(down[v] \o S[v], hs')
    <3>1. AllDown(down[v], hs')
      BY <1>1, DownGrown DEF AllDown
    <3> QED BY <3>1, AllDownCat
  <2> QED BY <2>1
<1>3. \A v \in Workers : down[v] \in Seq(DownMsg) /\ down[v] \o S[v] \in Seq(DownMsg)
  BY <1>2 DEF AllDown
<1>4. sent' \in [Conns -> Workers \cup {None}]
  <2> DEFINE Handed(c) == {w \in Workers : \E m \in ToSet(S[w]) : m.c = c}
  <2>1. sent' = [c \in Conns |-> IF Handed(c) = {} THEN sent[c] ELSE CHOOSE w \in Handed(c) : TRUE]
    BY DEF SendAll
  <2>2. sent \in [Conns -> Workers \cup {None}]
    BY DEF Base, PrimaryOK
  <2>3. \A c \in Conns : Handed(c) # {} => (CHOOSE w \in Handed(c) : TRUE) \in Workers
    <3>1. \A c \in Conns : Handed(c) # {} => (CHOOSE w \in Handed(c) : TRUE) \in Handed(c)
      <4> HIDE DEF Handed
      <4> QED OBVIOUS
    <3> QED BY <3>1
  <2> HIDE DEF Handed
  <2> QED BY <2>1, <2>2, <2>3
<1> QED BY <1>1, <1>2, <1>3, <1>4 DEF DownsOK

-----------------------------------------------------------------------------
(* Every action keeps the types and the handles. *)
LEMMA BaseFields ==
  ASSUME Base
  PROVE  /\ policy \in Policies /\ table \in DOMAIN hs \cup {None} /\ reg \in [Workers -> RegRec]
         /\ hs \in Seq(HandleRec) /\ \A h \in DOMAIN hs : Fit(hs[h])
         /\ table # None => hs[table].st \in {"bound", "binding"}
         /\ proc \in [Workers -> ProcRec] /\ served \in [Conns -> SUBSET Workers]
         /\ open \subseteq seen /\ seen \subseteq Conns /\ sent \in [Conns -> Workers \cup {None}]
         /\ DOMAIN hs = 1 .. Len(hs) /\ Len(hs) \in Nat /\ None \notin DOMAIN hs
         /\ up \in [Workers -> Seq(UpMsg)] /\ down \in [Workers -> Seq(DownMsg)]
BY ClusterAssumption DEF Base, PrimaryOK, WorkersOK, UpsOK, DownsOK

LEMMA SameGrown == ASSUME hs' = hs PROVE Grown
BY DEF Grown

(* The primary's part, when the handles do not change. *)
LEMMA PrimarySame ==
  ASSUME Base, UNCHANGED <<policy, table, hs, fault, open, seen>>, reg' \in [Workers -> RegRec],
         sent' \in [Conns -> Workers \cup {None}], calls' \in 0 .. MaxCalls
  PROVE  PrimaryOK'
BY DEF PrimaryOK, Base

LEMMA CallsOK ==
  ASSUME Base
  PROVE  /\ \A c : UserCall(c) => calls' \in 0 .. MaxCalls
         /\ calls' = calls => calls' \in 0 .. MaxCalls
         /\ sent' = sent => sent' \in [Conns -> Workers \cup {None}]
BY ClusterAssumption DEF Base, PrimaryOK, UserCall

(* An action of a worker. *)
LEMMA WorkerBase ==
  ASSUME Base, UNCHANGED <<policy, primary, fault, sent, seen>>, calls' \in 0 .. MaxCalls,
         WorkersOK', UpsOK', DownsOK'
  PROVE  Base'
<1>1. PrimaryOK'
  <2>1. sent' \in [Conns -> Workers \cup {None}] /\ reg' \in [Workers -> RegRec]
    BY DEF Base, PrimaryOK, primary
  <2> QED BY <2>1, PrimarySame DEF primary
<1> QED BY <1>1 DEF Base

LEMMA SetOK ==
  ASSUME Base, NEW w \in Workers, NEW p \in ProcRec, Set(w, p)
  PROVE  /\ proc' \in [Workers -> ProcRec] /\ proc'[w] = p
         /\ \A v \in Workers : v # w => proc'[v] = proc[v]
         /\ served' = served => WorkersOK'
BY DEF Base, WorkersOK, Set

LEMMA ProcFields ==
  ASSUME Base, NEW w \in Workers
  PROVE  /\ proc[w] \in ProcRec /\ proc[w].conns \in SUBSET Conns /\ proc[w].server \in {"none", "asked", "open"}
         /\ proc[w].waiting \in {"no", "primary", "self"} /\ proc[w].connected \in BOOLEAN /\ proc[w].alive \in BOOLEAN
         /\ proc[w].exitedAfterDisconnect \in BOOLEAN
         /\ proc[w].state \in {"none", "online", "listening", "disconnecting", "destroying"}
BY DEF Base, WorkersOK, ProcRec

LEMMA RegFields ==
  ASSUME Base, NEW w \in Workers
  PROVE  /\ reg[w] \in RegRec /\ reg[w].listed \in BOOLEAN /\ reg[w].connected \in BOOLEAN
         /\ reg[w].dead \in BOOLEAN /\ reg[w].exitedAfterDisconnect \in BOOLEAN
         /\ reg[w].state \in {"unforked", "none", "online", "listening", "disconnected", "dead"}
BY DEF Base, PrimaryOK, RegRec

LEMMA RegSet ==
  ASSUME Base, NEW w \in Workers, NEW R \in RegRec, reg' = [reg EXCEPT ![w] = R]
  PROVE  /\ reg' \in [Workers -> RegRec] /\ reg'[w] = R
         /\ \A v \in Workers : v # w => reg'[v] = reg[v]
BY DEF Base, PrimaryOK

LEMMA forkBase ==
  ASSUME Base, NEW w \in Workers, fork(w)
  PROVE  Base'
<1>1. Grown
  BY SameGrown DEF fork
<1>2. UpsOK'
  BY <1>1, MsgGood, UpTold DEF fork, UpActs
<1>3. DownsOK'
  BY <1>1, DownSame DEF fork
<1>4. reg' \in [Workers -> RegRec] /\ proc' \in [Workers -> ProcRec]
  <2> DEFINE R == [reg[w] EXCEPT !.state = "none", !.listed = TRUE, !.connected = TRUE]
             p == [proc[w] EXCEPT !.alive = TRUE, !.connected = TRUE, !.state = "online"]
  <2>1. R \in RegRec
    BY RegFields DEF RegRec
  <2>2. p \in ProcRec
    BY ProcFields DEF ProcRec
  <2>3. reg' = [reg EXCEPT ![w] = R] /\ Set(w, p)
    BY DEF fork, Set
  <2> HIDE DEF R, p
  <2> QED BY <2>1, <2>2, <2>3, RegSet, SetOK
<1>5. PrimaryOK'
  BY <1>4, PrimarySame, CallsOK DEF fork
<1> QED BY <1>2, <1>3, <1>4, <1>5 DEF Base, WorkersOK, fork

(* The primary hears a message, and tells at most that it has. *)
LEMMA hearBase ==
  ASSUME Base, NEW w \in Workers, online(w) \/ listening(w) \/ queryServerIgnored(w) \/ silentDisconnect(w)
  PROVE  Base'
<1>1. Grown /\ hs' = hs
  BY SameGrown DEF online, listening, queryServerIgnored, silentDisconnect
<1>2. up[w] # <<>> /\ up' = Take(up, w)
  BY DEF online, listening, queryServerIgnored, silentDisconnect, Hears
<1>3. UpsOK'
  BY <1>1, <1>2, UpTaken
<1>4. DownsOK'
  BY <1>1, DownSame DEF online, listening, queryServerIgnored, silentDisconnect
<1>5. reg' \in [Workers -> RegRec]
  <2>1. CASE online(w)
    <3> DEFINE R == [reg[w] EXCEPT !.state = "online"]
    <3>1. R \in RegRec /\ reg' = [reg EXCEPT ![w] = R]
      BY <2>1, RegFields DEF RegRec, online
    <3> HIDE DEF R
    <3> QED BY <3>1, RegSet
  <2>2. CASE listening(w)
    <3> DEFINE R == [reg[w] EXCEPT !.state = "listening"]
    <3>1. R \in RegRec /\ reg' = [reg EXCEPT ![w] = R]
      BY <2>2, RegFields DEF RegRec, listening
    <3> HIDE DEF R
    <3> QED BY <3>1, RegSet
  <2>3. CASE silentDisconnect(w)
    <3> DEFINE R == [reg[w] EXCEPT !.connected = FALSE]
    <3>1. R \in RegRec /\ reg' = [reg EXCEPT ![w] = R]
      BY <2>3, RegFields DEF RegRec, silentDisconnect
    <3> HIDE DEF R
    <3> QED BY <3>1, RegSet
  <2> QED BY <2>1, <2>2, <2>3, BaseFields DEF queryServerIgnored
<1>6. PrimaryOK'
  BY <1>5, PrimarySame, CallsOK DEF online, listening, queryServerIgnored, silentDisconnect
<1>7. WorkersOK'
  BY DEF Base, WorkersOK, online, listening, queryServerIgnored, silentDisconnect
<1> QED BY <1>3, <1>4, <1>6, <1>7 DEF Base

LEMMA ToGood ==
  ASSUME NEW HS, NEW w \in Workers, NEW ms, AllDown(ms, HS)
  PROVE  \A v \in Workers : AllDown(To(w, ms)[v], HS)
BY EmptyGood DEF To
LEMMA ToIs ==
  ASSUME NEW w \in Workers, NEW ms
  PROVE  \A v \in Workers : To(w, ms)[v] = IF v = w THEN ms ELSE <<>>
BY DEF To

LEMMA exitedBase ==
  ASSUME Base, NEW w \in Workers, exitedAfterDisconnect(w)
  PROVE  Base'
<1>1. Grown /\ hs' = hs
  BY SameGrown DEF exitedAfterDisconnect
<1>3. UpsOK'
  BY <1>1, UpTaken DEF exitedAfterDisconnect, Hears
<1>4. AllDown(<<Msg("ackExited")>>, hs')
  BY MsgGood DEF DownActs
<1> DEFINE S == To(w, <<Msg("ackExited")>>)
<1>5. SendAll(S) /\ \A v \in Workers : AllDown(S[v], hs')
  BY <1>4, ToGood DEF exitedAfterDisconnect
<1> HIDE DEF S
<1>6. DownsOK' /\ sent' \in [Conns -> Workers \cup {None}]
  BY <1>1, <1>5, DownSent
<1>7. reg' \in [Workers -> RegRec]
  <2> DEFINE R == [reg[w] EXCEPT !.exitedAfterDisconnect = TRUE]
  <2>1. R \in RegRec /\ reg' = [reg EXCEPT ![w] = R]
    BY RegFields DEF RegRec, exitedAfterDisconnect
  <2> HIDE DEF R
  <2> QED BY <2>1, RegSet
<1>8. PrimaryOK'
  BY <1>6, <1>7, PrimarySame, CallsOK DEF exitedAfterDisconnect
<1>9. WorkersOK'
  BY DEF Base, WorkersOK, exitedAfterDisconnect
<1> QED BY <1>3, <1>6, <1>8, <1>9 DEF Base

(* A handle changes, or a new one comes. *)
LEMMA HandleChanged ==
  ASSUME Base, NEW h \in DOMAIN hs, NEW G, Fit(G), hs' = [hs EXCEPT ![h] = G], hs[h].st # "binding" => G.st # "binding"
  PROVE  /\ hs' \in Seq(HandleRec) /\ DOMAIN hs' = DOMAIN hs /\ hs'[h] = G /\ Grown
         /\ \A k \in DOMAIN hs : k # h => hs'[k] = hs[k]
         /\ \A k \in DOMAIN hs' : Fit(hs'[k])
<1>1. hs \in Seq(HandleRec) /\ G \in HandleRec /\ \A k \in DOMAIN hs : Fit(hs[k])
  BY BaseFields DEF Fit
<1>2. /\ hs' \in Seq(HandleRec) /\ DOMAIN hs' = DOMAIN hs /\ hs'[h] = G
      /\ \A k \in DOMAIN hs : k # h => hs'[k] = hs[k]
  BY <1>1
<1>3. Grown
  BY <1>2 DEF Grown
<1>4. \A k \in DOMAIN hs' : Fit(hs'[k])
  BY <1>1, <1>2
<1> QED BY <1>2, <1>3, <1>4

LEMMA HandleAppended ==
  ASSUME Base, NEW G, Fit(G), hs' = Append(hs, G)
  PROVE  /\ hs' \in Seq(HandleRec) /\ DOMAIN hs' = DOMAIN hs \cup {Len(hs) + 1} /\ hs'[Len(hs) + 1] = G /\ Grown
         /\ \A k \in DOMAIN hs : hs'[k] = hs[k]
         /\ \A k \in DOMAIN hs' : Fit(hs'[k])
<1>1. hs \in Seq(HandleRec) /\ G \in HandleRec /\ \A k \in DOMAIN hs : Fit(hs[k])
  BY BaseFields DEF Fit
<1>2. /\ hs' \in Seq(HandleRec) /\ DOMAIN hs' = DOMAIN hs \cup {Len(hs) + 1} /\ hs'[Len(hs) + 1] = G
      /\ \A k \in DOMAIN hs : hs'[k] = hs[k]
  BY <1>1
<1>3. Grown
  BY <1>2 DEF Grown
<1>4. \A k \in DOMAIN hs' : Fit(hs'[k])
  BY <1>1, <1>2
<1> QED BY <1>2, <1>3, <1>4

(* What removeHandlesForWorker() does. *)
LEMMA RemoveIs ==
  ASSUME Base, NEW w \in Workers, RemoveOrFault(w)
  PROVE  /\ hs' \in Seq(HandleRec) /\ DOMAIN hs' = DOMAIN hs /\ Grown /\ \A h \in DOMAIN hs' : Fit(hs'[h])
         /\ table' \in DOMAIN hs' \cup {None} /\ open' \subseteq open
         /\ table' # None => hs'[table'].st \in {"bound", "binding"}
         /\ fault' \in Faults \cup {None}
<1> USE BaseFields
<1>1. CASE ~RemoveFaults(w) /\ table # None
  <2> DEFINE G == remove(hs[table], w)
  <2>1. table \in DOMAIN hs /\ Fit(hs[table])
    BY <1>1
  <2>2. hs' = [hs EXCEPT ![table] = G] /\ fault' = fault
    BY <1>1 DEF RemoveOrFault, RemoveHandles
  <2>3. hs[table].st = "binding" => ~RemoveLast(hs[table], w)
    BY <1>1 DEF RemoveFaults
  <2>4. Fit(G) /\ (G.st = IF RemoveLast(hs[table], w) THEN "closed" ELSE hs[table].st)
    BY <2>1, <2>3, removeFit
  <2> HIDE DEF G
  <2>7. hs[table].st # "binding" => G.st # "binding"
    BY <2>4
  <2>5. /\ hs' \in Seq(HandleRec) /\ DOMAIN hs' = DOMAIN hs /\ Grown /\ \A h \in DOMAIN hs' : Fit(hs'[h])
    BY <2>1, <2>2, <2>4, <2>7, HandleChanged
  <2>6. table' \in DOMAIN hs' \cup {None} /\ open' \subseteq open
    BY <1>1, <2>1, <2>5 DEF RemoveOrFault, RemoveHandles
  <2>8. table' # None => hs'[table'].st \in {"bound", "binding"}
    <3>1. hs'[table] = G
      BY <2>1, <2>2
    <3>2. table' = IF RemoveLast(hs[table], w) THEN None ELSE table
      BY <1>1 DEF RemoveOrFault, RemoveHandles
    <3> QED BY <1>1, <2>4, <3>1, <3>2
  <2> QED BY <2>2, <2>5, <2>6, <2>8 DEF Base, PrimaryOK
<1>2. CASE RemoveFaults(w)
  BY <1>2, SameGrown DEF RemoveOrFault, Faults
<1>3. CASE ~RemoveFaults(w) /\ table = None
  BY <1>3, SameGrown DEF RemoveOrFault, RemoveHandles, Base, PrimaryOK
<1> QED BY <1>1, <1>2, <1>3

LEMMA PrimaryRemoved ==
  ASSUME Base, NEW w \in Workers, RemoveOrFault(w), policy' = policy, seen' = seen, reg' \in [Workers -> RegRec],
         sent' \in [Conns -> Workers \cup {None}], calls' \in 0 .. MaxCalls
  PROVE  PrimaryOK' /\ Grown
BY RemoveIs DEF PrimaryOK, Base

LEMMA closeBase ==
  ASSUME Base, NEW w \in Workers, close(w)
  PROVE  Base'
<1>1. PrimaryOK' /\ Grown
  BY PrimaryRemoved, BaseFields, CallsOK DEF close
<1>2. UpsOK'
  BY <1>1, UpTaken DEF close, Hears
<1>3. DownsOK'
  BY <1>1, DownSame DEF close
<1>4. WorkersOK'
  BY DEF Base, WorkersOK, close
<1> QED BY <1>1, <1>2, <1>3, <1>4 DEF Base

LEMMA disconnectEventBase ==
  ASSUME Base, NEW w \in Workers, disconnectEvent(w)
  PROVE  Base'
<1>0. reg' \in [Workers -> RegRec]
  <2> DEFINE R == [reg[w] EXCEPT !.connected = FALSE, !.state = "disconnected", !.listed = Listed(w, ~reg[w].dead)]
  <2>1. R \in RegRec
    BY RegFields DEF RegRec, Listed
  <2>2. reg' = reg \/ reg' = [reg EXCEPT ![w] = R]
    BY DEF disconnectEvent
  <2> HIDE DEF R
  <2> QED BY <2>1, <2>2, RegSet, BaseFields
<1>1. PrimaryOK' /\ Grown
  BY <1>0, PrimaryRemoved, BaseFields, CallsOK DEF disconnectEvent
<1>2. UpsOK'
  BY <1>1, UpTaken DEF disconnectEvent, Hears
<1>3. DownsOK'
  BY <1>1, DownSame DEF disconnectEvent
<1>4. WorkersOK'
  BY DEF Base, WorkersOK, disconnectEvent
<1> QED BY <1>1, <1>2, <1>3, <1>4 DEF Base

LEMMA exitEventBase ==
  ASSUME Base, NEW w \in Workers, exitEvent(w)
  PROVE  Base'
<1>0. reg' \in [Workers -> RegRec]
  BY BaseFields, RegFields DEF exitEvent, RegRec, Listed
<1>1. PrimaryOK' /\ Grown
  <2>1. CASE reg[w].connected
    BY <1>0, <2>1, PrimarySame, SameGrown, BaseFields, CallsOK DEF exitEvent
  <2>2. CASE ~reg[w].connected
    BY <1>0, <2>2, PrimaryRemoved, BaseFields, CallsOK DEF exitEvent
  <2> QED BY <2>1, <2>2
<1>2. UpsOK'
  BY <1>1, UpSame DEF exitEvent
<1>3. DownsOK'
  BY <1>1, DownSame DEF exitEvent
<1>4. WorkersOK'
  BY DEF Base, WorkersOK, exitEvent
<1> QED BY <1>1, <1>2, <1>3, <1>4 DEF Base

LEMMA primaryDisconnectBase ==
  ASSUME Base, NEW w \in Workers, primaryDisconnect(w)
  PROVE  Base'
<1>0. reg' \in [Workers -> RegRec]
  BY BaseFields, RegFields DEF primaryDisconnect, RegRec, RemoveFaults
<1>1. Grown
  BY RemoveIs DEF primaryDisconnect
<1>2. UpsOK'
  BY <1>1, UpSame DEF primaryDisconnect
<1> DEFINE S == To(w, <<Msg("disconnect")>>)
<1>3. SendAll(S) /\ \A v \in Workers : AllDown(S[v], hs')
  BY MsgGood, ToGood DEF primaryDisconnect, DownActs
<1> HIDE DEF S
<1>4. DownsOK' /\ sent' \in [Conns -> Workers \cup {None}]
  BY <1>1, <1>3, DownSent
<1>5. WorkersOK'
  BY DEF Base, WorkersOK, primaryDisconnect
<1>6. PrimaryOK'
  BY <1>0, <1>4, PrimaryRemoved, CallsOK DEF primaryDisconnect
<1> QED BY <1>2, <1>4, <1>5, <1>6 DEF Base

(* A query of a worker: the handle that is there, or a new one. *)
LEMMA AddedFit ==
  ASSUME NEW H, Fit(H), NEW w \in Workers, NEW G, G = Added(H, w)
  PROVE  /\ Fit(G) /\ G.all = H.all \cup {w} /\ G.st = H.st /\ G.conns = H.conns /\ G.kind = H.kind
         /\ G.waiting = H.waiting /\ G.free = H.free
<1> H \in HandleRec
  BY DEF Fit
<1> DEFINE a == H.all \cup {w}
<1>1. a \in SUBSET Workers /\ G = [H EXCEPT !.all = a]
  BY HandleFields DEF Added
<1> HIDE DEF a
<1>2. /\ G \in HandleRec /\ G.all = a /\ G.st = H.st /\ G.conns = H.conns /\ G.kind = H.kind
      /\ G.waiting = H.waiting /\ G.free = H.free
  BY <1>1 DEF HandleRec
<1> QED BY <1>2 DEF Fit, a

LEMMA NewFit ==
  ASSUME NEW w \in Workers, NEW kind \in Policies, NEW G, G = Added(NewHandle(kind, "bound"), w)
  PROVE  /\ Fit(G) /\ G.all = {w} /\ G.conns = <<>> /\ G.kind = kind /\ G.waiting = <<>> /\ G.st = "bound" /\ G.free = <<>>
<1> DEFINE N == NewHandle(kind, "bound")
           e == <<>>
<1>1. N = [kind |-> kind, all |-> {}, free |-> e, conns |-> e, st |-> "bound", waiting |-> e]
  BY DEF NewHandle
<1>2. e \in Seq(Workers) /\ e \in Seq(Conns) /\ "bound" \in {"binding", "bound", "failed", "closed"}
  OBVIOUS
<1>4. Distinct(e) /\ \A t : ~In(e, t)
  BY DEF Distinct, In
<1> HIDE DEF e
<1>3. N \in HandleRec /\ N.all = {} /\ N.free = e /\ N.conns = e /\ N.st = "bound" /\ N.waiting = e /\ N.kind = kind
  BY <1>1, <1>2 DEF HandleRec
<1>5. e = <<>>
  BY DEF e
<1> HIDE DEF N
<1>6. Fit(N)
  BY <1>3, <1>4, <1>5 DEF Fit
<1>7. G = Added(N, w)
  BY DEF N
<1> QED BY <1>3, <1>5, <1>6, <1>7, AddedFit

(* The answer of add(), and the connection that may go with it. *)
LEMMA AnswerOK ==
  ASSUME Base, Grown, NEW w \in Workers, NEW h \in DOMAIN hs', h \in Nat, hs'[h].st # "binding",
         NEW H \in HandleRec, NEW ok \in BOOLEAN, Answer(H, h, w, ok)
  PROVE  /\ DownsOK' /\ sent' \in [Conns -> Workers \cup {None}]
         /\ \A v \in Workers : down'[v] =
              IF v = w /\ Sendable(w)
              THEN down[w] \o (<<ConnMsg("reply", None, h, ok)>> \o (IF ok THEN handoffSends(H, h, w) ELSE <<>>))
              ELSE down[v]
<1> DEFINE ms == <<ConnMsg("reply", None, h, ok)>> \o (IF ok THEN handoffSends(H, h, w) ELSE <<>>)
           S == To(w, ms)
<1>1. AllDown(<<ConnMsg("reply", None, h, ok)>>, hs') /\ AllDown(IF ok THEN handoffSends(H, h, w) ELSE <<>>, hs')
  BY ReplyGood, handoffSendsGood, EmptyGood
<1>2. AllDown(ms, hs')
  BY <1>1, AllDownCat
<1>3. SendAll(S)
  BY DEF Answer
<1>4. \A v \in Workers : AllDown(S[v], hs') /\ S[v] = IF v = w THEN ms ELSE <<>>
  <2> HIDE DEF ms
  <2>1. \A v \in Workers : AllDown(S[v], hs')
    BY <1>2, ToGood
  <2>2. \A v \in Workers : S[v] = IF v = w THEN ms ELSE <<>>
    BY ToIs
  <2> QED BY <2>1, <2>2
<1> HIDE DEF ms, S
<1>5. /\ DownsOK' /\ sent' \in [Conns -> Workers \cup {None}]
      /\ \A v \in Workers : down'[v] = IF Sendable(v) THEN down[v] \o S[v] ELSE down[v]
  BY <1>3, <1>4, DownSent
<1>6. \A v \in Workers : down[v] \in Seq(DownMsg) /\ down[v] \o <<>> = down[v]
  BY DEF Base, DownsOK
<1>7. \A v \in Workers : down'[v] = IF v = w /\ Sendable(w) THEN down[w] \o ms ELSE down[v]
  BY <1>4, <1>5, <1>6
<1> QED BY <1>5, <1>7 DEF ms

(* The cases of queryServer(), and what each makes of the handles. *)
JoinBound(w, G) ==
  /\ Cached(w) /\ hs[table].st = "bound" /\ table' = table
  /\ LET H == Added(hs[table], w) IN G = (IF H.kind = "rr" THEN handoff(H, w) ELSE H)
  /\ hs' = [hs EXCEPT ![table] = G] /\ Answer(Added(hs[table], w), table, w, TRUE)
JoinBinding(w, G) ==
  /\ Cached(w) /\ hs[table].st # "bound" /\ UNCHANGED <<table, down, sent>>
  /\ LET H == Added(hs[table], w) IN G = [H EXCEPT !.waiting = Append(@, w)]
  /\ hs' = [hs EXCEPT ![table] = G]
Opens(w, G) ==
  LET H == Added(NewHandle(policy, "bound"), w) IN
  /\ ~Cached(w) /\ table' = Len(hs) + 1 /\ G = (IF policy = "rr" THEN handoff(H, w) ELSE H)
  /\ hs' = Append(hs, G) /\ Answer(H, Len(hs) + 1, w, TRUE)
OpenFails(w, G) ==
  LET H == Added(NewHandle(policy, "bound"), w) IN
  /\ ~Cached(w) /\ table' = table /\ G = [H EXCEPT !.st = "failed"]
  /\ hs' = Append(hs, G) /\ Answer(H, Len(hs) + 1, w, FALSE)
OpenBinds(w, G) ==
  LET H == Added(NewHandle(policy, "bound"), w) IN
  /\ ~Cached(w) /\ table' = (IF table = None THEN Len(hs) + 1 ELSE table)
  /\ G = [H EXCEPT !.st = "binding", !.waiting = <<w>>] /\ hs' = Append(hs, G) /\ UNCHANGED <<down, sent>>

LEMMA queryCases ==
  ASSUME NEW w, queryServer(w)
  PROVE  \E G : JoinBound(w, G) \/ JoinBinding(w, G) \/ Opens(w, G) \/ OpenFails(w, G) \/ OpenBinds(w, G)
<1> USE DEF JoinBound, JoinBinding, Opens, OpenFails, OpenBinds
<1>1. CASE Cached(w) /\ hs[table].st = "bound"
  BY <1>1, Zenon DEF queryServer
<1>2. CASE Cached(w) /\ hs[table].st # "bound"
  BY <1>2, Zenon DEF queryServer
<1>3. CASE ~Cached(w)
  BY <1>3, Zenon DEF queryServer
<1> QED BY <1>1, <1>2, <1>3

LEMMA JoinBoundIs ==
  ASSUME Base, NEW w \in Workers, NEW G, JoinBound(w, G)
  PROVE  /\ table \in DOMAIN hs /\ Fit(G) /\ G.st = "bound" /\ G.all = hs[table].all \cup {w}
         /\ G.conns = IF hs[table].kind = "rr" /\ hs[table].conns # <<>> THEN Tail(hs[table].conns) ELSE hs[table].conns
         /\ Fit(Added(hs[table], w)) /\ Added(hs[table], w).conns = hs[table].conns
         /\ Added(hs[table], w).all = hs[table].all \cup {w}
<1>1. table \in DOMAIN hs /\ Fit(hs[table])
  BY BaseFields DEF JoinBound, Cached
<1> DEFINE A == Added(hs[table], w)
<1>2. Fit(A) /\ A.all = hs[table].all \cup {w} /\ A.st = "bound" /\ A.conns = hs[table].conns /\ A.kind = hs[table].kind
  BY <1>1, AddedFit DEF JoinBound
<1>3. G = IF hs[table].kind = "rr" THEN handoff(A, w) ELSE A
  BY <1>2 DEF JoinBound
<1> HIDE DEF A
<1>4. CASE hs[table].kind = "rr"
  <2>1. Fit(G) /\ Kept(G, A) /\ G.conns = IF w \in A.all /\ A.conns # <<>> THEN Tail(A.conns) ELSE A.conns
    BY <1>2, <1>3, <1>4, handoffFit
  <2> QED BY <1>1, <1>2, <1>4, <2>1 DEF Kept, A
<1>5. CASE hs[table].kind # "rr"
  BY <1>1, <1>2, <1>3, <1>5 DEF A
<1> QED BY <1>4, <1>5

LEMMA JoinBindingIs ==
  ASSUME Base, NEW w \in Workers, NEW G, JoinBinding(w, G), hs[table].st = "binding"
  PROVE  /\ table \in DOMAIN hs /\ Fit(G) /\ G.st = "binding" /\ G.all = hs[table].all \cup {w}
         /\ G.conns = hs[table].conns /\ G.waiting = Append(hs[table].waiting, w)
<1>1. table \in DOMAIN hs /\ Fit(hs[table])
  BY BaseFields DEF JoinBinding, Cached
<1> DEFINE A == Added(hs[table], w)
           q == Append(hs[table].waiting, w)
<1>2. /\ Fit(A) /\ A.all = hs[table].all \cup {w} /\ A.st = "binding" /\ A.conns = hs[table].conns
      /\ A.waiting = hs[table].waiting
  BY <1>1, AddedFit
<1>3. G = [A EXCEPT !.waiting = q]
  BY <1>2 DEF JoinBinding
<1>4. q \in Seq(Workers)
  BY <1>1, HandleFields DEF Fit
<1> HIDE DEF A, q
<1>5. G \in HandleRec /\ G.waiting = q /\ G.all = A.all /\ G.conns = A.conns /\ G.st = A.st /\ G.free = A.free
  BY <1>2, <1>3, <1>4 DEF HandleRec, Fit
<1>6. Fit(G)
  BY <1>2, <1>5 DEF Fit
<1> QED BY <1>1, <1>2, <1>5, <1>6 DEF q

(* The primary's part, when a handle is made or changes. *)
LEMMA PrimaryHandles ==
  ASSUME Base, policy' = policy, reg' = reg, seen' \subseteq Conns, open' \subseteq seen', calls' = calls,
         fault' \in Faults \cup {None}, sent' \in [Conns -> Workers \cup {None}],
         hs' \in Seq(HandleRec), \A h \in DOMAIN hs' : Fit(hs'[h]),
         table' = None \/ (table' \in DOMAIN hs' /\ hs'[table'].st \in {"bound", "binding"})
  PROVE  PrimaryOK'
<1>1. policy' \in Policies /\ reg' \in [Workers -> RegRec] /\ calls' \in 0 .. MaxCalls
  BY DEF Base, PrimaryOK
<1> QED BY <1>1 DEF PrimaryOK

LEMMA OpensIs ==
  ASSUME Base, NEW w \in Workers, NEW G, Opens(w, G) \/ OpenFails(w, G) \/ OpenBinds(w, G)
  PROVE  /\ Fit(G) /\ G.all = {w} /\ G.conns = <<>>
         /\ Opens(w, G) => G.st = "bound"
         /\ OpenFails(w, G) => G.st = "failed"
         /\ OpenBinds(w, G) => G.st = "binding" /\ G.waiting = <<w>>
         /\ Fit(Added(NewHandle(policy, "bound"), w)) /\ Added(NewHandle(policy, "bound"), w).conns = <<>>
<1> DEFINE A == Added(NewHandle(policy, "bound"), w)
<1>1. /\ Fit(A) /\ A.all = {w} /\ A.conns = <<>> /\ A.waiting = <<>> /\ A.st = "bound" /\ A.free = <<>>
  BY BaseFields, NewFit
<1>2. /\ Opens(w, G) => G = IF policy = "rr" THEN handoff(A, w) ELSE A
      /\ OpenFails(w, G) => G = [A EXCEPT !.st = "failed"]
      /\ OpenBinds(w, G) => G = [A EXCEPT !.st = "binding", !.waiting = <<w>>]
  BY DEF Opens, OpenFails, OpenBinds
<1> HIDE DEF A
<1>3. A \in HandleRec
  BY <1>1 DEF Fit
<1>4. Opens(w, G) => Fit(G) /\ G.all = {w} /\ G.conns = <<>> /\ G.st = "bound"
  <2>1. CASE policy = "rr"
    <3> SUFFICES ASSUME G = handoff(A, w) PROVE Fit(G) /\ G.all = {w} /\ G.conns = <<>> /\ G.st = "bound"
      BY <1>2, <2>1
    <3>1. Fit(G) /\ Kept(G, A) /\ G.conns = IF w \in A.all /\ A.conns # <<>> THEN Tail(A.conns) ELSE A.conns
      BY <1>1, handoffFit
    <3> QED BY <1>1, <3>1 DEF Kept
  <2> QED BY <1>1, <1>2, <2>1
<1>5. OpenFails(w, G) => Fit(G) /\ G.all = {w} /\ G.conns = <<>> /\ G.st = "failed"
  <2> SUFFICES ASSUME G = [A EXCEPT !.st = "failed"]
               PROVE  Fit(G) /\ G.all = {w} /\ G.conns = <<>> /\ G.st = "failed"
    BY <1>2
  <2>1. /\ G \in HandleRec /\ G.all = A.all /\ G.conns = A.conns /\ G.st = "failed"
        /\ G.free = A.free /\ G.waiting = A.waiting
    BY <1>3 DEF HandleRec
  <2> QED BY <1>1, <2>1 DEF Fit
<1>6. OpenBinds(w, G) => Fit(G) /\ G.all = {w} /\ G.conns = <<>> /\ G.st = "binding" /\ G.waiting = <<w>>
  <2> DEFINE q == <<w>>
  <2> SUFFICES ASSUME G = [A EXCEPT !.st = "binding", !.waiting = q]
               PROVE  Fit(G) /\ G.all = {w} /\ G.conns = <<>> /\ G.st = "binding" /\ G.waiting = q
    BY <1>2
  <2>1. q \in Seq(Workers)
    OBVIOUS
  <2> HIDE DEF q
  <2>2. /\ G \in HandleRec /\ G.all = A.all /\ G.conns = A.conns /\ G.st = "binding"
        /\ G.free = A.free /\ G.waiting = q
    BY <1>3, <2>1 DEF HandleRec
  <2> QED BY <1>1, <2>2 DEF Fit
<1> QED BY <1>1, <1>4, <1>5, <1>6 DEF A

LEMMA queryServerBase ==
  ASSUME Base, NEW w \in Workers, queryServer(w)
  PROVE  Base' /\ Grown
<1>0. /\ UNCHANGED <<policy, reg, fault, proc, open, served, seen, calls>>
      /\ up' = Take(up, w) /\ up[w] # <<>>
  BY DEF queryServer, Hears
<1>1. WorkersOK'
  BY <1>0 DEF Base, WorkersOK
<1>2. fault' \in Faults \cup {None} /\ seen' \subseteq Conns /\ open' \subseteq seen'
  BY <1>0 DEF Base, PrimaryOK
<1>3. PICK G : JoinBound(w, G) \/ JoinBinding(w, G) \/ Opens(w, G) \/ OpenFails(w, G) \/ OpenBinds(w, G)
  BY queryCases
<1>4. CASE JoinBound(w, G)
  <2>1. table \in DOMAIN hs /\ Fit(G) /\ G.st = "bound" /\ Fit(Added(hs[table], w))
    BY <1>4, JoinBoundIs
  <2>2. hs' = [hs EXCEPT ![table] = G] /\ table' = table
    BY <1>4 DEF JoinBound
  <2>3. /\ hs' \in Seq(HandleRec) /\ DOMAIN hs' = DOMAIN hs /\ hs'[table] = G /\ Grown
        /\ \A h \in DOMAIN hs' : Fit(hs'[h])
    BY <2>1, <2>2, HandleChanged
  <2>4. table \in Nat /\ Answer(Added(hs[table], w), table, w, TRUE)
    <3>1. table \in Nat
      BY <2>1, BaseFields
    <3> QED BY <1>4, <3>1 DEF JoinBound
  <2>5. DownsOK' /\ sent' \in [Conns -> Workers \cup {None}]
    <3> DEFINE A == Added(hs[table], w)
    <3>1. A \in HandleRec /\ Answer(A, table, w, TRUE) /\ table \in DOMAIN hs' /\ hs'[table].st # "binding"
      BY <2>1, <2>3, <2>4 DEF Fit
    <3> HIDE DEF A
    <3> QED BY <2>3, <2>4, <3>1, AnswerOK
  <2>6. PrimaryOK'
    BY <1>0, <1>2, <2>1, <2>2, <2>3, <2>5, PrimaryHandles
  <2>7. UpsOK'
    BY <1>0, <2>3, UpTaken
  <2> QED BY <1>1, <2>3, <2>5, <2>6, <2>7 DEF Base
<1>5. CASE JoinBinding(w, G)
  <2>0. hs[table].st = "binding"
    BY <1>5, BaseFields DEF JoinBinding, Cached
  <2>1. table \in DOMAIN hs /\ Fit(G) /\ G.st = "binding"
    BY <1>5, <2>0, JoinBindingIs
  <2>2. hs' = [hs EXCEPT ![table] = G] /\ table' = table /\ down' = down /\ sent' = sent
    BY <1>5 DEF JoinBinding
  <2>3. /\ hs' \in Seq(HandleRec) /\ DOMAIN hs' = DOMAIN hs /\ hs'[table] = G /\ Grown
        /\ \A h \in DOMAIN hs' : Fit(hs'[h])
    BY <2>0, <2>1, <2>2, HandleChanged
  <2>4. sent' \in [Conns -> Workers \cup {None}]
    BY <2>2, BaseFields
  <2>6. PrimaryOK'
    BY <1>0, <1>2, <2>1, <2>2, <2>3, <2>4, PrimaryHandles
  <2>7. UpsOK' /\ DownsOK'
    BY <1>0, <2>2, <2>3, UpTaken, DownSame
  <2> QED BY <1>1, <2>3, <2>6, <2>7 DEF Base
<1>6. CASE Opens(w, G) \/ OpenFails(w, G) \/ OpenBinds(w, G)
  <2> DEFINE h == Len(hs) + 1
             A == Added(NewHandle(policy, "bound"), w)
  <2>1. /\ Fit(G) /\ Fit(A) /\ (Opens(w, G) => G.st = "bound") /\ (OpenFails(w, G) => G.st = "failed")
        /\ OpenBinds(w, G) => G.st = "binding"
    BY <1>6, OpensIs
  <2>2. hs' = Append(hs, G)
    BY <1>6 DEF Opens, OpenFails, OpenBinds
  <2>3. /\ hs' \in Seq(HandleRec) /\ DOMAIN hs' = DOMAIN hs \cup {h} /\ hs'[h] = G /\ Grown
        /\ \A k \in DOMAIN hs' : Fit(hs'[k])
        /\ \A k \in DOMAIN hs : hs'[k] = hs[k]
    BY <2>1, <2>2, HandleAppended
  <2>4. /\ Opens(w, G) => Answer(A, h, w, TRUE) /\ table' = h
        /\ OpenFails(w, G) => Answer(A, h, w, FALSE) /\ table' = table
        /\ OpenBinds(w, G) => UNCHANGED <<down, sent>> /\ table' = IF table = None THEN h ELSE table
    BY DEF Opens, OpenFails, OpenBinds
  <2> HIDE DEF A
  <2>5. h \in Nat /\ h \in DOMAIN hs' /\ A \in HandleRec
    BY <2>1, <2>3, BaseFields DEF Fit
  <2>6. DownsOK' /\ sent' \in [Conns -> Workers \cup {None}]
    <3>1. CASE Opens(w, G)
      BY <2>1, <2>3, <2>4, <2>5, <3>1, AnswerOK
    <3>2. CASE OpenFails(w, G)
      BY <2>1, <2>3, <2>4, <2>5, <3>2, AnswerOK
    <3>3. CASE OpenBinds(w, G)
      BY <2>3, <2>4, <3>3, DownSame, BaseFields
    <3> QED BY <1>6, <3>1, <3>2, <3>3
  <2>7. table' = None \/ (table' \in DOMAIN hs' /\ hs'[table'].st \in {"bound", "binding"})
    BY <1>6, <2>1, <2>3, <2>4, BaseFields
  <2>8. PrimaryOK'
    BY <1>0, <1>2, <2>3, <2>6, <2>7, PrimaryHandles
  <2>9. UpsOK'
    BY <1>0, <2>3, UpTaken
  <2> QED BY <1>1, <2>3, <2>6, <2>8, <2>9 DEF Base
<1> QED BY <1>3, <1>4, <1>5, <1>6

(* 'listening' and 'error' of the primary's server. *)
BoundTo(h) == handoffAll([hs[h] EXCEPT !.st = "bound", !.waiting = <<>>], hs[h].waiting)
LEMMA BoundIs ==
  ASSUME Base, NEW h \in DOMAIN hs, hs[h].st = "binding"
  PROVE  /\ Fit(BoundTo(h)) /\ BoundTo(h).st = "bound" /\ BoundTo(h).all = hs[h].all
         /\ BoundTo(h).conns = <<>> /\ BoundTo(h).waiting = <<>>
<1> DEFINE H == hs[h]
           e == <<>>
           A == [H EXCEPT !.st = "bound", !.waiting = e]
           G == BoundTo(h)
<1>1. Fit(H) /\ H.st = "binding"
  BY BaseFields
<1>2. H \in HandleRec /\ e \in Seq(Workers) /\ H.waiting \in Seq(Workers)
  BY <1>1, HandleFields DEF Fit
<1>3. G = handoffAll(A, H.waiting)
  BY DEF BoundTo
<1> HIDE DEF e, H
<1>4. /\ A \in HandleRec /\ A.st = "bound" /\ A.waiting = e /\ A.all = H.all /\ A.free = H.free /\ A.conns = H.conns
  BY <1>2 DEF HandleRec
<1>5. Fit(A) /\ A.conns = <<>>
  BY <1>1, <1>4 DEF Fit, e
<1> HIDE DEF A, G
<1>6. Fit(G) /\ Kept(G, A) /\ G.conns = <<>>
  BY <1>2, <1>3, <1>4, <1>5, handoffAllFit
<1>7. Fit(G) /\ G.st = "bound" /\ G.all = hs[h].all /\ G.conns = <<>> /\ G.waiting = <<>>
  BY <1>4, <1>6 DEF Kept, e, H
<1> QED BY <1>7 DEF G

LEMMA boundBase ==
  ASSUME Base, NEW h \in DOMAIN hs, bound(h)
  PROVE  Base' /\ Grown
<1> DEFINE G == BoundTo(h)
           S == [w \in Workers |-> IF w \in ToSet(hs[h].waiting) THEN <<ConnMsg("reply", None, h, TRUE)>> ELSE <<>>]
<1>1. hs' = [hs EXCEPT ![h] = G] /\ SendAll(S) /\ (table' = table \/ table' = h)
  BY DEF bound, BoundTo
<1>2. Fit(G) /\ G.st = "bound"
  BY BoundIs DEF bound
<1> HIDE DEF G
<1>3. /\ hs' \in Seq(HandleRec) /\ DOMAIN hs' = DOMAIN hs /\ hs'[h] = G /\ Grown
      /\ \A k \in DOMAIN hs' : Fit(hs'[k])
      /\ \A k \in DOMAIN hs : k # h => hs'[k] = hs[k]
  BY <1>1, <1>2, HandleChanged
<1>4. \A v \in Workers : AllDown(S[v], hs')
  <2>1. h \in Nat
    BY BaseFields
  <2> QED BY <2>1, ReplyGood, EmptyGood
<1> HIDE DEF S
<1>5. DownsOK' /\ sent' \in [Conns -> Workers \cup {None}]
  BY <1>1, <1>3, <1>4, DownSent
<1>6. table' = None \/ (table' \in DOMAIN hs' /\ hs'[table'].st \in {"bound", "binding"})
  BY <1>1, <1>2, <1>3, BaseFields
<1>7. /\ UNCHANGED <<policy, reg, fault, up, proc, open, served, seen, calls>>
  BY DEF bound
<1>8. fault' \in Faults \cup {None} /\ seen' \subseteq Conns /\ open' \subseteq seen'
  BY <1>7 DEF Base, PrimaryOK
<1>9. PrimaryOK'
  BY <1>3, <1>5, <1>6, <1>7, <1>8, PrimaryHandles
<1>10. UpsOK' /\ WorkersOK'
  BY <1>3, <1>7, UpSame DEF Base, WorkersOK
<1> QED BY <1>3, <1>5, <1>9, <1>10 DEF Base

FailedTo(h) == [hs[h] EXCEPT !.st = "failed", !.waiting = <<>>]
LEMMA FailedIs ==
  ASSUME Base, NEW h \in DOMAIN hs, bindFailed(h)
  PROVE  /\ Fit(FailedTo(h)) /\ FailedTo(h).st = "failed" /\ FailedTo(h).all = hs[h].all
         /\ FailedTo(h).conns = hs[h].conns /\ FailedTo(h).waiting = <<>>
         /\ hs' = [hs EXCEPT ![h] = FailedTo(h)]
<1> DEFINE H == hs[h]
           e == <<>>
           A == [H EXCEPT !.st = "failed", !.waiting = e]
<1>1. Fit(H) /\ H.st = "binding"
  BY BaseFields DEF bindFailed
<1>2. H \in HandleRec /\ e \in Seq(Workers)
  BY <1>1 DEF Fit
<1>3. hs' = [hs EXCEPT ![h] = A]
  BY BaseFields DEF bindFailed
<1> HIDE DEF e, H
<1>4. /\ A \in HandleRec /\ A.st = "failed" /\ A.waiting = e /\ A.all = H.all /\ A.free = H.free /\ A.conns = H.conns
  BY <1>2 DEF HandleRec
<1>5. Fit(A)
  BY <1>1, <1>4 DEF Fit, e
<1> QED BY <1>3, <1>4, <1>5 DEF FailedTo, e, H

LEMMA bindFailedBase ==
  ASSUME Base, NEW h \in DOMAIN hs, bindFailed(h)
  PROVE  Base' /\ Grown
<1> DEFINE G == FailedTo(h)
           told == IF table = h THEN {Head(hs[h].waiting)} ELSE ToSet(hs[h].waiting)
           S == [w \in Workers |-> IF w \in told THEN <<ConnMsg("reply", None, h, FALSE)>> ELSE <<>>]
<1>1. hs' = [hs EXCEPT ![h] = G] /\ table' = IF table = h THEN None ELSE table
  BY FailedIs DEF bindFailed
<1>11. SendAll(S)
  BY DEF bindFailed
<1>2. Fit(G) /\ G.st = "failed"
  BY FailedIs
<1> HIDE DEF G, told
<1>12. hs[h].st = "binding"
  BY DEF bindFailed
<1>3. /\ hs' \in Seq(HandleRec) /\ DOMAIN hs' = DOMAIN hs /\ hs'[h] = G /\ Grown
      /\ \A k \in DOMAIN hs' : Fit(hs'[k])
      /\ \A k \in DOMAIN hs : k # h => hs'[k] = hs[k]
  BY <1>1, <1>2, <1>12, HandleChanged
<1>4. \A v \in Workers : AllDown(S[v], hs')
  <2>1. h \in Nat
    BY BaseFields
  <2> QED BY <2>1, ReplyGood, EmptyGood
<1> HIDE DEF S
<1>5. DownsOK' /\ sent' \in [Conns -> Workers \cup {None}]
  BY <1>11, <1>3, <1>4, DownSent
<1>6. table' = None \/ (table' \in DOMAIN hs' /\ hs'[table'].st \in {"bound", "binding"})
  BY <1>1, <1>3, BaseFields
<1>7. /\ UNCHANGED <<policy, reg, up, proc, open, served, seen, calls>>
  BY DEF bindFailed
<1>8. fault' \in Faults \cup {None} /\ seen' \subseteq Conns /\ open' \subseteq seen'
  BY <1>7 DEF Base, PrimaryOK, bindFailed, Faults
<1>9. PrimaryOK'
  BY <1>3, <1>5, <1>6, <1>7, <1>8, PrimaryHandles
<1>10. UpsOK' /\ WorkersOK'
  BY <1>3, <1>7, UpSame DEF Base, WorkersOK
<1> QED BY <1>3, <1>5, <1>9, <1>10 DEF Base

(* The answer to newconn: a connection that is sent back goes to another worker. *)
AckedTo(m) == IF m.ok THEN hs[m.h] ELSE redistribute(hs[m.h], m.c)
AckSends(m) == IF m.ok THEN [x \in Workers |-> <<>>] ELSE distributeSends(hs[m.h], m.h, m.c)
LEMMA AckIs ==
  ASSUME Base, NEW w \in Workers, ackNewconn(w), NEW m, m = Head(up[w])
  PROVE  /\ m.c \in Conns /\ m.h \in DOMAIN hs /\ hs[m.h].st # "binding" /\ m.ok \in BOOLEAN /\ m \in UpMsg
         /\ Fit(AckedTo(m)) /\ Kept(AckedTo(m), hs[m.h])
         /\ AckedTo(m).conns = IF m.ok THEN hs[m.h].conns
                               ELSE IF hs[m.h].free = <<>> THEN Append(hs[m.h].conns, m.c) ELSE <<>>
         /\ hs' = [hs EXCEPT ![m.h] = handoff(AckedTo(m), w)]
         /\ open' = IF m.ok THEN open \ {m.c} ELSE open
         /\ SendAll([x \in Workers |-> IF x = w THEN AckSends(m)[x] \o handoffSends(AckedTo(m), m.h, w)
                                       ELSE AckSends(m)[x]])
<1>1. GoodUp(m, hs)
  <2>1. up[w] # <<>> /\ AllUp(up[w], hs)
    BY DEF Base, UpsOK, ackNewconn, Hears
  <2> QED BY <2>1, TailGood
<1>2. m.act = "ackNewconn"
  BY DEF ackNewconn, Hears
<1>3. m.c \in Conns /\ m.h \in DOMAIN hs /\ hs[m.h].st # "binding" /\ m.ok \in BOOLEAN /\ m \in UpMsg
  BY <1>1, <1>2 DEF GoodUp, Carries, UpMsg
<1>4. Fit(hs[m.h])
  BY <1>3, BaseFields
<1>5. /\ Fit(AckedTo(m)) /\ Kept(AckedTo(m), hs[m.h])
      /\ AckedTo(m).conns = IF m.ok THEN hs[m.h].conns
                            ELSE IF hs[m.h].free = <<>> THEN Append(hs[m.h].conns, m.c) ELSE <<>>
  <2>1. CASE m.ok
    BY <1>4, <2>1 DEF AckedTo, Kept
  <2>2. CASE ~m.ok
    <3> DEFINE H == hs[m.h]
               G == distribute(H, m.c)
    <3>1. Fit(H) /\ H.st # "binding"
      BY <1>3, <1>4
    <3> HIDE DEF H
    <3>2. /\ Fit(G) /\ Kept(G, H) /\ G.conns = IF H.free = <<>> THEN Append(H.conns, m.c) ELSE <<>>
      BY <1>3, <3>1, distributeFit
    <3>3. AckedTo(m) = G
      BY <2>2 DEF AckedTo, redistribute, H
    <3> QED BY <2>2, <3>2, <3>3 DEF H
  <2> QED BY <2>1, <2>2
<1>6. /\ hs' = [hs EXCEPT ![m.h] = handoff(AckedTo(m), w)]
      /\ open' = IF m.ok THEN open \ {m.c} ELSE open
  BY DEF ackNewconn, AckedTo
<1>7. SendAll([x \in Workers |-> IF x = w THEN AckSends(m)[x] \o handoffSends(AckedTo(m), m.h, w)
                                 ELSE AckSends(m)[x]])
  <2>1. To(w, <<>>) = [x \in Workers |-> <<>>]
    BY DEF To
  <2> QED BY <2>1 DEF ackNewconn, AckedTo, AckSends
<1> QED BY <1>3, <1>5, <1>6, <1>7

LEMMA ackNewconnBase ==
  ASSUME Base, NEW w \in Workers, ackNewconn(w)
  PROVE  Base' /\ Grown
<1> DEFINE m == Head(up[w])
           h == m.h
           D == AckedTo(m)
           G == handoff(D, w)
           S == [x \in Workers |-> IF x = w THEN AckSends(m)[x] \o handoffSends(D, h, w) ELSE AckSends(m)[x]]
<1>1. /\ m.c \in Conns /\ h \in DOMAIN hs /\ hs[h].st # "binding" /\ m.ok \in BOOLEAN
      /\ Fit(D) /\ Kept(D, hs[h])
      /\ hs' = [hs EXCEPT ![h] = G] /\ open' = (IF m.ok THEN open \ {m.c} ELSE open) /\ SendAll(S)
  BY AckIs
<1>2. \A x \in Workers : AckSends(m)[x] = IF m.ok THEN <<>> ELSE distributeSends(hs[h], h, m.c)[x]
  BY DEF AckSends
<1> HIDE DEF m, h, D, G
<1>3. Fit(G) /\ G.st # "binding"
  <2>1. D.st # "binding"
    BY <1>1 DEF Kept
  <2>2. Fit(G) /\ Kept(G, D)
    BY <1>1, <2>1, handoffFit DEF G
  <2> QED BY <2>1, <2>2 DEF Kept
<1>4. /\ hs' \in Seq(HandleRec) /\ DOMAIN hs' = DOMAIN hs /\ hs'[h] = G /\ Grown
      /\ \A k \in DOMAIN hs' : Fit(hs'[k])
      /\ \A k \in DOMAIN hs : k # h => hs'[k] = hs[k]
  BY <1>1, <1>3, HandleChanged
<1>5. h \in Nat /\ h \in DOMAIN hs' /\ hs'[h].st # "binding" /\ Fit(hs[h])
  BY <1>1, <1>3, <1>4, BaseFields
<1>6. \A x \in Workers : AllDown(AckSends(m)[x], hs')
  BY <1>1, <1>2, <1>5, distributeSendsGood, EmptyGood
<1>7. AllDown(handoffSends(D, h, w), hs')
  <2>1. D \in HandleRec
    BY <1>1 DEF Fit
  <2> QED BY <1>5, <2>1, handoffSendsGood
<1>8. \A x \in Workers : AllDown(S[x], hs')
  <2>1. AllDown(AckSends(m)[w] \o handoffSends(D, h, w), hs')
    BY <1>6, <1>7, AllDownCat
  <2> QED BY <1>6, <2>1
<1> HIDE DEF S
<1>9. DownsOK' /\ sent' \in [Conns -> Workers \cup {None}]
  BY <1>1, <1>4, <1>8, DownSent
<1>10. UNCHANGED <<policy, reg, table, fault, proc, served, seen, calls>> /\ up' = Take(up, w) /\ up[w] # <<>>
  BY DEF ackNewconn, Hears
<1>11. fault' \in Faults \cup {None} /\ seen' \subseteq Conns /\ open' \subseteq seen'
  BY <1>1, <1>10 DEF Base, PrimaryOK
<1>12. table' = None \/ (table' \in DOMAIN hs' /\ hs'[table'].st \in {"bound", "binding"})
  <2>1. G.st = hs[h].st
    <3>1. D.st = hs[h].st /\ D.st # "binding"
      BY <1>1 DEF Kept
    <3>2. Kept(G, D)
      BY <1>1, <3>1, handoffFit DEF G
    <3> QED BY <3>1, <3>2 DEF Kept
  <2> QED BY <1>4, <1>10, <2>1, BaseFields
<1>13. PrimaryOK'
  BY <1>4, <1>9, <1>10, <1>11, <1>12, PrimaryHandles
<1>14. UpsOK' /\ WorkersOK'
  BY <1>4, <1>10, UpTaken DEF Base, WorkersOK
<1> QED BY <1>4, <1>9, <1>13, <1>14 DEF Base

LEMMA connectionBase ==
  ASSUME Base, NEW c \in Conns, connection(c)
  PROVE  Base' /\ Grown
<1> DEFINE H == hs[table]
           G == distribute(H, c)
           S == distributeSends(H, table, c)
<1>1. /\ table \in DOMAIN hs /\ Fit(H) /\ H.st = "bound" /\ hs' = [hs EXCEPT ![table] = G] /\ SendAll(S)
      /\ UNCHANGED <<policy, reg, table, fault, up, proc, served, calls>>
      /\ seen' = seen \cup {c} /\ open' = open \cup {c}
  BY BaseFields DEF connection
<1> HIDE DEF H
<1>2. Fit(G) /\ Kept(G, H)
  BY <1>1, distributeFit
<1> HIDE DEF G
<1>3. G.st = "bound"
  BY <1>1, <1>2 DEF Kept
<1>4. /\ hs' \in Seq(HandleRec) /\ DOMAIN hs' = DOMAIN hs /\ hs'[table] = G /\ Grown
      /\ \A k \in DOMAIN hs' : Fit(hs'[k])
  BY <1>1, <1>2, <1>3, HandleChanged
<1>5. table \in Nat /\ table \in DOMAIN hs' /\ hs'[table].st # "binding"
  BY <1>1, <1>3, <1>4, BaseFields
<1>6. \A x \in Workers : AllDown(S[x], hs')
  BY <1>1, <1>5, distributeSendsGood
<1> HIDE DEF S
<1>7. DownsOK' /\ sent' \in [Conns -> Workers \cup {None}]
  BY <1>1, <1>4, <1>6, DownSent
<1>8. fault' \in Faults \cup {None} /\ seen' \subseteq Conns /\ open' \subseteq seen'
  BY <1>1 DEF Base, PrimaryOK
<1>9. table' = None \/ (table' \in DOMAIN hs' /\ hs'[table'].st \in {"bound", "binding"})
  BY <1>1, <1>3, <1>4
<1>10. PrimaryOK'
  BY <1>1, <1>4, <1>7, <1>8, <1>9, PrimaryHandles
<1>11. UpsOK' /\ WorkersOK'
  BY <1>1, <1>4, UpSame DEF Base, WorkersOK
<1> QED BY <1>4, <1>7, <1>10, <1>11 DEF Base

(* A worker acts: it changes, and it may tell the primary something. *)
LEMMA WorkerActs ==
  ASSUME Base, UNCHANGED <<policy, primary, fault, down, sent, seen>>, calls' \in 0 .. MaxCalls,
         WorkersOK', NEW w \in Workers, up' = up \/ (\E ms : AllUp(ms, hs) /\ Tell(w, ms))
  PROVE  Base' /\ Grown
<1>1. Grown /\ hs' = hs
  BY SameGrown DEF primary
<1>2. UpsOK'
  BY <1>1, UpSame, UpTold
<1>3. DownsOK'
  BY <1>1, DownSame
<1> QED BY <1>1, <1>2, <1>3, WorkerBase

(* What a worker's disconnect makes of it. *)
LEMMA DisconnectedRec ==
  ASSUME NEW w, NEW p \in ProcRec
  PROVE  Disconnected(w, p) \in ProcRec
BY DEF Disconnected, ProcRec

LEMMA TellEof ==
  ASSUME NEW HS
  PROVE  /\ AllUp(<<Msg("EOF")>>, HS) /\ AllUp(<<Msg("close")>>, HS)
         /\ AllUp(<<Msg("exitedAfterDisconnect")>>, HS) /\ AllUp(<<>>, HS)
         /\ AllUp(<<Msg("close")>> \o <<Msg("EOF")>>, HS) /\ AllUp(<<>> \o <<Msg("EOF")>>, HS)
         /\ AllUp(<<Msg("close")>> \o <<Msg("exitedAfterDisconnect")>>, HS)
         /\ AllUp(<<>> \o <<Msg("exitedAfterDisconnect")>>, HS)
         /\ AllUp(<<Msg("queryServer")>>, HS) /\ AllUp(<<Msg("listening")>>, HS)
<1>1. /\ AllUp(<<Msg("EOF")>>, HS) /\ AllUp(<<Msg("close")>>, HS)
      /\ AllUp(<<Msg("exitedAfterDisconnect")>>, HS) /\ AllUp(<<>>, HS)
      /\ AllUp(<<Msg("queryServer")>>, HS) /\ AllUp(<<Msg("listening")>>, HS)
  BY MsgGood, EmptyGood DEF UpActs
<1> QED BY <1>1, AllUpCat

(* The cases of _disconnect(). *)
LEMMA _disconnectIs ==
  ASSUME Base, NEW w \in Workers, NEW who \in {"primary", "self"},
         NEW state \in {"none", "online", "listening", "disconnecting", "destroying"},
         _disconnect(w, who, state)
  PROVE  /\ proc' \in [Workers -> ProcRec] /\ \A v \in Workers : v # w => proc'[v] = proc[v]
         /\ \E ms : AllUp(ms, hs) /\ Tell(w, ms)
<1> DEFINE p == [proc[w] EXCEPT !.exitedAfterDisconnect = TRUE, !.state = state]
           closes == IF p.server = "open" THEN <<Msg("close")>> ELSE <<>>
           s == IF p.server = "open" THEN "none" ELSE p.server
           q == [p EXCEPT !.server = s]
           r == [q EXCEPT !.waiting = who]
<1>1. \/ Set(w, r) /\ Tell(w, closes)
      \/ Set(w, Disconnected(w, q)) /\ Tell(w, closes \o <<Msg("EOF")>>)
      \/ Set(w, q) /\ Tell(w, closes \o <<Msg("exitedAfterDisconnect")>>)
  BY DEF _disconnect
<1>2. p \in ProcRec
  BY ProcFields DEF ProcRec
<1>3. s \in {"none", "asked", "open"}
  BY <1>2 DEF ProcRec
<1>9. closes = <<Msg("close")>> \/ closes = <<>>
  OBVIOUS
<1> HIDE DEF p, s, closes
<1>4. q \in ProcRec
  BY <1>2, <1>3 DEF ProcRec
<1> HIDE DEF q
<1>5. r \in ProcRec
  BY <1>4 DEF ProcRec
<1> HIDE DEF r
<1>6. \E x \in ProcRec : Set(w, x)
  BY <1>1, <1>4, <1>5, DisconnectedRec
<1>7. AllUp(closes, hs) /\ AllUp(closes \o <<Msg("EOF")>>, hs) /\ AllUp(closes \o <<Msg("exitedAfterDisconnect")>>, hs)
  BY <1>9, TellEof
<1>8. \E ms : AllUp(ms, hs) /\ Tell(w, ms)
  BY <1>1, <1>7
<1> QED BY <1>6, <1>8, SetOK

LEMMA toldBase ==
  ASSUME Base, NEW w \in Workers, listen(w) \/ closeServer(w) \/ workerDestroy(w) \/ crash(w) \/ waitingDone(w)
  PROVE  Base' /\ Grown
<1>1. UNCHANGED <<policy, primary, fault, down, sent, seen>> /\ served' = served /\ calls' \in 0 .. MaxCalls
  BY CallsOK DEF listen, closeServer, workerDestroy, crash, waitingDone
<1>2. \E p \in ProcRec : Set(w, p)
  <2>1. CASE listen(w)
    <3> DEFINE p == [proc[w] EXCEPT !.server = "asked"]
    <3>1. p \in ProcRec
      BY ProcFields DEF ProcRec
    <3> QED BY <2>1, <3>1, Zenon DEF listen
  <2>2. CASE closeServer(w)
    <3> DEFINE p == [proc[w] EXCEPT !.server = "none", !.conns = {}]
    <3>1. p \in ProcRec
      BY ProcFields DEF ProcRec
    <3> QED BY <2>2, <3>1, Zenon DEF closeServer
  <2>3. CASE workerDestroy(w)
    <3> DEFINE p == [proc[w] EXCEPT !.exitedAfterDisconnect = TRUE, !.state = "destroying"]
    <3>1. p \in ProcRec
      BY ProcFields DEF ProcRec
    <3> QED BY <2>3, <3>1, Zenon DEF workerDestroy
  <2>4. CASE crash(w)
    <3> DEFINE p == [proc[w] EXCEPT !.alive = FALSE, !.connected = FALSE, !.conns = {}]
    <3>1. p \in ProcRec
      BY ProcFields DEF ProcRec
    <3> QED BY <2>4, <3>1, Zenon DEF crash
  <2>5. CASE waitingDone(w)
    <3> DEFINE p == [proc[w] EXCEPT !.waiting = "no"]
               q == Disconnected(w, proc[w])
    <3>1. p \in ProcRec
      BY ProcFields DEF ProcRec
    <3>2. q \in ProcRec
      BY ProcFields, DisconnectedRec
    <3> QED BY <2>5, <3>1, <3>2, Zenon DEF waitingDone
  <2> QED BY <2>1, <2>2, <2>3, <2>4, <2>5
<1>3. WorkersOK'
  BY <1>1, <1>2, SetOK
<1>4. \E ms : AllUp(ms, hs) /\ Tell(w, ms)
  BY TellEof, Zenon DEF listen, closeServer, workerDestroy, crash, waitingDone
<1> QED BY <1>1, <1>3, <1>4, WorkerActs

LEMMA workerDisconnectBase ==
  ASSUME Base, NEW w \in Workers, workerDisconnect(w)
  PROVE  Base' /\ Grown
<1>1. /\ UNCHANGED <<policy, primary, fault, down, sent, seen>> /\ served' = served /\ calls' \in 0 .. MaxCalls
      /\ _disconnect(w, "self", "disconnecting")
  BY CallsOK DEF workerDisconnect
<1>2. proc' \in [Workers -> ProcRec] /\ \E ms : AllUp(ms, hs) /\ Tell(w, ms)
  BY <1>1, _disconnectIs
<1>3. WorkersOK'
  BY <1>1, <1>2 DEF Base, WorkersOK
<1> QED BY <1>1, <1>2, <1>3, WorkerActs

LEMMA quietBase ==
  ASSUME Base, NEW w \in Workers, orphaned(w) \/ exit(w) \/ \E c \in Conns : endConn(w, c)
  PROVE  Base' /\ Grown
<1>1. UNCHANGED <<policy, primary, fault, down, sent, seen, up, served>> /\ calls' \in 0 .. MaxCalls
  BY CallsOK DEF orphaned, exit, endConn
<1>2. \E p \in ProcRec : Set(w, p)
  <2>1. CASE orphaned(w)
    <3> DEFINE a == proc[w].alive /\ proc[w].exitedAfterDisconnect
               p == [proc[w] EXCEPT !.connected = FALSE, !.alive = a]
    <3>1. a \in BOOLEAN /\ Set(w, p)
      BY <2>1 DEF orphaned
    <3> HIDE DEF a
    <3>2. p \in ProcRec
      BY <3>1, ProcFields DEF ProcRec
    <3> QED BY <3>1, <3>2
  <2>2. CASE exit(w)
    <3> DEFINE p == [proc[w] EXCEPT !.alive = FALSE]
    <3>1. p \in ProcRec
      BY ProcFields DEF ProcRec
    <3> QED BY <2>2, <3>1, Zenon DEF exit
  <2>3. ASSUME NEW c \in Conns, endConn(w, c) PROVE \E p \in ProcRec : Set(w, p)
    <3> DEFINE s == proc[w].conns \ {c}
               p == [proc[w] EXCEPT !.conns = s]
    <3>1. s \in SUBSET Conns /\ Set(w, p)
      BY <2>3, ProcFields DEF endConn
    <3> HIDE DEF s
    <3>2. p \in ProcRec
      BY <3>1, ProcFields DEF ProcRec
    <3> QED BY <3>1, <3>2
  <2> QED BY <2>1, <2>2, <2>3
<1>3. WorkersOK'
  BY <1>1, <1>2, SetOK
<1> QED BY <1>1, <1>3, WorkerActs

(* A worker reads a message, changes, and may tell the primary something. *)
LEMMA WorkerReads ==
  ASSUME Base, UNCHANGED <<policy, primary, fault, sent, seen>>, calls' = calls,
         WorkersOK', NEW w \in Workers, up' = up \/ (\E ms : AllUp(ms, hs) /\ Tell(w, ms)),
         down[w] # <<>>, down' = Take(down, w)
  PROVE  Base' /\ Grown
<1>1. Grown /\ hs' = hs
  BY SameGrown DEF primary
<1>2. UpsOK'
  BY <1>1, UpSame, UpTold
<1>3. DownsOK'
  BY <1>1, DownTaken
<1> QED BY <1>1, <1>2, <1>3, WorkerBase, CallsOK

(* onconnection(): the answer names the connection and the handle of newconn. *)
LEMMA newconnIs ==
  ASSUME Base, NEW w \in Workers, Gets(w, "newconn"), NEW m, m = Head(down[w])
  PROVE  m.c \in Conns /\ m.h \in DOMAIN hs /\ hs[m.h].st # "binding" /\ m \in DownMsg
<1>1. GoodDown(m, hs)
  <2>1. down[w] # <<>> /\ AllDown(down[w], hs)
    BY DEF Base, DownsOK, Gets
  <2> QED BY <2>1, TailGood
<1>2. m.act = "newconn"
  BY DEF Gets
<1> QED BY <1>1, <1>2 DEF GoodDown, Carries

LEMMA readsBase ==
  ASSUME Base, NEW w \in Workers, reply(w) \/ ackExited(w) \/ disconnectMessage(w) \/ onconnection(w)
  PROVE  Base' /\ Grown
<1>1. UNCHANGED <<policy, primary, fault, sent, seen, calls>> /\ down[w] # <<>> /\ down' = Take(down, w)
  BY DEF reply, ackExited, disconnectMessage, onconnection, Gets
<1>2. CASE reply(w)
  <2>1. \E p \in ProcRec : Set(w, p)
    <3> DEFINE p == [proc[w] EXCEPT !.server = "open", !.state = "listening"]
               q == [proc[w] EXCEPT !.server = "none"]
    <3>1. p \in ProcRec
      BY ProcFields DEF ProcRec
    <3>2. q \in ProcRec
      BY ProcFields DEF ProcRec
    <3> QED BY <1>2, <3>1, <3>2, Zenon DEF reply
  <2>2. WorkersOK'
    BY <1>2, <2>1, SetOK DEF reply
  <2>3. up' = up \/ \E ms : AllUp(ms, hs) /\ Tell(w, ms)
    BY <1>2, TellEof, Zenon DEF reply
  <2> QED BY <1>1, <2>2, <2>3, WorkerReads
<1>3. CASE ackExited(w)
  <2> DEFINE p == Disconnected(w, proc[w])
  <2>1. p \in ProcRec /\ Set(w, p)
    BY <1>3, ProcFields, DisconnectedRec DEF ackExited
  <2> HIDE DEF p
  <2>2. WorkersOK'
    BY <1>3, <2>1, SetOK DEF ackExited
  <2>3. \E ms : AllUp(ms, hs) /\ Tell(w, ms)
    BY <1>3, TellEof, Zenon DEF ackExited
  <2> QED BY <1>1, <2>2, <2>3, WorkerReads
<1>4. CASE disconnectMessage(w)
  <2>1. _disconnect(w, "primary", proc[w].state)
    BY <1>4 DEF disconnectMessage
  <2>2. proc' \in [Workers -> ProcRec] /\ \E ms : AllUp(ms, hs) /\ Tell(w, ms)
    BY <2>1, ProcFields, _disconnectIs
  <2>3. WorkersOK'
    BY <1>4, <2>2 DEF Base, WorkersOK, disconnectMessage
  <2> QED BY <1>1, <2>2, <2>3, WorkerReads
<1>5. CASE onconnection(w)
  <2> DEFINE m == Head(down[w])
  <2>1. m.c \in Conns /\ m.h \in DOMAIN hs /\ hs[m.h].st # "binding" /\ m.h \in Nat
    <3>1. Gets(w, "newconn")
      BY <1>5 DEF onconnection
    <3> HIDE DEF m
    <3>2. m = Head(down[w])
      BY DEF m
    <3>3. m.c \in Conns /\ m.h \in DOMAIN hs /\ hs[m.h].st # "binding"
      BY <3>1, <3>2, newconnIs
    <3> QED BY <3>3, BaseFields
  <2>2. /\ Tell(w, <<ConnMsg("ackNewconn", m.c, m.h, Accepts(w))>>)
        /\ IF Accepts(w)
           THEN /\ Set(w, [proc[w] EXCEPT !.conns = @ \cup {m.c}])
                /\ served' = [served EXCEPT ![m.c] = @ \cup {w}]
           ELSE UNCHANGED <<proc, served>>
    BY <1>5 DEF onconnection
  <2> HIDE DEF m
  <2>3. AllUp(<<ConnMsg("ackNewconn", m.c, m.h, Accepts(w))>>, hs)
    <3>1. Accepts(w) \in BOOLEAN
      BY DEF Accepts
    <3> QED BY <2>1, <3>1, newconnGood
  <2>4. \E ms : AllUp(ms, hs) /\ Tell(w, ms)
    BY <2>2, <2>3
  <2>5. WorkersOK'
    <3>1. CASE ~Accepts(w)
      BY <2>2, <3>1 DEF Base, WorkersOK
    <3>2. CASE Accepts(w)
      <4> DEFINE s == proc[w].conns \cup {m.c}
                 p == [proc[w] EXCEPT !.conns = s]
      <4>1. s \in SUBSET Conns /\ Set(w, p)
        BY <2>1, <2>2, <3>2, ProcFields
      <4> HIDE DEF s
      <4>2. p \in ProcRec
        BY <4>1, ProcFields DEF ProcRec
      <4>3. proc' \in [Workers -> ProcRec]
        BY <4>1, <4>2, SetOK
      <4>4. served' \in [Conns -> SUBSET Workers]
        <5> DEFINE S == served[m.c] \cup {w}
        <5>1. served \in [Conns -> SUBSET Workers] /\ S \in SUBSET Workers
          BY <2>1, BaseFields
        <5>2. served' = [served EXCEPT ![m.c] = S]
          BY <2>2, <3>2
        <5> HIDE DEF S
        <5> QED BY <5>1, <5>2
      <4> QED BY <4>3, <4>4 DEF WorkersOK
    <3> QED BY <3>1, <3>2
  <2> QED BY <1>1, <2>4, <2>5, WorkerReads
<1> QED BY <1>2, <1>3, <1>4, <1>5

LEMMA InitBase == Init => Base
<1> SUFFICES ASSUME Init PROVE Base
  OBVIOUS
<1> DEFINE e == <<>>
           q == <<>>
<1>1. e \in Seq(HandleRec) /\ DOMAIN e = {} /\ q \in Seq(UpMsg) /\ q \in Seq(DownMsg) /\ {} \in SUBSET Conns
  OBVIOUS
<1>2. hs = e /\ up = [w \in Workers |-> q] /\ down = [w \in Workers |-> q]
  BY DEF Init
<1>3. \A HS : AllUp(q, HS) /\ AllDown(q, HS)
  BY EmptyGood
<1> HIDE DEF e, q
<1>4. UpsOK /\ DownsOK
  BY <1>1, <1>2, <1>3 DEF UpsOK, DownsOK
<1>5. reg \in [Workers -> RegRec]
  BY DEF Init, RegRec
<1>6. WorkersOK
  BY DEF Init, ProcRec, WorkersOK
<1>7. PrimaryOK
  <2>1. policy \in Policies /\ table = None /\ fault = None /\ open = {} /\ seen = {} /\ calls = 0
    BY DEF Init
  <2>2. sent \in [Conns -> Workers \cup {None}] /\ calls \in 0 .. MaxCalls
    BY ClusterAssumption DEF Init
  <2> QED BY <1>1, <1>2, <1>5, <2>1, <2>2 DEF PrimaryOK
<1> QED BY <1>4, <1>6, <1>7 DEF Base

LEMMA StutterBase ==
  ASSUME Base, UNCHANGED vars
  PROVE  Base'
<1>1. Grown /\ UNCHANGED <<up, down>>
  BY SameGrown DEF vars
<1>2. UpsOK' /\ DownsOK'
  BY <1>1, UpSame, DownSame
<1>3. PrimaryOK'
  BY PrimarySame, CallsOK, BaseFields DEF vars
<1> QED BY <1>2, <1>3 DEF Base, WorkersOK, vars

LEMMA NextBase == Base /\ [Next]_vars => Base'
<1> SUFFICES ASSUME Base, [Next]_vars PROVE Base'
  OBVIOUS
<1>1. CASE UNCHANGED vars
  BY <1>1, StutterBase
<1>2. ASSUME NEW w \in Workers, fork(w) \/ primaryDisconnect(w) \/ Hear(w) PROVE Base'
  BY <1>2, forkBase, hearBase, exitedBase, queryServerBase, closeBase, ackNewconnBase,
     disconnectEventBase, exitEventBase, primaryDisconnectBase DEF Hear
<1>3. ASSUME NEW w \in Workers,
             Get(w) \/ listen(w) \/ closeServer(w) \/ workerDisconnect(w) \/ workerDestroy(w) \/ crash(w)
      PROVE  Base'
  BY <1>3, toldBase, workerDisconnectBase, quietBase, readsBase DEF Get
<1>4. ASSUME NEW h \in DOMAIN hs, Bind(h) PROVE Base'
  BY <1>4, boundBase, bindFailedBase DEF Bind
<1>5. ASSUME NEW c \in Conns, connection(c) \/ \E w \in Workers : endConn(w, c) PROVE Base'
  BY <1>5, connectionBase, quietBase
<1> QED BY <1>1, <1>2, <1>3, <1>4, <1>5 DEF Next

(* In every state the types and the handles are right. *)
LEMMA BaseHolds == Spec => []Base
BY InitBase, NextBase, PTL DEF Spec

LEMMA BaseSound == Base => HandlesSound
<1> SUFFICES ASSUME Base PROVE HandlesSound
  OBVIOUS
<1>1. UpMsg \subseteq Messages /\ DownMsg \subseteq Messages
  BY DEF UpMsg, DownMsg, UpActs, DownActs, Messages
<1>2. \A q : (q \in Seq(UpMsg) => q \in Seq(Messages)) /\ (q \in Seq(DownMsg) => q \in Seq(Messages))
  <2>1. ASSUME NEW S, NEW T, S \subseteq T, NEW q \in Seq(S) PROVE q \in Seq(T)
    BY <2>1
  <2> QED BY <1>1, <2>1
<1>3. up \in [Workers -> Seq(Messages)] /\ down \in [Workers -> Seq(Messages)]
  BY <1>2, BaseFields
<1>4. TypeOK
  <2>1. PrimaryOK /\ WorkersOK
    BY DEF Base
  <2> QED BY <1>3, <2>1 DEF TypeOK, PrimaryOK, WorkersOK, HandleRec, RegRec, ProcRec
<1>5. NoIdleWorker
  BY BaseFields DEF NoIdleWorker, Fit
<1> QED BY <1>4, <1>5 DEF HandlesSound

(* The records of the primary are well formed, and while a connection waits in a handle  *)
(* no worker is free, through distribute(), handoff(), add(), remove() and late answers. *)
THEOREM HandlesSoundHolds == Spec => []HandlesSound
BY BaseHolds, BaseSound, PTL

-----------------------------------------------------------------------------
(* What a worker and the primary know of each other.  A sequence of messages   *)
(* has a message of the set M; it has one at most; in it every message of A    *)
(* comes after every one of B.                                                 *)
Has(q, M) == \E i \in 1 .. Len(q) : q[i] \in M
Once(q, M) == \A i, j \in 1 .. Len(q) : q[i] \in M /\ q[j] \in M => i = j
After(q, A, B) == \A i, j \in 1 .. Len(q) : q[i] \in A /\ q[j] \in B => j < i

LEMMA HasTail ==
  ASSUME NEW S, NEW q \in Seq(S), q # <<>>, NEW M
  PROVE  /\ Has(q, M) <=> Head(q) \in M \/ Has(Tail(q), M)
         /\ Once(q, M) => Once(Tail(q), M) /\ (Head(q) \in M => ~Has(Tail(q), M))
<1> DEFINE y == Tail(q)
           n == Len(q)
<1>1. /\ Len(y) = n - 1 /\ n \in Nat /\ n >= 1 /\ Head(q) = q[1] /\ \A i \in 1 .. n - 1 : y[i] = q[i + 1]
  OBVIOUS
<1>2. Has(q, M) <=> \E i \in 1 .. n : q[i] \in M
  BY DEF Has
<1>3. Once(q, M) <=> \A i, j \in 1 .. n : q[i] \in M /\ q[j] \in M => i = j
  BY DEF Once
<1> HIDE DEF y, n
<1>4. Has(y, M) <=> \E i \in 1 .. n - 1 : q[i + 1] \in M
  BY <1>1 DEF Has
<1>5. \A i \in 1 .. n : i = 1 \/ (i - 1 \in 1 .. n - 1 /\ (i - 1) + 1 = i)
  BY <1>1
<1>6. \A i \in 1 .. n - 1 : i + 1 \in 1 .. n /\ i + 1 # 1
  BY <1>1
<1>7. Has(q, M) <=> Head(q) \in M \/ Has(y, M)
  <2>1. ASSUME NEW i \in 1 .. n, q[i] \in M PROVE Head(q) \in M \/ Has(y, M)
    BY <1>1, <1>4, <1>5, <2>1
  <2>2. 1 \in 1 .. n
    BY <1>1
  <2> QED BY <1>1, <1>2, <1>4, <1>6, <2>1, <2>2
<1>8. ASSUME Once(q, M) PROVE Once(y, M) /\ (Head(q) \in M => ~Has(y, M))
  <2>1. Once(y, M)
    <3> SUFFICES ASSUME NEW i \in 1 .. n - 1, NEW j \in 1 .. n - 1, y[i] \in M, y[j] \in M PROVE i = j
      BY <1>1 DEF Once
    <3>1. i + 1 = j + 1
      BY <1>1, <1>3, <1>6, <1>8
    <3> QED BY <3>1
  <2>2. Head(q) \in M => ~Has(y, M)
    BY <1>1, <1>3, <1>4, <1>6, <1>8
  <2> QED BY <2>1, <2>2
<1> QED BY <1>7, <1>8 DEF y

LEMMA HasCat ==
  ASSUME NEW S, NEW q \in Seq(S), NEW p \in Seq(S), NEW M
  PROVE  /\ Has(q \o p, M) <=> Has(q, M) \/ Has(p, M)
         /\ Once(q, M) /\ Once(p, M) /\ ~(Has(q, M) /\ Has(p, M)) => Once(q \o p, M)
<1> DEFINE y == q \o p
           n == Len(q)
           k == Len(p)
<1>1. /\ Len(y) = n + k /\ n \in Nat /\ k \in Nat
      /\ \A i \in 1 .. n + k : y[i] = IF i <= n THEN q[i] ELSE p[i - n]
  OBVIOUS
<1>2. (Has(q, M) <=> \E i \in 1 .. n : q[i] \in M) /\ (Has(p, M) <=> \E i \in 1 .. k : p[i] \in M)
  BY DEF Has
<1>3. /\ Once(q, M) <=> \A i, j \in 1 .. n : q[i] \in M /\ q[j] \in M => i = j
      /\ Once(p, M) <=> \A i, j \in 1 .. k : p[i] \in M /\ p[j] \in M => i = j
  BY DEF Once
<1>4. Has(y, M) <=> \E i \in 1 .. n + k : y[i] \in M
  BY <1>1 DEF Has
<1>5. Once(y, M) <=> \A i, j \in 1 .. n + k : y[i] \in M /\ y[j] \in M => i = j
  BY <1>1 DEF Once
<1> HIDE DEF y, n, k
<1>6. ASSUME NEW i \in 1 .. n + k, y[i] \in M
      PROVE  (i \in 1 .. n /\ q[i] \in M) \/ (~(i <= n) /\ i - n \in 1 .. k /\ p[i - n] \in M)
  BY <1>1, <1>6
<1>7. \A i \in 1 .. n : i \in 1 .. n + k /\ y[i] = q[i]
  BY <1>1
<1>8. \A i \in 1 .. k : i + n \in 1 .. n + k /\ y[i + n] = p[i]
  BY <1>1
<1>9. Has(y, M) <=> Has(q, M) \/ Has(p, M)
  BY <1>2, <1>4, <1>6, <1>7, <1>8
<1>10. ASSUME Once(q, M), Once(p, M), ~(Has(q, M) /\ Has(p, M)) PROVE Once(y, M)
  <2> SUFFICES ASSUME NEW i \in 1 .. n + k, NEW j \in 1 .. n + k, y[i] \in M, y[j] \in M PROVE i = j
    BY <1>5
  <2>1. (i \in 1 .. n /\ q[i] \in M) \/ (~(i <= n) /\ i - n \in 1 .. k /\ p[i - n] \in M)
    BY <1>6
  <2>2. (j \in 1 .. n /\ q[j] \in M) \/ (~(j <= n) /\ j - n \in 1 .. k /\ p[j - n] \in M)
    BY <1>6
  <2>3. CASE i \in 1 .. n /\ q[i] \in M /\ j \in 1 .. n /\ q[j] \in M
    BY <1>3, <1>10, <2>3
  <2>4. CASE i - n \in 1 .. k /\ p[i - n] \in M /\ j - n \in 1 .. k /\ p[j - n] \in M
    <3>1. i - n = j - n
      BY <1>3, <1>10, <2>4
    <3> QED BY <1>1, <3>1
  <2> QED BY <1>2, <1>10, <2>1, <2>2, <2>3, <2>4
<1> QED BY <1>9, <1>10 DEF y

LEMMA AfterTail ==
  ASSUME NEW S, NEW q \in Seq(S), q # <<>>, NEW A, NEW B, After(q, A, B)
  PROVE  After(Tail(q), A, B) /\ (Head(q) \in A => ~Has(Tail(q), B))
<1>1. /\ Len(Tail(q)) = Len(q) - 1 /\ Len(q) \in Nat /\ Len(q) >= 1 /\ Head(q) = q[1]
      /\ \A i \in 1 .. Len(q) - 1 : Tail(q)[i] = q[i + 1] /\ i + 1 \in 1 .. Len(q)
  OBVIOUS
<1>2. ASSUME NEW i \in 1 .. Len(q) - 1, NEW j \in 1 .. Len(q) - 1, Tail(q)[i] \in A, Tail(q)[j] \in B
      PROVE  j < i
  <2>1. j + 1 < i + 1
    BY <1>1, <1>2 DEF After
  <2> QED BY <2>1
<1>3. After(Tail(q), A, B)
  BY <1>1, <1>2 DEF After
<1>4. ASSUME q[1] \in A, NEW j \in 1 .. Len(q) - 1, q[j + 1] \in B PROVE FALSE
  <2>1. j + 1 < 1
    BY <1>1, <1>4 DEF After
  <2> QED BY <2>1
<1> QED BY <1>1, <1>3, <1>4 DEF Has

LEMMA AfterCat ==
  ASSUME NEW S, NEW q \in Seq(S), NEW p \in Seq(S), NEW A, NEW B,
         After(q, A, B), After(p, A, B), ~(Has(q, A) /\ Has(p, B))
  PROVE  After(q \o p, A, B)
<1> DEFINE y == q \o p
           n == Len(q)
           k == Len(p)
<1>1. /\ Len(y) = n + k /\ n \in Nat /\ k \in Nat
      /\ \A i \in 1 .. n + k : y[i] = IF i <= n THEN q[i] ELSE p[i - n]
  OBVIOUS
<1>2. (Has(q, A) <=> \E i \in 1 .. n : q[i] \in A) /\ (Has(p, B) <=> \E i \in 1 .. k : p[i] \in B)
  BY DEF Has
<1>3. /\ \A i, j \in 1 .. n : q[i] \in A /\ q[j] \in B => j < i
      /\ \A i, j \in 1 .. k : p[i] \in A /\ p[j] \in B => j < i
  BY DEF After
<1>5. After(y, A, B) <=> \A i, j \in 1 .. n + k : y[i] \in A /\ y[j] \in B => j < i
  BY <1>1 DEF After
<1> HIDE DEF y, n, k
<1>6. ASSUME NEW i \in 1 .. n + k, NEW M, y[i] \in M
      PROVE  (i \in 1 .. n /\ q[i] \in M) \/ (~(i <= n) /\ i - n \in 1 .. k /\ p[i - n] \in M)
  BY <1>1, <1>6
<1>7. ASSUME NEW i \in 1 .. n + k, NEW j \in 1 .. n + k, y[i] \in A, y[j] \in B PROVE j < i
  <2>1. (i \in 1 .. n /\ q[i] \in A) \/ (~(i <= n) /\ i - n \in 1 .. k /\ p[i - n] \in A)
    BY <1>6, <1>7
  <2>2. (j \in 1 .. n /\ q[j] \in B) \/ (~(j <= n) /\ j - n \in 1 .. k /\ p[j - n] \in B)
    BY <1>6, <1>7
  <2>3. CASE i \in 1 .. n /\ q[i] \in A /\ j \in 1 .. n /\ q[j] \in B
    BY <1>3, <2>3
  <2>4. CASE i - n \in 1 .. k /\ p[i - n] \in A /\ j - n \in 1 .. k /\ p[j - n] \in B
    <3>1. j - n < i - n
      BY <1>3, <2>4
    <3> QED BY <1>1, <3>1
  <2>5. CASE ~(i <= n) /\ j \in 1 .. n
    BY <1>1, <2>5
  <2> QED BY <1>2, <2>1, <2>2, <2>3, <2>4, <2>5
<1> QED BY <1>5, <1>7 DEF y

LEMMA HasOne ==
  ASSUME NEW m, NEW M
  PROVE  /\ Has(<<m>>, M) <=> m \in M
         /\ Once(<<m>>, M) /\ ~Has(<<>>, M) /\ Once(<<>>, M)
         /\ \A B : m \notin B \/ m \notin M => After(<<m>>, M, B)
         /\ \A B : After(<<>>, M, B)
BY DEF Has, Once, After

Asking == {m \in UpMsg : m.act = "queryServer"}
Closings == {m \in UpMsg : m.act = "close"}
Ends == {m \in UpMsg : m.act = "EOF"}
Replies == {m \in DownMsg : m.act = "reply"}
Refusals == {m \in DownMsg : m.act = "reply" /\ ~m.ok}

(* A worker asks when its server is not open, and once; then its question is   *)
(* under way, or waits in a handle, or the answer is under way.  When it       *)
(* closed the server the primary is told before the next question.  u and d    *)
(* are the channels, s the worker's server; waits: it waits in a handle.       *)
Dialogue(u, d, s, waits) ==
  /\ Once(u, Asking) /\ Once(u, Closings) /\ Once(d, Replies) /\ After(u, Asking, Closings)
  /\ Has(u, Asking) => s = "asked"
  /\ Has(u, Closings) => s # "open"
  /\ Has(d, Replies) \/ waits => s = "asked" /\ ~Has(u, Asking) /\ ~Has(u, Closings)
  /\ ~(Has(d, Replies) /\ waits)

(* The worker is not in the handle, as far as it knows. *)
Outside(u, d, s) ==
  \/ ~Has(u, Closings) /\ (s = "none" \/ Has(u, Asking))
  \/ Has(d, Refusals)

Neutral(u) == ~Has(u, Asking) /\ ~Has(u, Closings)

LEMMA Refused ==
  ASSUME NEW d, Has(d, Refusals)
  PROVE  Has(d, Replies)
BY DEF Has, Refusals, Replies

(* Other messages do not matter. *)
LEMMA DialogueSays ==
  ASSUME NEW u \in Seq(UpMsg), NEW d, NEW s, NEW waits \in BOOLEAN, Dialogue(u, d, s, waits),
         NEW ms \in Seq(UpMsg), Neutral(ms)
  PROVE  /\ Dialogue(u \o ms, d, s, waits)
         /\ Outside(u \o ms, d, s) <=> Outside(u, d, s)
<1>1. /\ Has(u \o ms, Asking) <=> Has(u, Asking)
      /\ Has(u \o ms, Closings) <=> Has(u, Closings)
  BY HasCat DEF Neutral
<1>2. Once(ms, Asking) /\ Once(ms, Closings) /\ After(ms, Asking, Closings)
  BY DEF Once, After, Neutral, Has
<1>3. Once(u \o ms, Asking) /\ Once(u \o ms, Closings)
  BY <1>2, HasCat DEF Neutral, Dialogue
<1>4. After(u \o ms, Asking, Closings)
  BY <1>2, AfterCat DEF Neutral, Dialogue
<1> QED BY <1>1, <1>3, <1>4 DEF Dialogue, Outside

LEMMA DialogueHeard ==
  ASSUME NEW u \in Seq(UpMsg), u # <<>>, NEW d, NEW s, NEW waits \in BOOLEAN, Dialogue(u, d, s, waits),
         Head(u) \notin Asking, Head(u) \notin Closings
  PROVE  /\ Dialogue(Tail(u), d, s, waits)
         /\ Outside(Tail(u), d, s) <=> Outside(u, d, s)
<1>1. /\ Has(Tail(u), Asking) <=> Has(u, Asking)
      /\ Has(Tail(u), Closings) <=> Has(u, Closings)
  BY HasTail
<1>2. Once(Tail(u), Asking) /\ Once(Tail(u), Closings)
  BY HasTail DEF Dialogue
<1>3. After(Tail(u), Asking, Closings)
  BY AfterTail DEF Dialogue
<1> QED BY <1>1, <1>2, <1>3 DEF Dialogue, Outside

LEMMA DialogueTold ==
  ASSUME NEW u, NEW d \in Seq(DownMsg), NEW s, NEW waits \in BOOLEAN, Dialogue(u, d, s, waits),
         NEW ms \in Seq(DownMsg), ~Has(ms, Replies)
  PROVE  /\ Dialogue(u, d \o ms, s, waits)
         /\ Outside(u, d \o ms, s) <=> Outside(u, d, s)
<1>1. ~Has(ms, Refusals)
  BY Refused
<1>2. /\ Has(d \o ms, Replies) <=> Has(d, Replies)
      /\ Has(d \o ms, Refusals) <=> Has(d, Refusals)
  BY <1>1, HasCat
<1>3. Once(ms, Replies)
  BY DEF Once, Has
<1>4. Once(d \o ms, Replies)
  BY <1>3, HasCat DEF Dialogue
<1> QED BY <1>2, <1>4 DEF Dialogue, Outside

LEMMA DialogueRead ==
  ASSUME NEW u, NEW d \in Seq(DownMsg), d # <<>>, NEW s, NEW waits \in BOOLEAN, Dialogue(u, d, s, waits),
         Head(d) \notin Replies
  PROVE  /\ Dialogue(u, Tail(d), s, waits)
         /\ Outside(u, Tail(d), s) <=> Outside(u, d, s)
<1>1. Head(d) \notin Refusals
  BY DEF Refusals, Replies
<1>2. /\ Has(Tail(d), Replies) <=> Has(d, Replies)
      /\ Has(Tail(d), Refusals) <=> Has(d, Refusals)
  BY <1>1, HasTail
<1>4. Once(Tail(d), Replies)
  BY HasTail DEF Dialogue
<1> QED BY <1>2, <1>4 DEF Dialogue, Outside

(* listen(): the question. *)
LEMMA DialogueAsks ==
  ASSUME NEW u \in Seq(UpMsg), NEW d, NEW waits \in BOOLEAN, Dialogue(u, d, "none", waits),
         NEW m \in Asking
  PROVE  /\ Dialogue(u \o <<m>>, d, "asked", waits)
         /\ Outside(u \o <<m>>, d, "asked") => Outside(u, d, "none")
<1>0. m \notin Closings /\ m \in UpMsg
  BY DEF Asking, Closings
<1>1. /\ Has(<<m>>, Asking) /\ ~Has(<<m>>, Closings) /\ Once(<<m>>, Asking) /\ Once(<<m>>, Closings)
      /\ After(<<m>>, Asking, Closings)
  BY <1>0, HasOne
<1>2. ~Has(u, Asking) /\ ~Has(d, Replies) /\ ~waits
  BY DEF Dialogue
<1>3. <<m>> \in Seq(UpMsg)
  BY <1>0
<1>4. Has(u \o <<m>>, Asking) /\ (Has(u \o <<m>>, Closings) <=> Has(u, Closings))
  BY <1>1, <1>3, HasCat
<1>5. Once(u \o <<m>>, Asking) /\ Once(u \o <<m>>, Closings)
  BY <1>1, <1>2, <1>3, HasCat DEF Dialogue
<1>6. After(u \o <<m>>, Asking, Closings)
  BY <1>1, <1>3, AfterCat DEF Dialogue
<1> QED BY <1>2, <1>4, <1>5, <1>6 DEF Dialogue, Outside

(* close() of the server. *)
LEMMA DialogueCloses ==
  ASSUME NEW u \in Seq(UpMsg), NEW d, NEW waits \in BOOLEAN, Dialogue(u, d, "open", waits),
         NEW m \in Closings
  PROVE  /\ Dialogue(u \o <<m>>, d, "none", waits)
         /\ ~Outside(u \o <<m>>, d, "none")
<1>0. m \notin Asking /\ m \in UpMsg
  BY DEF Asking, Closings
<1>1. /\ Has(<<m>>, Closings) /\ ~Has(<<m>>, Asking) /\ Once(<<m>>, Asking) /\ Once(<<m>>, Closings)
      /\ After(<<m>>, Asking, Closings)
  BY <1>0, HasOne
<1>2. ~Has(u, Asking) /\ ~Has(d, Replies) /\ ~waits /\ ~Has(u, Closings)
  BY DEF Dialogue
<1>7. ~Has(d, Refusals)
  BY <1>2, Refused
<1>3. <<m>> \in Seq(UpMsg)
  BY <1>0
<1>4. Has(u \o <<m>>, Closings) /\ ~Has(u \o <<m>>, Asking)
  BY <1>1, <1>2, <1>3, HasCat
<1>5. Once(u \o <<m>>, Asking) /\ Once(u \o <<m>>, Closings)
  BY <1>1, <1>2, <1>3, HasCat DEF Dialogue
<1>6. After(u \o <<m>>, Asking, Closings)
  BY <1>1, <1>2, <1>3, AfterCat DEF Dialogue
<1> QED BY <1>2, <1>4, <1>5, <1>6, <1>7 DEF Dialogue, Outside

(* queryServer(): the question arrives; the worker waits for its answer. *)
LEMMA DialogueAsked ==
  ASSUME NEW u \in Seq(UpMsg), u # <<>>, NEW d, NEW s, NEW waits \in BOOLEAN, Dialogue(u, d, s, waits),
         Head(u) \in Asking, NEW t \in BOOLEAN
  PROVE  /\ Outside(u, d, s) /\ ~waits /\ ~Has(d, Replies)
         /\ Dialogue(Tail(u), d, s, t) /\ ~Outside(Tail(u), d, s)
         /\ s = "asked"
<1>1. Has(u, Asking) /\ ~Has(Tail(u), Asking) /\ ~Has(Tail(u), Closings)
  BY HasTail, AfterTail DEF Dialogue
<1>2. Head(u) \notin Closings
  BY DEF Asking, Closings
<1>3. ~Has(u, Closings)
  BY <1>1, <1>2, HasTail
<1>4. s = "asked" /\ ~Has(d, Replies) /\ ~waits /\ ~Has(d, Refusals)
  BY <1>1, Refused DEF Dialogue
<1>5. Once(Tail(u), Asking) /\ Once(Tail(u), Closings) /\ After(Tail(u), Asking, Closings)
  BY HasTail, AfterTail DEF Dialogue
<1> QED BY <1>1, <1>3, <1>4, <1>5 DEF Dialogue, Outside

(* A question that gets no answer. *)
LEMMA DialogueDropped ==
  ASSUME NEW u \in Seq(UpMsg), u # <<>>, NEW d, NEW s, NEW waits \in BOOLEAN, Dialogue(u, d, s, waits),
         Head(u) \in Asking
  PROVE  Dialogue(Tail(u), d, s, waits) /\ ~Outside(Tail(u), d, s)
<1>1. Has(u, Asking) /\ ~Has(Tail(u), Asking) /\ ~Has(Tail(u), Closings)
  BY HasTail, AfterTail DEF Dialogue
<1>2. Head(u) \notin Closings
  BY DEF Asking, Closings
<1>3. ~Has(u, Closings)
  BY <1>1, <1>2, HasTail
<1>4. s = "asked" /\ ~Has(d, Replies) /\ ~waits /\ ~Has(d, Refusals)
  BY <1>1, Refused DEF Dialogue
<1>5. Once(Tail(u), Asking) /\ Once(Tail(u), Closings) /\ After(Tail(u), Asking, Closings)
  BY HasTail, AfterTail DEF Dialogue
<1> QED BY <1>1, <1>3, <1>4, <1>5 DEF Dialogue, Outside

(* The answer is sent. *)
LEMMA DialogueAnswers ==
  ASSUME NEW u, NEW d \in Seq(DownMsg), NEW s, Dialogue(u, d, s, TRUE), NEW m \in Replies
  PROVE  /\ Dialogue(u, d \o <<m>>, s, FALSE) /\ Dialogue(u, d, s, FALSE)
         /\ m.ok => (Outside(u, d \o <<m>>, s) <=> Outside(u, d, s))
<1>0. m \in DownMsg /\ (m.ok => m \notin Refusals)
  BY DEF Replies, Refusals
<1>1. Has(<<m>>, Replies) /\ Once(<<m>>, Replies) /\ (m.ok => ~Has(<<m>>, Refusals)) /\ <<m>> \in Seq(DownMsg)
  BY <1>0, HasOne
<1>2. s = "asked" /\ ~Has(u, Asking) /\ ~Has(u, Closings) /\ ~Has(d, Replies)
  BY DEF Dialogue
<1>3. /\ Has(d \o <<m>>, Replies) /\ Once(d \o <<m>>, Replies)
      /\ m.ok => (Has(d \o <<m>>, Refusals) <=> Has(d, Refusals))
  <2> DEFINE p == <<m>>
  <2>1. /\ Has(p, Replies) /\ Once(p, Replies) /\ (m.ok => ~Has(p, Refusals)) /\ p \in Seq(DownMsg)
        /\ Once(d, Replies)
    BY <1>1 DEF Dialogue
  <2> HIDE DEF p
  <2>2. Has(d \o p, Replies)
    BY <2>1, HasCat
  <2>3. Once(d \o p, Replies)
    BY <1>2, <2>1, HasCat
  <2>4. m.ok => (Has(d \o p, Refusals) <=> Has(d, Refusals))
    BY <2>1, HasCat
  <2> QED BY <2>2, <2>3, <2>4 DEF p
<1> QED BY <1>2, <1>3 DEF Dialogue, Outside

(* reply(): the answer is read; the server is open, or it is none. *)
LEMMA DialogueAnswered ==
  ASSUME NEW u, NEW d \in Seq(DownMsg), d # <<>>, NEW s, NEW waits \in BOOLEAN, Dialogue(u, d, s, waits),
         Head(d) \in Replies
  PROVE  /\ Dialogue(u, Tail(d), "open", waits) /\ ~Outside(u, Tail(d), "open")
         /\ Dialogue(u, Tail(d), "none", waits)
         /\ ~Head(d).ok => Outside(u, d, s)
<1>1. Has(d, Replies) /\ ~Has(Tail(d), Replies) /\ Once(Tail(d), Replies)
  BY HasTail DEF Dialogue
<1>2. ~Has(u, Asking) /\ ~Has(u, Closings) /\ ~waits
  BY <1>1 DEF Dialogue
<1>3. ~Has(Tail(d), Refusals)
  BY <1>1, Refused
<1>4. ~Head(d).ok => Has(d, Refusals)
  <2>1. ~Head(d).ok => Head(d) \in Refusals
    BY DEF Replies, Refusals
  <2> QED BY <2>1, HasTail
<1> QED BY <1>1, <1>2, <1>3, <1>4 DEF Dialogue, Outside

(* close(): the primary is told of the close. *)
LEMMA DialogueClosed ==
  ASSUME NEW u \in Seq(UpMsg), u # <<>>, NEW d, NEW s, NEW waits \in BOOLEAN, Dialogue(u, d, s, waits),
         Head(u) \in Closings
  PROVE  Dialogue(Tail(u), d, s, waits)
<1>1. Head(u) \notin Asking
  BY DEF Asking, Closings
<1>2. /\ Has(Tail(u), Asking) <=> Has(u, Asking)
      /\ Has(u, Closings) /\ ~Has(Tail(u), Closings)
  BY <1>1, HasTail DEF Dialogue
<1>3. Once(Tail(u), Asking) /\ Once(Tail(u), Closings) /\ After(Tail(u), Asking, Closings)
  BY HasTail, AfterTail DEF Dialogue
<1> QED BY <1>2, <1>3 DEF Dialogue

(* The channel of a worker: u is what it told, pc and rc whether the worker   *)
(* and the primary see it connected.                                          *)
EndLast(u) == \A i \in 1 .. Len(u) : u[i] \in Ends => i = Len(u)
Channel(u, pc, rc) ==
  /\ (pc => rc) /\ (u # <<>> => rc) /\ (Has(u, Ends) => ~pc) /\ EndLast(u)

LEMMA EndTail ==
  ASSUME NEW u \in Seq(UpMsg), u # <<>>, EndLast(u)
  PROVE  EndLast(Tail(u)) /\ (Head(u) \in Ends => Tail(u) = <<>>)
<1> DEFINE y == Tail(u)
           n == Len(u)
<1>1. /\ Len(y) = n - 1 /\ n \in Nat /\ n >= 1 /\ Head(u) = u[1] /\ y \in Seq(UpMsg)
      /\ \A i \in 1 .. n - 1 : y[i] = u[i + 1] /\ i + 1 \in 1 .. n
      /\ n = 1 => y = <<>>
  OBVIOUS
<1>2. \A i \in 1 .. n : u[i] \in Ends => i = n
  BY DEF EndLast
<1> HIDE DEF y, n
<1>3. ASSUME NEW i \in 1 .. n - 1, y[i] \in Ends PROVE i = n - 1
  <2>1. i + 1 = n
    BY <1>1, <1>2, <1>3
  <2> QED BY <1>1, <2>1
<1>4. EndLast(y)
  BY <1>1, <1>3 DEF EndLast
<1>5. Head(u) \in Ends => y = <<>>
  <2>1. 1 \in 1 .. n
    BY <1>1
  <2> QED BY <1>1, <1>2, <2>1
<1> QED BY <1>4, <1>5 DEF y

LEMMA EndCat ==
  ASSUME NEW u \in Seq(UpMsg), NEW ms \in Seq(UpMsg), ~Has(u, Ends), EndLast(ms)
  PROVE  EndLast(u \o ms)
<1> DEFINE y == u \o ms
           n == Len(u)
           k == Len(ms)
<1>1. /\ Len(y) = n + k /\ n \in Nat /\ k \in Nat
      /\ \A i \in 1 .. n + k : y[i] = IF i <= n THEN u[i] ELSE ms[i - n]
  OBVIOUS
<1>2. (\A i \in 1 .. n : u[i] \notin Ends) /\ \A i \in 1 .. k : ms[i] \in Ends => i = k
  BY DEF Has, EndLast
<1> HIDE DEF y, n, k
<1>3. ASSUME NEW i \in 1 .. n + k, y[i] \in Ends PROVE i = n + k
  <2>1. ~(i <= n) /\ i - n \in 1 .. k /\ ms[i - n] \in Ends
    BY <1>1, <1>2, <1>3
  <2>2. i - n = k
    BY <1>2, <2>1
  <2> QED BY <1>1, <2>2
<1> QED BY <1>1, <1>3 DEF EndLast, y

(* A message arrives: the end is the last one. *)
LEMMA ChannelHeard ==
  ASSUME NEW u \in Seq(UpMsg), u # <<>>, NEW pc \in BOOLEAN, NEW rc \in BOOLEAN, Channel(u, pc, rc)
  PROVE  /\ rc /\ Channel(Tail(u), pc, rc)
         /\ Head(u) \in Ends => Tail(u) = <<>> /\ ~pc /\ Channel(Tail(u), pc, FALSE)
<1>1. EndLast(Tail(u)) /\ (Head(u) \in Ends => Tail(u) = <<>>)
  BY EndTail DEF Channel
<1>2. Has(u, Ends) <=> Head(u) \in Ends \/ Has(Tail(u), Ends)
  BY HasTail
<1>3. ~Has(<<>>, Ends)
  BY DEF Has
<1> QED BY <1>1, <1>2, <1>3 DEF Channel

(* A connected worker tells something, and may end. *)
LEMMA ChannelTold ==
  ASSUME NEW u \in Seq(UpMsg), NEW rc \in BOOLEAN, Channel(u, TRUE, rc),
         NEW ms \in Seq(UpMsg), NEW pc \in BOOLEAN, EndLast(ms), Has(ms, Ends) => ~pc
  PROVE  Channel(u \o ms, pc, rc)
<1>1. ~Has(u, Ends) /\ rc
  BY DEF Channel
<1>2. Has(u \o ms, Ends) <=> Has(ms, Ends)
  BY <1>1, HasCat
<1> QED BY <1>1, <1>2, EndCat DEF Channel

-----------------------------------------------------------------------------
(* What the primary keeps of its workers. *)
Forked(w) == reg[w].state # "unforked"
Waits(w) == \E h \in DOMAIN hs : In(hs[h].waiting, w)
Wired(w) == Channel(up[w], proc[w].connected, reg[w].connected) /\ (reg[w].connected => Forked(w))

(* A worker leaves cluster.workers when it is meant to go, or is gone. *)
Listing(w) ==
  /\ Forked(w) /\ ~reg[w].listed => reg[w].exitedAfterDisconnect \/ (reg[w].dead /\ ~reg[w].connected)
  /\ reg[w].dead /\ ~reg[w].connected => ~reg[w].listed \/ Unacknowledged(w)

(* Only the handle of the table is binding, and somebody waits for it. *)
BindingWaits == \A h \in DOMAIN hs : hs[h].st = "binding" => table = h /\ hs[h].waiting # <<>>

(* The workers of the handle in the table are listed, and none is gone that *)
(* the primary knows of.                                                    *)
Members ==
  fault = None /\ table # None =>
    /\ hs[table].all # {}
    /\ \A w \in hs[table].all : reg[w].listed /\ (reg[w].connected \/ Unacknowledged(w))

Talks(w) ==
  /\ Dialogue(up[w], down[w], proc[w].server, Waits(w))
  /\ fault = None /\ table # None /\ Outside(up[w], down[w], proc[w].server) => w \notin hs[table].all

Tracked ==
  Base /\ BindingWaits /\ Members /\ \A w \in Workers : Wired(w) /\ Listing(w) /\ Talks(w)

LEMMA UnackSame ==
  ASSUME NEW w, down'[w] = down[w], policy' = policy
  PROVE  Unacknowledged(w)' <=> Unacknowledged(w)
BY DEF Unacknowledged

(* A step after which the handles have the same workers. *)
HandlesAlike ==
  /\ DOMAIN hs' = DOMAIN hs /\ table' = table
  /\ \A h \in DOMAIN hs : hs'[h].all = hs[h].all /\ hs'[h].waiting = hs[h].waiting /\ hs'[h].st = hs[h].st
RegAlike(v) ==
  /\ reg'[v].listed = reg[v].listed /\ (Forked(v)' <=> Forked(v))
  /\ reg'[v].dead = reg[v].dead \/ (reg[v].connected /\ reg'[v].connected)
  /\ reg[v].exitedAfterDisconnect => reg'[v].exitedAfterDisconnect
  /\ \/ reg'[v].connected = reg[v].connected
     \/ ~reg'[v].connected /\ Unacknowledged(v) /\ down'[v] = down[v]
TalkAlike(v) ==
  /\ down'[v] = down[v] \/ reg[v].connected
  /\ Dialogue(up'[v], down'[v], proc'[v].server, Waits(v))
  /\ Outside(up'[v], down'[v], proc'[v].server) => Outside(up[v], down[v], proc[v].server)

LEMMA WaitsAlike ==
  ASSUME HandlesAlike, NEW v
  PROVE  Waits(v)' = Waits(v)
BY DEF HandlesAlike, Waits

LEMMA AlikeTracked ==
  ASSUME Tracked, Base', HandlesAlike, UNCHANGED <<policy, fault>>,
         \A v \in Workers : RegAlike(v) /\ TalkAlike(v) /\ Wired(v)'
  PROVE  Tracked'
<1>1. BindingWaits'
  BY DEF Tracked, BindingWaits, HandlesAlike
<1>2. ASSUME NEW v \in Workers, ~reg[v].connected, Unacknowledged(v) PROVE Unacknowledged(v)' /\ ~reg'[v].connected
  BY <1>2, UnackSame DEF RegAlike, TalkAlike
<1>3. ASSUME NEW v \in Workers, reg[v].connected \/ Unacknowledged(v)
      PROVE  reg'[v].connected \/ Unacknowledged(v)'
  BY <1>2, <1>3, UnackSame DEF RegAlike, TalkAlike
<1>4. Members'
  <2>1. ASSUME fault' = None, table' # None
        PROVE  hs'[table'].all # {} /\ \A w \in hs'[table'].all : reg'[w].listed /\ (reg'[w].connected \/ Unacknowledged(w)')
    <3>1. table \in DOMAIN hs /\ table' = table /\ hs'[table].all = hs[table].all /\ fault = None
      BY <2>1, BaseFields DEF HandlesAlike, Tracked
    <3>2. hs[table].all \subseteq Workers
      BY <3>1, BaseFields, HandleFields DEF Tracked, Fit
    <3>3. hs[table].all # {} /\ \A w \in hs[table].all : reg[w].listed /\ (reg[w].connected \/ Unacknowledged(w))
      BY <2>1, <3>1 DEF Tracked, Members
    <3> QED BY <1>3, <3>1, <3>2, <3>3 DEF RegAlike
  <2> QED BY <2>1 DEF Members
<1>5. ASSUME NEW v \in Workers PROVE Listing(v)' /\ Talks(v)'
  <2>1. Listing(v) /\ Talks(v) /\ RegAlike(v) /\ TalkAlike(v)
    BY DEF Tracked
  <2>2. Listing(v)'
    BY <1>2, <2>1, UnackSame DEF Listing, RegAlike
  <2>3. Waits(v)' = Waits(v)
    BY WaitsAlike
  <2>4. table # None => hs'[table].all = hs[table].all
    BY BaseFields DEF HandlesAlike, Tracked
  <2>5. Talks(v)'
    <3>1. Dialogue(up'[v], down'[v], proc'[v].server, Waits(v)')
      BY <2>1, <2>3 DEF TalkAlike
    <3>2. table' = table /\ fault' = fault
      BY DEF HandlesAlike
    <3>3. fault' = None /\ table' # None /\ Outside(up'[v], down'[v], proc'[v].server) => v \notin hs'[table'].all
      BY <2>1, <2>4, <3>2 DEF TalkAlike, Talks
    <3> QED BY <3>1, <3>3 DEF Talks
  <2> QED BY <2>2, <2>5
<1> QED BY <1>1, <1>4, <1>5 DEF Tracked

-----------------------------------------------------------------------------
(* The actions of a worker. *)
OthersSame(w) == \A v \in Workers : v # w => up'[v] = up[v] /\ down'[v] = down[v] /\ proc'[v] = proc[v]

LEMMA WorkerTracked ==
  ASSUME Tracked, Base', UNCHANGED <<policy, primary, fault>>, NEW w \in Workers, OthersSame(w),
         down'[w] = down[w] \/ proc[w].connected,
         Channel(up'[w], proc'[w].connected, reg[w].connected),
         Dialogue(up'[w], down'[w], proc'[w].server, Waits(w)),
         Outside(up'[w], down'[w], proc'[w].server) => Outside(up[w], down[w], proc[w].server)
  PROVE  Tracked'
<1>1. reg' = reg /\ table' = table /\ hs' = hs /\ policy' = policy /\ fault' = fault
  BY DEF primary
<1>2. HandlesAlike
  BY <1>1 DEF HandlesAlike
<1>3. ASSUME NEW v \in Workers PROVE RegAlike(v) /\ TalkAlike(v) /\ Wired(v)'
  <2>1. Wired(v) /\ Talks(v)
    BY DEF Tracked
  <2>2. RegAlike(v)
    BY <1>1 DEF RegAlike, Forked
  <2>3. CASE v = w
    <3>1. proc[w].connected => reg[w].connected
      BY <2>1, <2>3 DEF Wired, Channel
    <3>2. TalkAlike(w)
      BY <3>1 DEF TalkAlike
    <3>3. Wired(w)'
      BY <1>1, <2>1, <2>3 DEF Wired, Forked
    <3> QED BY <2>2, <2>3, <3>2, <3>3
  <2>4. CASE v # w
    <3>1. up'[v] = up[v] /\ down'[v] = down[v] /\ proc'[v] = proc[v]
      BY <2>4 DEF OthersSame
    <3>2. TalkAlike(v)
      BY <2>1, <3>1 DEF TalkAlike, Talks
    <3>3. Wired(v)'
      BY <1>1, <2>1, <3>1 DEF Wired, Forked
    <3> QED BY <2>2, <3>2, <3>3
  <2> QED BY <2>3, <2>4
<1> QED BY <1>1, <1>2, <1>3, AlikeTracked

LEMMA WaitsBool == \A w : Waits(w) \in BOOLEAN
BY DEF Waits

LEMMA TrackedSeqs ==
  ASSUME Tracked, NEW w \in Workers
  PROVE  /\ up[w] \in Seq(UpMsg) /\ down[w] \in Seq(DownMsg) /\ Waits(w) \in BOOLEAN
         /\ Channel(up[w], proc[w].connected, reg[w].connected)
         /\ Dialogue(up[w], down[w], proc[w].server, Waits(w))
         /\ proc[w].connected \in BOOLEAN /\ reg[w].connected \in BOOLEAN
BY BaseFields, ProcFields, RegFields, WaitsBool DEF Tracked, Wired, Talks

(* One that says nothing of its server. *)
Reads(w) ==
  \/ down'[w] = down[w]
  \/ /\ proc[w].connected /\ down[w] # <<>> /\ Head(down[w]) \notin Replies /\ down'[w] = Tail(down[w])
Says(w, ms) ==
  /\ ms \in Seq(UpMsg) /\ up'[w] = up[w] \o ms /\ EndLast(ms)
  /\ Has(ms, Ends) => ~proc'[w].connected
  /\ proc'[w].connected => proc[w].connected
  /\ ms = <<>> \/ proc[w].connected

LEMMA ReadsKeeps ==
  ASSUME Tracked, NEW w \in Workers, Reads(w)
  PROVE  /\ Dialogue(up[w], down'[w], proc[w].server, Waits(w))
         /\ Outside(up[w], down'[w], proc[w].server) <=> Outside(up[w], down[w], proc[w].server)
         /\ down'[w] = down[w] \/ proc[w].connected
<1>1. CASE down'[w] = down[w]
  BY <1>1, TrackedSeqs
<1>2. CASE proc[w].connected /\ down[w] # <<>> /\ Head(down[w]) \notin Replies /\ down'[w] = Tail(down[w])
  <2> DEFINE u == up[w]
             d == down[w]
             s == proc[w].server
             k == Waits(w)
  <2>1. d \in Seq(DownMsg) /\ d # <<>> /\ k \in BOOLEAN /\ Dialogue(u, d, s, k) /\ Head(d) \notin Replies
    BY <1>2, TrackedSeqs
  <2>2. down'[w] = Tail(d)
    BY <1>2
  <2> HIDE DEF u, d, s, k
  <2>3. /\ Dialogue(u, Tail(d), s, k)
        /\ Outside(u, Tail(d), s) <=> Outside(u, d, s)
    BY <2>1, DialogueRead
  <2> QED BY <1>2, <2>2, <2>3 DEF u, d, s, k
<1> QED BY <1>1, <1>2 DEF Reads

LEMMA SaysChannel ==
  ASSUME Tracked, Base', NEW w \in Workers, NEW ms, Says(w, ms)
  PROVE  Channel(up'[w], proc'[w].connected, reg[w].connected)
<1>0. proc'[w].connected \in BOOLEAN
  BY DEF Base, WorkersOK, ProcRec
<1>1. CASE proc[w].connected
  <2>1. Channel(up[w], TRUE, reg[w].connected)
    BY <1>1, TrackedSeqs
  <2> QED BY <1>0, <2>1, TrackedSeqs, ChannelTold DEF Says
<1>2. CASE ~proc[w].connected
  <2>1. up'[w] = up[w]
    BY <1>2, TrackedSeqs DEF Says
  <2>2. proc'[w].connected = proc[w].connected
    BY <1>0, <1>2, TrackedSeqs DEF Says
  <2> QED BY <2>1, <2>2, TrackedSeqs
<1> QED BY <1>1, <1>2

(* The dialogue after some neutral messages, of the primary's half as it is. *)
LEMMA SaysMore ==
  ASSUME NEW u \in Seq(UpMsg), NEW d, NEW s, NEW k \in BOOLEAN, Dialogue(u, d, s, k),
         NEW ms \in Seq(UpMsg), Neutral(ms), NEW y, y = u \o ms
  PROVE  /\ Dialogue(y, d, s, k)
         /\ Outside(y, d, s) <=> Outside(u, d, s)
BY DialogueSays

LEMMA NeutralTracked ==
  ASSUME Tracked, Base', UNCHANGED <<policy, primary, fault>>, NEW w \in Workers, OthersSame(w),
         Reads(w), NEW ms, Says(w, ms), Neutral(ms), proc'[w].server = proc[w].server
  PROVE  Tracked'
<1>1. Channel(up'[w], proc'[w].connected, reg[w].connected)
  BY SaysChannel
<1>2. /\ Dialogue(up[w], down'[w], proc[w].server, Waits(w))
      /\ Outside(up[w], down'[w], proc[w].server) <=> Outside(up[w], down[w], proc[w].server)
      /\ down'[w] = down[w] \/ proc[w].connected
  BY ReadsKeeps
<1>3. up[w] \in Seq(UpMsg) /\ ms \in Seq(UpMsg) /\ up'[w] = up[w] \o ms /\ Waits(w) \in BOOLEAN
  BY TrackedSeqs DEF Says
<1>4. /\ Dialogue(up'[w], down'[w], proc[w].server, Waits(w))
      /\ Outside(up'[w], down'[w], proc[w].server) <=> Outside(up[w], down'[w], proc[w].server)
  BY <1>2, <1>3, DialogueSays
<1> QED BY <1>1, <1>2, <1>4, WorkerTracked

(* What the messages are. *)
LEMMA MsgKind ==
  ASSUME NEW m \in UpMsg
  PROVE  /\ <<m>> \in Seq(UpMsg) /\ EndLast(<<m>>)
         /\ m.act = "queryServer" => m \in Asking
         /\ m.act = "close" => m \in Closings
         /\ m.act \notin {"queryServer", "close"} => Neutral(<<m>>)
         /\ Has(<<m>>, Ends) <=> m.act = "EOF"
<1>1. EndLast(<<m>>)
  BY DEF EndLast
<1>2. (m \in Asking <=> m.act = "queryServer") /\ (m \in Closings <=> m.act = "close") /\ (m \in Ends <=> m.act = "EOF")
  BY DEF Asking, Closings, Ends
<1> QED BY <1>1, <1>2, HasOne DEF Neutral

LEMMA MsgUp ==
  ASSUME NEW act \in UpActs
  PROVE  Msg(act) \in UpMsg /\ Msg(act).act = act
BY DEF Msg, UpMsg

LEMMA NoneSaid == <<>> \in Seq(UpMsg) /\ EndLast(<<>>) /\ Neutral(<<>>) /\ ~Has(<<>>, Ends)
BY DEF EndLast, Neutral, Has

LEMMA SetSame ==
  ASSUME Tracked, NEW w \in Workers, NEW p, Set(w, p)
  PROVE  proc'[w] = p /\ \A v \in Workers : v # w => proc'[v] = proc[v]
BY BaseFields DEF Set, Tracked

LEMMA TellSame ==
  ASSUME Tracked, NEW w \in Workers, NEW ms, Tell(w, ms)
  PROVE  up'[w] = up[w] \o ms /\ \A v \in Workers : v # w => up'[v] = up[v]
BY BaseFields DEF Tell, Tracked

LEMMA TakeSame ==
  ASSUME Tracked, NEW w \in Workers
  PROVE  /\ up' = Take(up, w) => up'[w] = Tail(up[w]) /\ \A v \in Workers : v # w => up'[v] = up[v]
         /\ down' = Take(down, w) => down'[w] = Tail(down[w]) /\ \A v \in Workers : v # w => down'[v] = down[v]
BY BaseFields DEF Take, Tracked

LEMMA listenTracked ==
  ASSUME Tracked, Base', NEW w \in Workers, listen(w)
  PROVE  Tracked'
<1> DEFINE m == Msg("queryServer")
           p == [proc[w] EXCEPT !.server = "asked"]
<1>1. UNCHANGED <<policy, primary, fault>> /\ down' = down /\ Set(w, p) /\ Tell(w, <<m>>) /\ proc[w].server = "none"
      /\ proc[w].connected
  BY DEF listen, Running
<1>2. m \in UpMsg /\ m \in Asking /\ <<m>> \in Seq(UpMsg) /\ EndLast(<<m>>) /\ ~Has(<<m>>, Ends)
  BY MsgUp, MsgKind DEF UpActs
<1>3. p.server = "asked" /\ p.connected = proc[w].connected
  BY ProcFields DEF Tracked, ProcRec
<1> HIDE DEF m, p
<1>4. proc'[w] = p /\ up'[w] = up[w] \o <<m>> /\ OthersSame(w)
  BY <1>1, SetSame, TellSame DEF OthersSame
<1>5. Says(w, <<m>>)
  BY <1>1, <1>2, <1>3, <1>4 DEF Says
<1>6. Channel(up'[w], proc'[w].connected, reg[w].connected)
  BY <1>5, SaysChannel
<1>7. /\ Dialogue(up[w] \o <<m>>, down[w], "asked", Waits(w))
      /\ Outside(up[w] \o <<m>>, down[w], "asked") => Outside(up[w], down[w], "none")
  <2>1. Dialogue(up[w], down[w], "none", Waits(w)) /\ up[w] \in Seq(UpMsg) /\ Waits(w) \in BOOLEAN
    BY <1>1, TrackedSeqs
  <2> QED BY <1>2, <2>1, DialogueAsks
<1> QED BY <1>1, <1>3, <1>4, <1>6, <1>7, WorkerTracked

(* A worker closes its open server and may say more. *)
LEMMA ClosesTracked ==
  ASSUME Tracked, Base', UNCHANGED <<policy, primary, fault>>, NEW w \in Workers, OthersSame(w), Reads(w),
         NEW ms, ms \in Seq(UpMsg), Neutral(ms), EndLast(ms), Has(ms, Ends) => ~proc'[w].connected,
         up'[w] = (up[w] \o <<Msg("close")>>) \o ms, proc[w].server = "open", proc'[w].server = "none",
         proc[w].connected
  PROVE  Tracked'
<1> DEFINE m == Msg("close")
<1>1. m \in UpMsg /\ m \in Closings /\ <<m>> \in Seq(UpMsg) /\ EndLast(<<m>>) /\ ~Has(<<m>>, Ends)
  BY MsgUp, MsgKind DEF UpActs
<1>10. up'[w] = (up[w] \o <<m>>) \o ms
  OBVIOUS
<1> HIDE DEF m
<1>2. up[w] \in Seq(UpMsg) /\ up[w] \o <<m>> \in Seq(UpMsg) /\ Waits(w) \in BOOLEAN
  BY <1>1, TrackedSeqs
<1>3. /\ Dialogue(up[w], down'[w], "open", Waits(w)) /\ (down'[w] = down[w] \/ proc[w].connected)
  BY ReadsKeeps
<1>4. Dialogue(up[w] \o <<m>>, down'[w], "none", Waits(w)) /\ ~Outside(up[w] \o <<m>>, down'[w], "none")
  BY <1>1, <1>2, <1>3, DialogueCloses
<1>5. Dialogue(up'[w], down'[w], "none", Waits(w)) /\ ~Outside(up'[w], down'[w], "none")
  <2> DEFINE u == up[w] \o <<m>>
             d == down'[w]
             k == Waits(w)
             y == up'[w]
             x == ms
             t == "none"
  <2>1. /\ u \in Seq(UpMsg) /\ k \in BOOLEAN /\ y = u \o x /\ x \in Seq(UpMsg) /\ Neutral(x)
        /\ Dialogue(u, d, t, k) /\ ~Outside(u, d, t)
    BY <1>2, <1>4, <1>10
  <2> HIDE DEF u, d, k, y, x, t
  <2>2. /\ Dialogue(y, d, t, k)
        /\ Outside(y, d, t) <=> Outside(u, d, t)
    BY <2>1, SaysMore
  <2>3. Dialogue(y, d, t, k) /\ ~Outside(y, d, t)
    BY <2>1, <2>2
  <2> QED BY <2>3 DEF d, k, y, t
<1>6. Channel(up[w], TRUE, reg[w].connected) /\ reg[w].connected \in BOOLEAN
  BY TrackedSeqs
<1>7. Channel(up[w] \o <<m>>, TRUE, reg[w].connected)
  BY <1>1, <1>2, <1>6, ChannelTold
<1>8. proc'[w].connected \in BOOLEAN
  BY DEF Base, WorkersOK, ProcRec
<1>9. Channel(up'[w], proc'[w].connected, reg[w].connected)
  BY <1>2, <1>6, <1>7, <1>8, <1>10, ChannelTold
<1> QED BY <1>3, <1>5, <1>9, WorkerTracked

LEMMA closeServerTracked ==
  ASSUME Tracked, Base', NEW w \in Workers, closeServer(w)
  PROVE  Tracked'
<1> DEFINE m == Msg("close")
           p == [proc[w] EXCEPT !.server = "none", !.conns = {}]
<1>1. UNCHANGED <<policy, primary, fault>> /\ down' = down /\ Set(w, p) /\ Tell(w, <<m>>) /\ proc[w].server = "open"
      /\ proc[w].connected
  BY DEF closeServer, Running
<1>3. p.server = "none" /\ p.connected = proc[w].connected
  BY ProcFields DEF Tracked, ProcRec
<1>2. m \in UpMsg /\ <<m>> \in Seq(UpMsg)
  BY MsgUp, MsgKind DEF UpActs
<1> HIDE DEF p
<1>4. proc'[w] = p /\ up'[w] = up[w] \o <<m>> /\ OthersSame(w)
  BY <1>1, SetSame, TellSame DEF OthersSame
<1>5. up'[w] = (up[w] \o <<m>>) \o <<>>
  BY <1>2, <1>4, TrackedSeqs
<1>6. Reads(w)
  BY <1>1 DEF Reads
<1> QED BY <1>1, <1>3, <1>4, <1>5, <1>6, NoneSaid, ClosesTracked

LEMMA replyTracked ==
  ASSUME Tracked, Base', NEW w \in Workers, reply(w)
  PROVE  Tracked'
<1> DEFINE m == Msg("listening")
           p == [proc[w] EXCEPT !.server = "open", !.state = "listening"]
           q == [proc[w] EXCEPT !.server = "none"]
<1>1. /\ UNCHANGED <<policy, primary, fault>> /\ down' = Take(down, w) /\ down[w] # <<>> /\ Head(down[w]).act = "reply"
      /\ proc[w].connected
      /\ \/ Head(down[w]).ok /\ Set(w, p) /\ Tell(w, <<m>>)
         \/ ~Head(down[w]).ok /\ Set(w, q) /\ up' = up
  BY DEF reply, Gets
<1>2. m \in UpMsg /\ Neutral(<<m>>) /\ <<m>> \in Seq(UpMsg) /\ EndLast(<<m>>) /\ ~Has(<<m>>, Ends)
  BY MsgUp, MsgKind DEF UpActs
<1>3. p.server = "open" /\ p.connected = proc[w].connected /\ q.server = "none" /\ q.connected = proc[w].connected
  BY ProcFields DEF Tracked, ProcRec
<1> HIDE DEF m, p, q
<1>4. /\ down'[w] = Tail(down[w]) /\ OthersSame(w) /\ proc'[w].connected = proc[w].connected
      /\ \/ Head(down[w]).ok /\ proc'[w].server = "open" /\ up'[w] = up[w] \o <<m>>
         \/ ~Head(down[w]).ok /\ proc'[w].server = "none" /\ up'[w] = up[w]
  <2>1. down'[w] = Tail(down[w]) /\ \A v \in Workers : v # w => down'[v] = down[v]
    BY <1>1, TakeSame
  <2>2. CASE Head(down[w]).ok /\ Set(w, p) /\ Tell(w, <<m>>)
    BY <1>3, <2>1, <2>2, SetSame, TellSame DEF OthersSame
  <2>3. CASE ~Head(down[w]).ok /\ Set(w, q) /\ up' = up
    BY <1>3, <2>1, <2>3, SetSame DEF OthersSame
  <2> QED BY <1>1, <2>2, <2>3
<1>5. Head(down[w]) \in Replies
  <2>1. Head(down[w]) \in DownMsg
    BY <1>1, TrackedSeqs
  <2> QED BY <1>1, <2>1 DEF Replies
<1>6. /\ Dialogue(up[w], Tail(down[w]), "open", Waits(w)) /\ ~Outside(up[w], Tail(down[w]), "open")
      /\ Dialogue(up[w], Tail(down[w]), "none", Waits(w))
      /\ ~Head(down[w]).ok => Outside(up[w], down[w], proc[w].server)
  <2> DEFINE u == up[w]
             d == down[w]
             s == proc[w].server
             k == Waits(w)
  <2>1. d \in Seq(DownMsg) /\ d # <<>> /\ k \in BOOLEAN /\ Dialogue(u, d, s, k) /\ Head(d) \in Replies
    BY <1>1, <1>5, TrackedSeqs
  <2> HIDE DEF u, d, s, k
  <2>2. /\ Dialogue(u, Tail(d), "open", k) /\ ~Outside(u, Tail(d), "open")
        /\ Dialogue(u, Tail(d), "none", k)
        /\ ~Head(d).ok => Outside(u, d, s)
    BY <2>1, DialogueAnswered
  <2> QED BY <2>2 DEF u, d, s, k
<1>7. CASE Head(down[w]).ok
  <2>1. up'[w] = up[w] \o <<m>> /\ proc'[w].server = "open"
    BY <1>4, <1>7
  <2>2. Dialogue(up'[w], down'[w], "open", Waits(w)) /\ ~Outside(up'[w], down'[w], "open")
    <3> DEFINE u == up[w]
               d == down'[w]
               k == Waits(w)
               y == up'[w]
               ms == <<m>>
    <3>1. /\ u \in Seq(UpMsg) /\ k \in BOOLEAN /\ y = u \o ms /\ ms \in Seq(UpMsg) /\ Neutral(ms)
          /\ Dialogue(u, d, "open", k) /\ ~Outside(u, d, "open")
      BY <1>2, <1>4, <1>6, <2>1, TrackedSeqs
    <3> HIDE DEF u, d, k, y, ms
    <3>2. /\ Dialogue(y, d, "open", k)
          /\ Outside(y, d, "open") <=> Outside(u, d, "open")
      BY <3>1, SaysMore
    <3>3. Dialogue(y, d, "open", k) /\ ~Outside(y, d, "open")
      BY <3>1, <3>2
    <3> QED BY <3>3 DEF d, k, y
  <2>3. Says(w, <<m>>)
    BY <1>1, <1>2, <1>4, <2>1 DEF Says
  <2>4. Channel(up'[w], proc'[w].connected, reg[w].connected)
    BY <2>3, SaysChannel
  <2> QED BY <1>1, <1>4, <2>1, <2>2, <2>4, WorkerTracked
<1>8. CASE ~Head(down[w]).ok
  <2>1. up'[w] = up[w] /\ proc'[w].server = "none"
    BY <1>4, <1>8
  <2>2. Channel(up'[w], proc'[w].connected, reg[w].connected)
    BY <1>4, <2>1, TrackedSeqs
  <2> QED BY <1>1, <1>4, <1>6, <1>8, <2>1, <2>2, WorkerTracked
<1> QED BY <1>7, <1>8

(* An action of a worker that leaves its server alone. *)
LEMMA SaidTracked ==
  ASSUME Tracked, Base', UNCHANGED <<policy, primary, fault>>, NEW w \in Workers,
         NEW p, Set(w, p) \/ (proc' = proc /\ p = proc[w]),
         NEW ms \in Seq(UpMsg), Tell(w, ms) \/ (ms = <<>> /\ up' = up),
         Neutral(ms), EndLast(ms), Has(ms, Ends) => ~p.connected, ms = <<>> \/ proc[w].connected,
         p.server = proc[w].server, p.connected => proc[w].connected,
         \/ down' = down
         \/ proc[w].connected /\ down[w] # <<>> /\ Head(down[w]) \notin Replies /\ down' = Take(down, w)
  PROVE  Tracked'
<1>1. proc'[w] = p /\ \A v \in Workers : v # w => proc'[v] = proc[v]
  BY SetSame
<1>2. up'[w] = up[w] \o ms /\ \A v \in Workers : v # w => up'[v] = up[v]
  <2>1. CASE Tell(w, ms)
    BY <2>1, TellSame
  <2>2. CASE ms = <<>> /\ up' = up
    BY <2>2, TrackedSeqs
  <2> QED BY <2>1, <2>2
<1>3. Reads(w) /\ \A v \in Workers : v # w => down'[v] = down[v]
  BY TakeSame DEF Reads
<1>4. OthersSame(w)
  BY <1>1, <1>2, <1>3 DEF OthersSame
<1>5. Says(w, ms)
  BY <1>1, <1>2 DEF Says
<1>6. proc'[w].server = proc[w].server
  BY <1>1
<1> QED BY <1>3, <1>4, <1>5, <1>6, NeutralTracked

LEMMA KindUp ==
  ASSUME NEW act \in {"EOF", "exitedAfterDisconnect"}
  PROVE  /\ <<Msg(act)>> \in Seq(UpMsg) /\ Neutral(<<Msg(act)>>) /\ EndLast(<<Msg(act)>>)
         /\ Has(<<Msg(act)>>, Ends) <=> act = "EOF"
<1>1. Msg(act) \in UpMsg /\ Msg(act).act = act
  BY MsgUp DEF UpActs
<1> QED BY <1>1, MsgKind

LEMMA quietTracked ==
  ASSUME Tracked, Base', NEW w \in Workers, orphaned(w) \/ exit(w) \/ \E c \in Conns : endConn(w, c)
  PROVE  Tracked'
<1>1. UNCHANGED <<policy, primary, fault, down, up>>
  BY DEF orphaned, exit, endConn
<1>2. \E p : Set(w, p) /\ p.server = proc[w].server /\ (p.connected => proc[w].connected)
  <2>0. proc[w] \in ProcRec
    BY ProcFields DEF Tracked
  <2>1. CASE orphaned(w)
    <3> DEFINE a == proc[w].alive /\ proc[w].exitedAfterDisconnect
               p == [proc[w] EXCEPT !.connected = FALSE, !.alive = a]
    <3>1. Set(w, p)
      BY <2>1 DEF orphaned
    <3> HIDE DEF a
    <3>2. p.server = proc[w].server /\ ~p.connected
      BY <2>0 DEF ProcRec
    <3> QED BY <3>1, <3>2
  <2>2. CASE exit(w)
    <3> DEFINE p == [proc[w] EXCEPT !.alive = FALSE]
    <3>1. Set(w, p)
      BY <2>2 DEF exit
    <3>2. p.server = proc[w].server /\ p.connected = proc[w].connected
      BY <2>0 DEF ProcRec
    <3> QED BY <3>1, <3>2
  <2>3. ASSUME NEW c \in Conns, endConn(w, c)
        PROVE  \E p : Set(w, p) /\ p.server = proc[w].server /\ (p.connected => proc[w].connected)
    <3> DEFINE s == proc[w].conns \ {c}
               p == [proc[w] EXCEPT !.conns = s]
    <3>1. Set(w, p)
      BY <2>3 DEF endConn
    <3> HIDE DEF s
    <3>2. p.server = proc[w].server /\ p.connected = proc[w].connected
      BY <2>0 DEF ProcRec
    <3> QED BY <3>1, <3>2
  <2> QED BY <2>1, <2>2, <2>3
<1> DEFINE e == <<>>
<1>3. e \in Seq(UpMsg) /\ EndLast(e) /\ Neutral(e) /\ ~Has(e, Ends)
  BY NoneSaid
<1> QED BY <1>1, <1>2, <1>3, SaidTracked

LEMMA DisconnectedIs ==
  ASSUME NEW w, NEW p \in ProcRec
  PROVE  ~Disconnected(w, p).connected /\ Disconnected(w, p).server = p.server
BY DEF Disconnected, ProcRec

LEMMA workerDestroyTracked ==
  ASSUME Tracked, Base', NEW w \in Workers, workerDestroy(w)
  PROVE  Tracked'
<1> DEFINE p == [proc[w] EXCEPT !.exitedAfterDisconnect = TRUE, !.state = "destroying"]
           ms == <<Msg("exitedAfterDisconnect")>>
<1>1. UNCHANGED <<policy, primary, fault, down>> /\ Set(w, p) /\ Tell(w, ms) /\ proc[w].connected
  BY DEF workerDestroy, Running
<1>2. p.server = proc[w].server /\ p.connected = proc[w].connected
  BY ProcFields DEF Tracked, ProcRec
<1>3. ms \in Seq(UpMsg) /\ Neutral(ms) /\ EndLast(ms) /\ ~Has(ms, Ends)
  BY KindUp
<1> HIDE DEF p, ms
<1> QED BY <1>1, <1>2, <1>3, SaidTracked

LEMMA crashTracked ==
  ASSUME Tracked, Base', NEW w \in Workers, crash(w)
  PROVE  Tracked'
<1> DEFINE p == [proc[w] EXCEPT !.alive = FALSE, !.connected = FALSE, !.conns = {}]
           ms == IF proc[w].connected THEN <<Msg("EOF")>> ELSE <<>>
<1>1. UNCHANGED <<policy, primary, fault, down>> /\ Set(w, p) /\ Tell(w, ms)
  BY DEF crash
<1>2. p.server = proc[w].server /\ ~p.connected
  BY ProcFields DEF Tracked, ProcRec
<1>3. ms \in Seq(UpMsg) /\ Neutral(ms) /\ EndLast(ms) /\ (ms = <<>> \/ proc[w].connected)
  BY KindUp, NoneSaid
<1> HIDE DEF p, ms
<1> QED BY <1>1, <1>2, <1>3, SaidTracked

LEMMA waitingDoneTracked ==
  ASSUME Tracked, Base', NEW w \in Workers, waitingDone(w)
  PROVE  Tracked'
<1>0. UNCHANGED <<policy, primary, fault, down>> /\ proc[w].connected /\ proc[w] \in ProcRec
  BY ProcFields DEF waitingDone, Running, Tracked
<1>1. CASE proc[w].waiting = "primary"
  <2> DEFINE p == Disconnected(w, proc[w])
             ms == <<Msg("EOF")>>
  <2>1. Set(w, p) /\ Tell(w, ms)
    BY <1>1 DEF waitingDone
  <2>2. p.server = proc[w].server /\ ~p.connected
    BY <1>0, DisconnectedIs
  <2>3. ms \in Seq(UpMsg) /\ Neutral(ms) /\ EndLast(ms)
    BY KindUp
  <2> HIDE DEF p, ms
  <2> QED BY <1>0, <2>1, <2>2, <2>3, SaidTracked
<1>2. CASE proc[w].waiting = "self"
  <2> DEFINE p == [proc[w] EXCEPT !.waiting = "no"]
             ms == <<Msg("exitedAfterDisconnect")>>
  <2>1. Set(w, p) /\ Tell(w, ms)
    BY <1>2 DEF waitingDone
  <2>2. p.server = proc[w].server /\ p.connected = proc[w].connected
    BY <1>0 DEF ProcRec
  <2>3. ms \in Seq(UpMsg) /\ Neutral(ms) /\ EndLast(ms) /\ ~Has(ms, Ends)
    BY KindUp
  <2> HIDE DEF p, ms
  <2> QED BY <1>0, <2>1, <2>2, <2>3, SaidTracked
<1> QED BY <1>1, <1>2 DEF waitingDone

(* What a worker reads that is not an answer. *)
LEMMA NoReply ==
  ASSUME NEW w, NEW act, act # "reply", Gets(w, act)
  PROVE  proc[w].connected /\ down[w] # <<>> /\ Head(down[w]) \notin Replies
BY DEF Gets, Replies

LEMMA ackExitedTracked ==
  ASSUME Tracked, Base', NEW w \in Workers, ackExited(w)
  PROVE  Tracked'
<1> DEFINE p == Disconnected(w, proc[w])
           ms == <<Msg("EOF")>>
<1>1. UNCHANGED <<policy, primary, fault>> /\ Set(w, p) /\ Tell(w, ms) /\ down' = Take(down, w)
  BY DEF ackExited
<1>2. proc[w].connected /\ down[w] # <<>> /\ Head(down[w]) \notin Replies
  BY NoReply DEF ackExited
<1>3. p.server = proc[w].server /\ ~p.connected
  BY ProcFields, DisconnectedIs DEF Tracked
<1>4. ms \in Seq(UpMsg) /\ Neutral(ms) /\ EndLast(ms)
  BY KindUp
<1> HIDE DEF p, ms
<1> QED BY <1>1, <1>2, <1>3, <1>4, SaidTracked

LEMMA onconnectionTracked ==
  ASSUME Tracked, Base', NEW w \in Workers, onconnection(w)
  PROVE  Tracked'
<1> DEFINE m == Head(down[w])
           a == ConnMsg("ackNewconn", m.c, m.h, Accepts(w))
           s == proc[w].conns \cup {m.c}
           p == IF Accepts(w) THEN [proc[w] EXCEPT !.conns = s] ELSE proc[w]
           ms == <<a>>
<1>1. /\ UNCHANGED <<policy, primary, fault>> /\ Tell(w, ms) /\ down' = Take(down, w)
      /\ Set(w, p) \/ (proc' = proc /\ p = proc[w])
  BY DEF onconnection
<1>2. proc[w].connected /\ down[w] # <<>> /\ Head(down[w]) \notin Replies
  BY NoReply DEF onconnection
<1>3. p.server = proc[w].server /\ p.connected = proc[w].connected
  <2> HIDE DEF s
  <2> QED BY ProcFields DEF Tracked, ProcRec
<1>4. m.c \in Conns /\ m.h \in Nat
  <2>1. Gets(w, "newconn") /\ Base
    BY DEF onconnection, Tracked
  <2> HIDE DEF m
  <2>2. m.c \in Conns /\ m.h \in DOMAIN hs
    BY <2>1, newconnIs DEF m
  <2> QED BY <2>1, <2>2, BaseFields
<1>5. a \in UpMsg /\ a.act = "ackNewconn"
  <2>1. Accepts(w) \in BOOLEAN
    BY DEF Accepts
  <2> HIDE DEF m
  <2> QED BY <1>4, <2>1 DEF ConnMsg, UpMsg, UpActs
<1> HIDE DEF a
<1>6. ms \in Seq(UpMsg) /\ Neutral(ms) /\ EndLast(ms) /\ ~Has(ms, Ends)
  BY <1>5, MsgKind
<1> HIDE DEF p, ms
<1> QED BY <1>1, <1>2, <1>3, <1>6, SaidTracked

(* What _disconnect() tells the primary; the new state of the process is q but *)
(* for its channel and its waiting.                                            *)
LEMMA LeaveCases ==
  ASSUME NEW w, proc[w] \in ProcRec, NEW who \in {"primary", "self"},
         NEW state \in {"none", "online", "listening", "disconnecting", "destroying"},
         _disconnect(w, who, state)
  PROVE  \E q, ms :
           /\ ms = <<>> \/ (ms = <<Msg("EOF")>> /\ ~q.connected) \/ ms = <<Msg("exitedAfterDisconnect")>>
           /\ q.connected => proc[w].connected
           /\ Set(w, q)
           /\ IF proc[w].server = "open" THEN q.server = "none" /\ Tell(w, <<Msg("close")>> \o ms)
              ELSE q.server = proc[w].server /\ ms # <<>> /\ Tell(w, <<>> \o ms)
<1> DEFINE p == [proc[w] EXCEPT !.exitedAfterDisconnect = TRUE, !.state = state]
           closes == IF p.server = "open" THEN <<Msg("close")>> ELSE <<>>
           s == IF p.server = "open" THEN "none" ELSE p.server
           q == [p EXCEPT !.server = s]
           r == [q EXCEPT !.waiting = who]
<1>1. \/ Set(w, r) /\ Tell(w, closes) /\ p.server = "open"
      \/ Set(w, Disconnected(w, q)) /\ Tell(w, closes \o <<Msg("EOF")>>)
      \/ Set(w, q) /\ Tell(w, closes \o <<Msg("exitedAfterDisconnect")>>)
  BY DEF _disconnect
<1>2. p \in ProcRec /\ p.server = proc[w].server /\ p.connected = proc[w].connected
  BY DEF ProcRec
<1>3. s \in {"none", "asked", "open"}
  BY <1>2 DEF ProcRec
<1>4. closes = IF proc[w].server = "open" THEN <<Msg("close")>> ELSE <<>>
  BY <1>2
<1>5. s = IF proc[w].server = "open" THEN "none" ELSE proc[w].server
  BY <1>2
<1> HIDE DEF p, s, closes
<1>6. q \in ProcRec /\ q.server = s /\ q.connected = proc[w].connected
  BY <1>2, <1>3 DEF ProcRec
<1> HIDE DEF q
<1>7. r.server = s /\ r.connected = proc[w].connected
  BY <1>6 DEF ProcRec
<1>8. Disconnected(w, q).server = s /\ ~Disconnected(w, q).connected
  BY <1>6, DisconnectedIs
<1> DEFINE t == Disconnected(w, q)
           E == <<Msg("EOF")>>
           X == <<Msg("exitedAfterDisconnect")>>
           C == <<Msg("close")>>
           e == <<>>
<1>9. C \o e = C /\ E # e /\ X # e /\ E = <<Msg("EOF")>>
  OBVIOUS
<1> HIDE DEF r, t, E, X, C, e
<1>10. \/ Set(w, r) /\ Tell(w, closes) /\ proc[w].server = "open"
       \/ Set(w, t) /\ Tell(w, closes \o E)
       \/ Set(w, q) /\ Tell(w, closes \o X)
  BY <1>1, <1>2 DEF t, E, X
<1>11. closes = (IF proc[w].server = "open" THEN C ELSE e) /\ t.server = s /\ ~t.connected
  BY <1>4, <1>8 DEF C, e, t
<1> DEFINE Case(qq, ms) ==
             /\ ms = e \/ (ms = E /\ ~qq.connected) \/ ms = X
             /\ qq.connected => proc[w].connected
             /\ Set(w, qq)
             /\ IF proc[w].server = "open" THEN qq.server = "none" /\ Tell(w, C \o ms)
                ELSE qq.server = proc[w].server /\ ms # e /\ Tell(w, e \o ms)
<1>12. CASE Set(w, r) /\ Tell(w, closes) /\ proc[w].server = "open"
  <2>1. Case(r, e)
    BY <1>5, <1>7, <1>9, <1>11, <1>12
  <2> QED BY <2>1 DEF e, E, X, C
<1>13. CASE Set(w, t) /\ Tell(w, closes \o E)
  <2>1. Case(t, E)
    BY <1>5, <1>9, <1>11, <1>13
  <2> QED BY <2>1 DEF e, E, X, C
<1>14. CASE Set(w, q) /\ Tell(w, closes \o X)
  <2>1. Case(q, X)
    BY <1>5, <1>6, <1>9, <1>11, <1>14
  <2> QED BY <2>1 DEF e, E, X, C
<1> QED BY <1>10, <1>12, <1>13, <1>14

LEMMA leavesTracked ==
  ASSUME Tracked, Base', UNCHANGED <<policy, primary, fault>>, NEW w \in Workers, proc[w].connected,
         NEW who \in {"primary", "self"},
         NEW state \in {"none", "online", "listening", "disconnecting", "destroying"},
         _disconnect(w, who, state),
         \/ down' = down
         \/ proc[w].connected /\ down[w] # <<>> /\ Head(down[w]) \notin Replies /\ down' = Take(down, w)
  PROVE  Tracked'
<1>0. proc[w] \in ProcRec
  BY ProcFields DEF Tracked
<1>1. PICK q, ms :
        /\ ms = <<>> \/ (ms = <<Msg("EOF")>> /\ ~q.connected) \/ ms = <<Msg("exitedAfterDisconnect")>>
        /\ q.connected => proc[w].connected
        /\ Set(w, q)
        /\ IF proc[w].server = "open" THEN q.server = "none" /\ Tell(w, <<Msg("close")>> \o ms)
           ELSE q.server = proc[w].server /\ ms # <<>> /\ Tell(w, <<>> \o ms)
  BY <1>0, LeaveCases
<1>2. ms \in Seq(UpMsg) /\ Neutral(ms) /\ EndLast(ms) /\ (Has(ms, Ends) => ~q.connected)
  BY <1>1, KindUp, NoneSaid
<1>3. CASE proc[w].server = "open"
  <2> DEFINE C == <<Msg("close")>>
             u == up[w]
  <2>1. C \in Seq(UpMsg) /\ u \in Seq(UpMsg)
    BY MsgUp, MsgKind, TrackedSeqs DEF UpActs
  <2>2. Tell(w, C \o ms) /\ q.server = "none"
    BY <1>1, <1>3
  <2> HIDE DEF C
  <2>3. proc'[w] = q /\ up'[w] = u \o (C \o ms)
        /\ \A v \in Workers : v # w => proc'[v] = proc[v] /\ up'[v] = up[v]
    BY <1>1, <2>2, SetSame, TellSame
  <2> HIDE DEF u
  <2>4. u \o (C \o ms) = (u \o C) \o ms
    BY <1>2, <2>1, ConcatAssociative
  <2>5. up'[w] = (up[w] \o <<Msg("close")>>) \o ms
    BY <2>3, <2>4 DEF u, C
  <2>6. Reads(w) /\ \A v \in Workers : v # w => down'[v] = down[v]
    BY TakeSame DEF Reads
  <2>7. OthersSame(w)
    BY <2>3, <2>6 DEF OthersSame
  <2> QED BY <1>2, <1>3, <2>2, <2>3, <2>5, <2>6, <2>7, ClosesTracked
<1>4. CASE proc[w].server # "open"
  <2>1. q.server = proc[w].server /\ Tell(w, ms)
    BY <1>1, <1>2, <1>4
  <2> QED BY <1>1, <1>2, <2>1, SaidTracked
<1> QED BY <1>3, <1>4

LEMMA disconnectTracked ==
  ASSUME Tracked, Base', NEW w \in Workers, disconnectMessage(w) \/ workerDisconnect(w)
  PROVE  Tracked'
<1>1. CASE disconnectMessage(w)
  <2>1. UNCHANGED <<policy, primary, fault>> /\ down' = Take(down, w) /\ _disconnect(w, "primary", proc[w].state)
    BY <1>1 DEF disconnectMessage
  <2>2. proc[w].connected /\ down[w] # <<>> /\ Head(down[w]) \notin Replies
    BY <1>1, NoReply DEF disconnectMessage
  <2>3. proc[w].state \in {"none", "online", "listening", "disconnecting", "destroying"}
    BY ProcFields DEF Tracked
  <2> QED BY <2>1, <2>2, <2>3, leavesTracked
<1>2. CASE workerDisconnect(w)
  <2>1. /\ UNCHANGED <<policy, primary, fault>> /\ down' = down /\ _disconnect(w, "self", "disconnecting")
        /\ proc[w].connected
    BY <1>2 DEF workerDisconnect, Running
  <2> QED BY <2>1, leavesTracked
<1> QED BY <1>1, <1>2

-----------------------------------------------------------------------------
(* The primary hears a message that changes no handle's workers. *)
LEMMA HeardAlike ==
  ASSUME Tracked, Base', NEW w \in Workers, up[w] # <<>>, up' = Take(up, w), proc' = proc,
         HandlesAlike, UNCHANGED <<policy, fault>>, \A v \in Workers : RegAlike(v),
         \A v \in Workers : reg'[v].connected = reg[v].connected,
         \A v \in Workers : down'[v] = down[v] \/
            (reg[v].connected /\ \E ms \in Seq(DownMsg) : ~Has(ms, Replies) /\ down'[v] = down[v] \o ms),
         Head(up[w]) \notin Asking \cup Closings \/ (Head(up[w]) \in Asking)
  PROVE  Tracked'
<1>1. up'[w] = Tail(up[w]) /\ \A v \in Workers : v # w => up'[v] = up[v]
  BY TakeSame
<1>2. ASSUME NEW v \in Workers PROVE TalkAlike(v) /\ Wired(v)'
  <2> DEFINE u == up[v]
             y == up'[v]
             d == down[v]
             b == down'[v]
             s == proc[v].server
             k == Waits(v)
  <2>1. u \in Seq(UpMsg) /\ d \in Seq(DownMsg) /\ k \in BOOLEAN /\ Dialogue(u, d, s, k)
    BY TrackedSeqs
  <2>2. y = u \/ (u # <<>> /\ y = Tail(u) /\ (Head(u) \notin Asking \cup Closings \/ Head(u) \in Asking))
    BY <1>1
  <2>3. b = d \/ \E ms \in Seq(DownMsg) : ~Has(ms, Replies) /\ b = d \o ms
    OBVIOUS
  <2>4. proc'[v].server = s /\ (b = d \/ reg[v].connected)
    OBVIOUS
  <2>5. Channel(y, proc'[v].connected, reg'[v].connected)
    <3>1. Channel(u, proc[v].connected, reg[v].connected) /\ proc[v].connected \in BOOLEAN /\ reg[v].connected \in BOOLEAN
      BY TrackedSeqs
    <3>2. proc'[v].connected = proc[v].connected /\ reg'[v].connected = reg[v].connected
      OBVIOUS
    <3> HIDE DEF u, y
    <3> QED BY <2>1, <2>2, <3>1, <3>2, ChannelHeard
  <2> HIDE DEF u, y, d, b, s, k
  <2>6. Dialogue(y, d, s, k) /\ (Outside(y, d, s) => Outside(u, d, s))
    <3>1. CASE y = u
      BY <2>1, <3>1
    <3>2. CASE u # <<>> /\ y = Tail(u) /\ Head(u) \notin Asking \cup Closings
      <4>1. Head(u) \notin Asking /\ Head(u) \notin Closings
        BY <3>2
      <4> QED BY <2>1, <3>2, <4>1, DialogueHeard
    <3>3. CASE u # <<>> /\ y = Tail(u) /\ Head(u) \in Asking
      <4>1. Dialogue(Tail(u), d, s, k) /\ ~Outside(Tail(u), d, s)
        BY <2>1, <3>3, DialogueDropped
      <4> QED BY <3>3, <4>1
    <3> QED BY <2>2, <3>1, <3>2, <3>3
  <2>7. Dialogue(y, b, s, k) /\ (Outside(y, b, s) => Outside(u, d, s))
    <3>1. CASE b = d
      BY <2>6, <3>1
    <3>2. ASSUME NEW ms \in Seq(DownMsg), ~Has(ms, Replies), b = d \o ms
          PROVE  Dialogue(y, b, s, k) /\ (Outside(y, b, s) => Outside(u, d, s))
      <4>1. Dialogue(y, d \o ms, s, k) /\ (Outside(y, d \o ms, s) <=> Outside(y, d, s))
        BY <2>1, <2>6, <3>2, DialogueTold
      <4> QED BY <2>6, <3>2, <4>1
    <3> QED BY <2>3, <3>1, <3>2
  <2>8. TalkAlike(v)
    BY <2>4, <2>7 DEF TalkAlike, u, y, d, b, s, k
  <2>9. Wired(v)'
    <3>1. Wired(v) /\ RegAlike(v)
      BY DEF Tracked
    <3> QED BY <2>5, <3>1 DEF Wired, RegAlike, y
  <2> QED BY <2>8, <2>9
<1> QED BY <1>2, AlikeTracked

LEMMA NotOurs ==
  ASSUME NEW w, Hears(w, "online") \/ Hears(w, "listening") \/ Hears(w, "exitedAfterDisconnect") \/ Hears(w, "ackNewconn")
                \/ Hears(w, "EOF")
  PROVE  up[w] # <<>> /\ Head(up[w]) \notin Asking \cup Closings
BY DEF Hears, Asking, Closings

(* A worker's record changes. *)
LEMMA RegStep ==
  ASSUME Tracked, NEW w \in Workers, NEW R \in RegRec, reg' = [reg EXCEPT ![w] = R],
         R.listed = reg[w].listed, R.dead = reg[w].dead, R.connected = reg[w].connected,
         R.state # "unforked", Forked(w), reg[w].exitedAfterDisconnect => R.exitedAfterDisconnect
  PROVE  \A v \in Workers : RegAlike(v) /\ reg'[v].connected = reg[v].connected
<1>1. reg'[w] = R /\ \A v \in Workers : v # w => reg'[v] = reg[v]
  BY RegSet DEF Tracked
<1> QED BY <1>1 DEF RegAlike, Forked

(* A worker that said something is forked. *)
LEMMA SpokenForked ==
  ASSUME Tracked, NEW w \in Workers, up[w] # <<>>
  PROVE  reg[w].connected /\ Forked(w)
BY DEF Tracked, Wired, Channel

LEMMA onlineTracked ==
  ASSUME Tracked, Base', NEW w \in Workers, online(w) \/ listening(w)
  PROVE  Tracked'
<1>0. up[w] # <<>> /\ Head(up[w]) \notin Asking \cup Closings /\ up' = Take(up, w)
  BY NotOurs DEF online, listening
<1>1. UNCHANGED <<policy, table, hs, fault, down, proc>>
  BY DEF online, listening
<1>2. HandlesAlike
  BY <1>1 DEF HandlesAlike
<1>3. \E R \in RegRec :
        /\ reg' = [reg EXCEPT ![w] = R] /\ R.listed = reg[w].listed /\ R.dead = reg[w].dead /\ R.connected = reg[w].connected
        /\ R.state # "unforked" /\ R.exitedAfterDisconnect = reg[w].exitedAfterDisconnect
  <2>0. reg[w] \in RegRec
    BY RegFields DEF Tracked
  <2>1. CASE online(w)
    <3> DEFINE R == [reg[w] EXCEPT !.state = "online"]
    <3>1. reg' = [reg EXCEPT ![w] = R]
      BY <2>1 DEF online
    <3>2. /\ R \in RegRec /\ R.listed = reg[w].listed /\ R.dead = reg[w].dead /\ R.connected = reg[w].connected
          /\ R.state # "unforked" /\ R.exitedAfterDisconnect = reg[w].exitedAfterDisconnect
      BY <2>0 DEF RegRec
    <3> HIDE DEF R
    <3> QED BY <3>1, <3>2
  <2>2. CASE listening(w)
    <3> DEFINE R == [reg[w] EXCEPT !.state = "listening"]
    <3>1. reg' = [reg EXCEPT ![w] = R]
      BY <2>2 DEF listening
    <3>2. /\ R \in RegRec /\ R.listed = reg[w].listed /\ R.dead = reg[w].dead /\ R.connected = reg[w].connected
          /\ R.state # "unforked" /\ R.exitedAfterDisconnect = reg[w].exitedAfterDisconnect
      BY <2>0 DEF RegRec
    <3> HIDE DEF R
    <3> QED BY <3>1, <3>2
  <2> QED BY <2>1, <2>2
<1>4. \A v \in Workers : RegAlike(v) /\ reg'[v].connected = reg[v].connected
  BY <1>0, <1>3, SpokenForked, RegStep
<1> QED BY <1>0, <1>1, <1>2, <1>4, HeardAlike

LEMMA ignoredTracked ==
  ASSUME Tracked, Base', NEW w \in Workers, queryServerIgnored(w)
  PROVE  Tracked'
<1>0. up[w] # <<>> /\ Head(up[w]) \in Asking /\ up' = Take(up, w)
  <2>1. up[w] # <<>> /\ Head(up[w]).act = "queryServer" /\ up' = Take(up, w)
    BY DEF queryServerIgnored, Hears
  <2>2. Head(up[w]) \in UpMsg
    BY <2>1, TrackedSeqs
  <2> QED BY <2>1, <2>2 DEF Asking
<1>1. UNCHANGED <<policy, table, hs, fault, down, proc, reg>>
  BY DEF queryServerIgnored
<1>2. HandlesAlike
  BY <1>1 DEF HandlesAlike
<1>4. \A v \in Workers : RegAlike(v) /\ reg'[v].connected = reg[v].connected
  BY <1>1 DEF RegAlike, Forked
<1> QED BY <1>0, <1>1, <1>2, <1>4, HeardAlike

(* What the primary sends that is not an answer. *)
LEMMA SentTo ==
  ASSUME NEW S, SendAll(S)
  PROVE  \A v \in Workers : down'[v] = IF Sendable(v) THEN down[v] \o S[v] ELSE down[v]
BY DEF SendAll, Sendable

LEMMA SentNeutral ==
  ASSUME NEW S, SendAll(S), \A v \in Workers : S[v] \in Seq(DownMsg) /\ ~Has(S[v], Replies)
  PROVE  \A v \in Workers : down'[v] = down[v] \/
            (reg[v].connected /\ \E ms \in Seq(DownMsg) : ~Has(ms, Replies) /\ down'[v] = down[v] \o ms)
<1> SUFFICES ASSUME NEW v \in Workers
    PROVE  down'[v] = down[v] \/
            (reg[v].connected /\ \E ms \in Seq(DownMsg) : ~Has(ms, Replies) /\ down'[v] = down[v] \o ms)
  OBVIOUS
<1>1. down'[v] = IF Sendable(v) THEN down[v] \o S[v] ELSE down[v]
  BY SentTo
<1>2. CASE Sendable(v)
  BY <1>1, <1>2 DEF Sendable
<1>3. CASE ~Sendable(v)
  BY <1>1, <1>3
<1> QED BY <1>2, <1>3

LEMMA exitedTracked ==
  ASSUME Tracked, Base', NEW w \in Workers, exitedAfterDisconnect(w)
  PROVE  Tracked'
<1>0. up[w] # <<>> /\ Head(up[w]) \notin Asking \cup Closings /\ up' = Take(up, w)
  BY NotOurs DEF exitedAfterDisconnect
<1>1. UNCHANGED <<policy, table, hs, fault, proc>>
  BY DEF exitedAfterDisconnect
<1>2. HandlesAlike
  BY <1>1 DEF HandlesAlike
<1>3. \A v \in Workers : RegAlike(v) /\ reg'[v].connected = reg[v].connected
  <2> DEFINE R == [reg[w] EXCEPT !.exitedAfterDisconnect = TRUE]
  <2>1. reg' = [reg EXCEPT ![w] = R]
    BY DEF exitedAfterDisconnect
  <2>2. /\ R \in RegRec /\ R.listed = reg[w].listed /\ R.dead = reg[w].dead /\ R.connected = reg[w].connected
        /\ R.state = reg[w].state /\ R.exitedAfterDisconnect
    BY RegFields DEF RegRec, Tracked
  <2> HIDE DEF R
  <2>3. R.state # "unforked" /\ Forked(w)
    BY <1>0, <2>2, SpokenForked DEF Forked
  <2> QED BY <2>1, <2>2, <2>3, RegStep
<1>4. \A v \in Workers : down'[v] = down[v] \/
         (reg[v].connected /\ \E ms \in Seq(DownMsg) : ~Has(ms, Replies) /\ down'[v] = down[v] \o ms)
  <2> DEFINE m == Msg("ackExited")
             S == To(w, <<m>>)
  <2>1. SendAll(S)
    BY DEF exitedAfterDisconnect
  <2>2. m \in DownMsg /\ m \notin Replies
    BY DEF Msg, DownMsg, DownActs, Replies
  <2> HIDE DEF m
  <2>3. <<m>> \in Seq(DownMsg) /\ ~Has(<<m>>, Replies) /\ ~Has(<<>>, Replies) /\ <<>> \in Seq(DownMsg)
    BY <2>2, HasOne
  <2>4. \A v \in Workers : S[v] \in Seq(DownMsg) /\ ~Has(S[v], Replies)
    BY <2>3, ToIs
  <2> HIDE DEF S
  <2> QED BY <2>1, <2>4, SentNeutral
<1> QED BY <1>0, <1>1, <1>2, <1>3, <1>4, HeardAlike

(* Connections that are handed out. *)
LEMMA handoffSendsNeutral ==
  ASSUME NEW H, NEW h, NEW w
  PROVE  ~Has(handoffSends(H, h, w), Replies)
<1> DEFINE m == ConnMsg("newconn", Head(H.conns), h, TRUE)
<1>1. m \notin Replies
  BY DEF ConnMsg, Replies
<1>2. handoffSends(H, h, w) = <<m>> \/ handoffSends(H, h, w) = <<>>
  BY DEF handoffSends
<1> HIDE DEF m
<1> QED BY <1>1, <1>2, HasOne

LEMMA distributeSendsNeutral ==
  ASSUME NEW H, NEW h, NEW c, NEW x \in Workers
  PROVE  ~Has(distributeSends(H, h, c)[x], Replies)
<1>1. ~Has(<<>>, Replies)
  BY DEF Has
<1> QED BY <1>1, handoffSendsNeutral DEF distributeSends

LEMMA ackTracked ==
  ASSUME Tracked, Base', NEW w \in Workers, ackNewconn(w)
  PROVE  Tracked'
<1>0. up[w] # <<>> /\ Head(up[w]) \notin Asking \cup Closings /\ up' = Take(up, w)
  BY NotOurs DEF ackNewconn
<1>1. UNCHANGED <<policy, table, reg, fault, proc>>
  BY DEF ackNewconn
<1> DEFINE m == Head(up[w])
           h == m.h
           D == AckedTo(m)
           G == handoff(D, w)
           S == [x \in Workers |-> IF x = w THEN AckSends(m)[x] \o handoffSends(D, h, w) ELSE AckSends(m)[x]]
<1>2. /\ m.c \in Conns /\ h \in DOMAIN hs /\ hs[h].st # "binding" /\ m.ok \in BOOLEAN
      /\ Fit(D) /\ Kept(D, hs[h])
      /\ hs' = [hs EXCEPT ![h] = G] /\ SendAll(S)
  BY AckIs DEF Tracked
<1>3. \A x \in Workers : AckSends(m)[x] = IF m.ok THEN <<>> ELSE distributeSends(hs[h], h, m.c)[x]
  BY DEF AckSends
<1> HIDE DEF m, h, D, G
<1>4. Kept(G, hs[h])
  <2>1. D.st # "binding"
    BY <1>2 DEF Kept
  <2>2. Kept(G, D)
    BY <1>2, <2>1, handoffFit DEF G
  <2> QED BY <1>2, <2>2 DEF Kept
<1>5. HandlesAlike
  <2>1. DOMAIN hs' = DOMAIN hs /\ hs'[h] = G /\ \A k \in DOMAIN hs : k # h => hs'[k] = hs[k]
    BY <1>2
  <2> QED BY <1>1, <1>4, <2>1 DEF HandlesAlike, Kept
<1>6. h \in Nat /\ Fit(hs[h]) /\ hs[h] \in HandleRec /\ D \in HandleRec
  BY <1>2, BaseFields DEF Fit, Tracked
<1>7. \A x \in Workers : AckSends(m)[x] \in Seq(DownMsg) /\ ~Has(AckSends(m)[x], Replies)
  <2>1. <<>> \in Seq(DownMsg) /\ ~Has(<<>>, Replies)
    BY DEF Has
  <2>2. \A x \in Workers : AllDown(distributeSends(hs[h], h, m.c)[x], hs)
    BY <1>2, <1>6, distributeSendsGood
  <2> QED BY <1>3, <2>1, <2>2, distributeSendsNeutral DEF AllDown
<1>8. handoffSends(D, h, w) \in Seq(DownMsg) /\ ~Has(handoffSends(D, h, w), Replies)
  <2>1. AllDown(handoffSends(D, h, w), hs)
    BY <1>2, <1>6, handoffSendsGood
  <2> QED BY <2>1, handoffSendsNeutral DEF AllDown
<1>9. \A v \in Workers : S[v] \in Seq(DownMsg) /\ ~Has(S[v], Replies)
  <2> DEFINE q == AckSends(m)[w]
             p == handoffSends(D, h, w)
  <2>1. q \in Seq(DownMsg) /\ ~Has(q, Replies) /\ p \in Seq(DownMsg) /\ ~Has(p, Replies)
    BY <1>7, <1>8
  <2> HIDE DEF q, p
  <2>2. q \o p \in Seq(DownMsg) /\ ~Has(q \o p, Replies)
    BY <2>1, HasCat
  <2> QED BY <1>7, <2>2 DEF q, p
<1> HIDE DEF S
<1>10. \A v \in Workers : down'[v] = down[v] \/
          (reg[v].connected /\ \E ms \in Seq(DownMsg) : ~Has(ms, Replies) /\ down'[v] = down[v] \o ms)
  BY <1>2, <1>9, SentNeutral
<1>11. \A v \in Workers : RegAlike(v) /\ reg'[v].connected = reg[v].connected
  BY <1>1 DEF RegAlike, Forked
<1> QED BY <1>0, <1>1, <1>5, <1>10, <1>11, HeardAlike

LEMMA connectionTracked ==
  ASSUME Tracked, Base', NEW c \in Conns, connection(c)
  PROVE  Tracked'
<1> DEFINE H == hs[table]
           G == distribute(H, c)
           S == distributeSends(H, table, c)
<1>1. /\ table \in DOMAIN hs /\ Fit(H) /\ H.st = "bound" /\ hs' = [hs EXCEPT ![table] = G] /\ SendAll(S)
      /\ UNCHANGED <<policy, reg, table, fault, up, proc>>
  BY BaseFields DEF connection, Tracked
<1> HIDE DEF H
<1>2. Kept(G, H)
  BY <1>1, distributeFit
<1> HIDE DEF G
<1>3. HandlesAlike
  <2>1. DOMAIN hs' = DOMAIN hs /\ hs'[table] = G /\ \A k \in DOMAIN hs : k # table => hs'[k] = hs[k]
    BY <1>1
  <2> QED BY <1>1, <1>2, <2>1 DEF HandlesAlike, Kept, H
<1>4. \A v \in Workers : S[v] \in Seq(DownMsg) /\ ~Has(S[v], Replies)
  <2>1. table \in Nat /\ H = hs[table]
    BY <1>1, BaseFields DEF Tracked, H
  <2>2. \A x \in Workers : AllDown(S[x], hs)
    BY <1>1, <2>1, distributeSendsGood
  <2> QED BY <2>2, distributeSendsNeutral DEF AllDown
<1> HIDE DEF S
<1>5. ASSUME NEW v \in Workers PROVE RegAlike(v) /\ TalkAlike(v) /\ Wired(v)'
  <2> DEFINE u == up[v]
             d == down[v]
             b == down'[v]
             s == proc[v].server
             k == Waits(v)
  <2>1. u \in Seq(UpMsg) /\ d \in Seq(DownMsg) /\ k \in BOOLEAN /\ Dialogue(u, d, s, k) /\ Wired(v)
    BY TrackedSeqs DEF Tracked
  <2>2. b = d \/ (reg[v].connected /\ \E ms \in Seq(DownMsg) : ~Has(ms, Replies) /\ b = d \o ms)
    BY <1>1, <1>4, SentNeutral
  <2>3. up'[v] = u /\ proc'[v] = proc[v] /\ reg'[v] = reg[v]
    BY <1>1
  <2>4. RegAlike(v) /\ Wired(v)'
    BY <2>1, <2>3 DEF RegAlike, Forked, Wired
  <2> HIDE DEF u, d, b, s, k
  <2>5. Dialogue(u, b, s, k) /\ (Outside(u, b, s) => Outside(u, d, s))
    <3>1. ASSUME NEW ms \in Seq(DownMsg), ~Has(ms, Replies), b = d \o ms
          PROVE  Dialogue(u, b, s, k) /\ (Outside(u, b, s) => Outside(u, d, s))
      <4>1. Dialogue(u, d \o ms, s, k) /\ (Outside(u, d \o ms, s) <=> Outside(u, d, s))
        BY <2>1, <3>1, DialogueTold
      <4> QED BY <3>1, <4>1
    <3> QED BY <2>1, <2>2, <3>1
  <2>6. TalkAlike(v)
    <3>1. proc'[v].server = s
      BY <2>3 DEF s
    <3> QED BY <2>2, <2>3, <2>5, <3>1 DEF TalkAlike, u, d, b, s, k
  <2> QED BY <2>4, <2>6
<1> QED BY <1>1, <1>3, <1>5, AlikeTracked

(* fork(): the worker is connected and listed, and says that it is online. *)
LEMMA forkTracked ==
  ASSUME Tracked, Base', NEW w \in Workers, fork(w)
  PROVE  Tracked'
<1> DEFINE R == [reg[w] EXCEPT !.state = "none", !.listed = TRUE, !.connected = TRUE]
           p == [proc[w] EXCEPT !.alive = TRUE, !.connected = TRUE, !.state = "online"]
           m == Msg("online")
<1>1. /\ reg' = [reg EXCEPT ![w] = R] /\ Set(w, p) /\ Tell(w, <<m>>)
      /\ UNCHANGED <<policy, table, hs, fault, down>> /\ ~Forked(w)
  BY DEF fork, Forked, Set
<1>2. R \in RegRec /\ R.listed /\ R.connected /\ R.state # "unforked"
  BY RegFields DEF RegRec, Tracked
<1>3. p.server = proc[w].server /\ p.connected = TRUE
  BY ProcFields DEF ProcRec, Tracked
<1>4. m \in UpMsg /\ <<m>> \in Seq(UpMsg) /\ Neutral(<<m>>) /\ EndLast(<<m>>) /\ ~Has(<<m>>, Ends)
  BY MsgUp, MsgKind DEF UpActs
<1> HIDE DEF R, p, m
<1>5. /\ reg'[w] = R /\ proc'[w] = p /\ up'[w] = up[w] \o <<m>>
      /\ \A v \in Workers : v # w => reg'[v] = reg[v] /\ proc'[v] = proc[v] /\ up'[v] = up[v]
  <2>1. reg'[w] = R /\ \A v \in Workers : v # w => reg'[v] = reg[v]
    BY <1>1, <1>2, RegSet DEF Tracked
  <2>2. proc'[w] = p /\ \A v \in Workers : v # w => proc'[v] = proc[v]
    BY <1>1, SetSame
  <2>3. up'[w] = up[w] \o <<m>> /\ \A v \in Workers : v # w => up'[v] = up[v]
    BY <1>1, TellSame
  <2> QED BY <2>1, <2>2, <2>3
<1>6. up[w] = <<>>
  BY <1>1 DEF Tracked, Wired, Channel
<1>7. \A v : Waits(v)' = Waits(v)
  BY <1>1 DEF Waits
<1>8. \A v \in Workers : Unacknowledged(v)' <=> Unacknowledged(v)
  BY <1>1 DEF Unacknowledged
<1>9. BindingWaits'
  BY <1>1 DEF BindingWaits, Tracked
<1>10. Members'
  <2>1. ASSUME fault' = None, table' # None
        PROVE  hs'[table'].all # {} /\ \A v \in hs'[table'].all : reg'[v].listed /\ (reg'[v].connected \/ Unacknowledged(v)')
    <3>1. /\ table \in DOMAIN hs /\ table' = table /\ hs'[table].all = hs[table].all
          /\ hs[table].all # {} /\ \A v \in hs[table].all : reg[v].listed /\ (reg[v].connected \/ Unacknowledged(v))
      BY <1>1, <2>1, BaseFields DEF Tracked, Members
    <3>2. hs[table].all \subseteq Workers
      BY <3>1, BaseFields, HandleFields DEF Tracked, Fit
    <3> QED BY <1>2, <1>5, <1>8, <3>1, <3>2
  <2> QED BY <2>1 DEF Members
<1>11. ASSUME NEW v \in Workers, v # w PROVE Wired(v)' /\ Listing(v)' /\ Talks(v)'
  <2>1. Wired(v) /\ Listing(v) /\ Talks(v)
    BY DEF Tracked
  <2>2. reg'[v] = reg[v] /\ proc'[v] = proc[v] /\ up'[v] = up[v] /\ down'[v] = down[v]
    BY <1>1, <1>5, <1>11
  <2>3. Wired(v)'
    BY <2>1, <2>2 DEF Wired, Forked
  <2>4. Listing(v)'
    BY <1>8, <2>1, <2>2 DEF Listing, Forked
  <2>5. Talks(v)'
    BY <1>1, <1>7, <2>1, <2>2 DEF Talks
  <2> QED BY <2>3, <2>4, <2>5
<1>12. Wired(w)' /\ Listing(w)' /\ Talks(w)'
  <2>1. Channel(up'[w], TRUE, TRUE)
    <3>1. up'[w] = <<m>>
      BY <1>4, <1>5, <1>6
    <3> QED BY <1>4, <3>1 DEF Channel
  <2>2. Wired(w)'
    BY <1>2, <1>3, <1>5, <2>1 DEF Wired, Forked
  <2>3. Listing(w)'
    BY <1>2, <1>5 DEF Listing
  <2>4. Talks(w)'
    <3> DEFINE u == up[w]
               y == up'[w]
               d == down[w]
               s == proc[w].server
               k == Waits(w)
               ms == <<m>>
    <3>1. u \in Seq(UpMsg) /\ k \in BOOLEAN /\ Dialogue(u, d, s, k) /\ ms \in Seq(UpMsg) /\ Neutral(ms) /\ y = u \o ms
      BY <1>4, <1>5, TrackedSeqs
    <3>2. Talks(w) /\ down' = down /\ table' = table /\ hs' = hs /\ fault' = fault /\ proc'[w].server = s /\ Waits(w)' = k
      BY <1>1, <1>3, <1>5, <1>7 DEF Tracked
    <3> HIDE DEF u, y, d, s, k, ms
    <3>3. Dialogue(y, d, s, k) /\ (Outside(y, d, s) <=> Outside(u, d, s))
      BY <3>1, SaysMore
    <3>4. fault = None /\ table # None /\ Outside(u, d, s) => w \notin hs[table].all
      BY <3>2 DEF Talks, u, d, s
    <3> QED BY <3>2, <3>3, <3>4 DEF Talks, y, d, s, k
  <2> QED BY <2>2, <2>3, <2>4
<1> QED BY <1>9, <1>10, <1>11, <1>12 DEF Tracked

(* The channel ends while the primary waits for an ACK. *)
LEMMA silentTracked ==
  ASSUME Tracked, Base', NEW w \in Workers, silentDisconnect(w)
  PROVE  Tracked'
<1>0. up[w] # <<>> /\ Head(up[w]) \in Ends /\ up' = Take(up, w) /\ Unacknowledged(w)
  <2>1. up[w] # <<>> /\ Head(up[w]).act = "EOF" /\ up' = Take(up, w) /\ Unacknowledged(w)
    BY DEF silentDisconnect, Hears
  <2>2. Head(up[w]) \in UpMsg
    BY <2>1, TrackedSeqs
  <2> QED BY <2>1, <2>2 DEF Ends
<1>1. UNCHANGED <<policy, table, hs, fault, down, proc>>
  BY DEF silentDisconnect
<1>2. HandlesAlike
  BY <1>1 DEF HandlesAlike
<1> DEFINE R == [reg[w] EXCEPT !.connected = FALSE]
<1>3. reg' = [reg EXCEPT ![w] = R]
  BY DEF silentDisconnect
<1>4. /\ R \in RegRec /\ R.listed = reg[w].listed /\ R.dead = reg[w].dead /\ R.connected = FALSE /\ R.state = reg[w].state
      /\ R.exitedAfterDisconnect = reg[w].exitedAfterDisconnect
  BY RegFields DEF RegRec, Tracked
<1> HIDE DEF R
<1>5. reg'[w] = R /\ \A v \in Workers : v # w => reg'[v] = reg[v]
  BY <1>3, <1>4, RegSet DEF Tracked
<1>6. up'[w] = Tail(up[w]) /\ \A v \in Workers : v # w => up'[v] = up[v]
  BY <1>0, TakeSame
<1>7. \A v \in Workers : RegAlike(v)
  BY <1>0, <1>1, <1>4, <1>5 DEF RegAlike, Forked
<1>8. ASSUME NEW v \in Workers, v # w PROVE TalkAlike(v) /\ Wired(v)'
  BY <1>1, <1>5, <1>6, <1>8 DEF TalkAlike, Talks, Wired, Forked, Tracked
<1>9. TalkAlike(w) /\ Wired(w)'
  <2> DEFINE u == up[w]
             y == up'[w]
             d == down[w]
             s == proc[w].server
             k == Waits(w)
             pc == proc[w].connected
             rc == reg[w].connected
  <2>1. /\ u \in Seq(UpMsg) /\ u # <<>> /\ k \in BOOLEAN /\ Dialogue(u, d, s, k) /\ y = Tail(u) /\ Head(u) \in Ends
        /\ Channel(u, pc, rc) /\ pc \in BOOLEAN /\ rc \in BOOLEAN
    BY <1>0, <1>6, TrackedSeqs
  <2>2. Head(u) \notin Asking /\ Head(u) \notin Closings
    BY <1>0 DEF Ends, Asking, Closings
  <2> HIDE DEF u, y, d, s, k, pc, rc
  <2>3. Dialogue(Tail(u), d, s, k) /\ (Outside(Tail(u), d, s) <=> Outside(u, d, s))
    BY <2>1, <2>2, DialogueHeard
  <2>4. Channel(Tail(u), pc, rc) /\ ~pc /\ Tail(u) = <<>>
    BY <2>1, ChannelHeard
  <2>5. TalkAlike(w)
    BY <1>1, <2>1, <2>3 DEF TalkAlike, u, y, d, s, k
  <2>6. ~proc'[w].connected /\ up'[w] = <<>> /\ reg'[w].connected = FALSE
    BY <1>1, <1>4, <1>5, <2>1, <2>4 DEF pc, y
  <2>7. Channel(up'[w], proc'[w].connected, reg'[w].connected)
    BY <2>6 DEF Channel, EndLast, Has
  <2> QED BY <2>5, <2>6, <2>7 DEF Wired
<1> QED BY <1>1, <1>2, <1>7, <1>8, <1>9, AlikeTracked

-----------------------------------------------------------------------------
(* A worker leaves the handle of the table. *)
LEMMA DropsOut ==
  ASSUME Tracked, fault = None, NEW w \in Workers, RemoveOrFault(w)
  PROVE  /\ \A v : Waits(v)' = Waits(v)
         /\ BindingWaits'
         /\ fault' = None => ~RemoveFaults(w)
         /\ fault' = None /\ table' # None =>
              table # None /\ table' = table /\ hs'[table].all = hs[table].all \ {w} /\ hs'[table].all # {}
<1> USE BaseFields DEF Tracked
<1>0. "handle.close()" # None
  BY ClusterAssumption DEF Faults
<1>1. CASE ~RemoveFaults(w) /\ table # None
  <2> DEFINE G == remove(hs[table], w)
  <2>1. table \in DOMAIN hs /\ Fit(hs[table])
    BY <1>1
  <2>2. hs' = [hs EXCEPT ![table] = G] /\ table' = IF RemoveLast(hs[table], w) THEN None ELSE table
    BY <1>1 DEF RemoveOrFault, RemoveHandles
  <2>3. hs[table].st = "binding" => ~RemoveLast(hs[table], w)
    BY <1>1 DEF RemoveFaults
  <2>4. /\ G.all = hs[table].all \ {w} /\ G.waiting = hs[table].waiting
        /\ G.st = IF RemoveLast(hs[table], w) THEN "closed" ELSE hs[table].st
    BY <2>1, <2>3, removeFit
  <2> HIDE DEF G
  <2>5. DOMAIN hs' = DOMAIN hs /\ hs'[table] = G /\ \A h \in DOMAIN hs : h # table => hs'[h] = hs[h]
    BY <2>1, <2>2
  <2>6. ASSUME NEW v PROVE Waits(v)' = Waits(v)
    <3>1. \A h \in DOMAIN hs : hs'[h].waiting = hs[h].waiting
      BY <2>4, <2>5
    <3> QED BY <2>5, <3>1 DEF Waits
  <2>7. ASSUME NEW h \in DOMAIN hs', hs'[h].st = "binding" PROVE table' = h /\ hs'[h].waiting # <<>>
    <3>1. hs[h].st = "binding" /\ (h = table => ~RemoveLast(hs[table], w)) /\ hs'[h].waiting = hs[h].waiting
      BY <2>4, <2>5, <2>7
    <3>2. table = h /\ hs[h].waiting # <<>>
      BY <2>5, <3>1 DEF BindingWaits
    <3> QED BY <2>2, <3>1, <3>2
  <2>8. ASSUME table' # None
        PROVE  table' = table /\ hs'[table].all = hs[table].all \ {w} /\ hs'[table].all # {}
    <3>1. ~RemoveLast(hs[table], w) /\ hs[table].all # {}
      BY <1>1, <2>2, <2>8 DEF Members
    <3> QED BY <2>2, <2>4, <2>5, <3>1 DEF RemoveLast
  <2> QED BY <1>1, <2>6, <2>7, <2>8 DEF BindingWaits
<1>2. CASE RemoveFaults(w)
  <2>1. hs' = hs /\ table' = table /\ fault' = "handle.close()"
    BY <1>2 DEF RemoveOrFault
  <2> QED BY <1>0, <2>1 DEF Waits, BindingWaits
<1>3. CASE ~RemoveFaults(w) /\ table = None
  <2>1. hs' = hs /\ table' = table
    BY <1>3 DEF RemoveOrFault, RemoveHandles
  <2> QED BY <1>3, <2>1 DEF Waits, BindingWaits
<1> QED BY <1>1, <1>2, <1>3

LEMMA RemoveTracked ==
  ASSUME Tracked, Base', fault = None, NEW w \in Workers, RemoveOrFault(w), policy' = policy,
         \A v \in Workers : v # w => reg'[v] = reg[v] /\ up'[v] = up[v] /\ down'[v] = down[v] /\ proc'[v] = proc[v],
         Wired(w)', Listing(w)', Dialogue(up'[w], down'[w], proc'[w].server, Waits(w))
  PROVE  Tracked'
<1>1. /\ \A v : Waits(v)' = Waits(v)
      /\ BindingWaits'
      /\ fault' = None /\ table' # None =>
           table # None /\ table' = table /\ hs'[table].all = hs[table].all \ {w} /\ hs'[table].all # {}
  BY DropsOut
<1>2. \A v \in Workers : v # w => (Unacknowledged(v)' <=> Unacknowledged(v))
  BY DEF Unacknowledged
<1>3. Members'
  <2>1. ASSUME fault' = None, table' # None
        PROVE  hs'[table'].all # {} /\ \A v \in hs'[table'].all : reg'[v].listed /\ (reg'[v].connected \/ Unacknowledged(v)')
    <3>1. table' = table /\ table \in DOMAIN hs /\ hs'[table].all = hs[table].all \ {w} /\ hs'[table].all # {}
      BY <1>1, <2>1, BaseFields DEF Tracked
    <3>2. \A v \in hs[table].all : reg[v].listed /\ (reg[v].connected \/ Unacknowledged(v))
      BY <1>1, <2>1 DEF Tracked, Members
    <3>3. hs[table].all \subseteq Workers
      BY <3>1, BaseFields, HandleFields DEF Tracked, Fit
    <3> QED BY <1>2, <3>1, <3>2, <3>3
  <2> QED BY <2>1 DEF Members
<1>4. ASSUME NEW v \in Workers, v # w PROVE Wired(v)' /\ Listing(v)' /\ Talks(v)'
  <2>1. Wired(v) /\ Listing(v) /\ Talks(v)
    BY DEF Tracked
  <2>2. reg'[v] = reg[v] /\ proc'[v] = proc[v] /\ up'[v] = up[v] /\ down'[v] = down[v] /\ Waits(v)' = Waits(v)
    BY <1>1, <1>4
  <2>3. Wired(v)'
    BY <2>1, <2>2 DEF Wired, Forked
  <2>4. Listing(v)'
    BY <1>2, <1>4, <2>1, <2>2 DEF Listing, Forked
  <2>5. Talks(v)'
    BY <1>1, <2>1, <2>2 DEF Talks
  <2> QED BY <2>3, <2>4, <2>5
<1>5. Talks(w)'
  <2>1. Dialogue(up'[w], down'[w], proc'[w].server, Waits(w)')
    BY <1>1
  <2>2. fault' = None /\ table' # None => w \notin hs'[table'].all
    BY <1>1
  <2> QED BY <2>1, <2>2 DEF Talks
<1> QED BY <1>1, <1>3, <1>4, <1>5 DEF Tracked

(* close(): the worker closed its server. *)
LEMMA closeTracked ==
  ASSUME Tracked, Base', NEW w \in Workers, close(w)
  PROVE  Tracked'
<1>0. up[w] # <<>> /\ Head(up[w]) \in Closings /\ up' = Take(up, w) /\ fault = None
  <2>1. up[w] # <<>> /\ Head(up[w]).act = "close" /\ up' = Take(up, w) /\ fault = None
    BY DEF close, Hears
  <2>2. Head(up[w]) \in UpMsg
    BY <2>1, TrackedSeqs
  <2> QED BY <2>1, <2>2 DEF Closings
<1>1. UNCHANGED <<policy, reg, down, proc>> /\ RemoveOrFault(w)
  BY DEF close
<1>2. up'[w] = Tail(up[w]) /\ \A v \in Workers : v # w => up'[v] = up[v]
  BY <1>0, TakeSame
<1>3. Dialogue(up'[w], down'[w], proc'[w].server, Waits(w)) /\ Channel(up'[w], proc'[w].connected, reg'[w].connected)
  <2> DEFINE u == up[w]
             y == up'[w]
             d == down[w]
             s == proc[w].server
             k == Waits(w)
             pc == proc[w].connected
             rc == reg[w].connected
  <2>1. /\ u \in Seq(UpMsg) /\ u # <<>> /\ k \in BOOLEAN /\ Dialogue(u, d, s, k) /\ y = Tail(u) /\ Head(u) \in Closings
        /\ Channel(u, pc, rc) /\ pc \in BOOLEAN /\ rc \in BOOLEAN
    BY <1>0, <1>2, TrackedSeqs
  <2>2. down'[w] = d /\ proc'[w].server = s /\ proc'[w].connected = pc /\ reg'[w].connected = rc
    BY <1>1
  <2> HIDE DEF u, y, d, s, k, pc, rc
  <2>3. Dialogue(Tail(u), d, s, k)
    BY <2>1, DialogueClosed
  <2>4. Channel(Tail(u), pc, rc)
    BY <2>1, ChannelHeard
  <2> QED BY <2>1, <2>2, <2>3, <2>4 DEF k, y
<1>4. Wired(w)' /\ Listing(w)'
  <2>1. Wired(w) /\ Listing(w) /\ (Unacknowledged(w)' <=> Unacknowledged(w))
    BY <1>1 DEF Tracked, Unacknowledged
  <2> QED BY <1>1, <1>3, <2>1 DEF Wired, Listing, Forked
<1> QED BY <1>0, <1>1, <1>2, <1>3, <1>4, RemoveTracked

(* The 'disconnect' event. *)
LEMMA disconnectEventTracked ==
  ASSUME Tracked, Base', NEW w \in Workers, disconnectEvent(w)
  PROVE  Tracked'
<1>0. up[w] # <<>> /\ Head(up[w]) \in Ends /\ up' = Take(up, w) /\ fault = None
  <2>1. up[w] # <<>> /\ Head(up[w]).act = "EOF" /\ up' = Take(up, w) /\ fault = None
    BY DEF disconnectEvent, Hears
  <2>2. Head(up[w]) \in UpMsg
    BY <2>1, TrackedSeqs
  <2> QED BY <2>1, <2>2 DEF Ends
<1>1. UNCHANGED <<policy, down, proc>> /\ RemoveOrFault(w)
  BY DEF disconnectEvent
<1>2. up'[w] = Tail(up[w]) /\ \A v \in Workers : v # w => up'[v] = up[v]
  BY <1>0, TakeSame
<1> DEFINE l == reg[w].listed /\ ~reg[w].dead
           R == [reg[w] EXCEPT !.connected = FALSE, !.state = "disconnected", !.listed = l]
<1>3. reg' = reg \/ reg' = [reg EXCEPT ![w] = R]
  BY DEF disconnectEvent, Listed
<1>4. l \in BOOLEAN
  OBVIOUS
<1>5. (l <=> reg[w].listed /\ ~reg[w].dead)
  OBVIOUS
<1> HIDE DEF l
<1>6. /\ R \in RegRec /\ R.listed = l /\ R.dead = reg[w].dead /\ R.connected = FALSE /\ R.state = "disconnected"
      /\ R.exitedAfterDisconnect = reg[w].exitedAfterDisconnect
  BY <1>4, RegFields DEF RegRec, Tracked
<1> HIDE DEF R
<1>7. (reg'[w] = reg[w] \/ reg'[w] = R) /\ \A v \in Workers : v # w => reg'[v] = reg[v]
  BY <1>3, <1>6, RegSet DEF Tracked
<1>8. /\ Dialogue(up'[w], down'[w], proc'[w].server, Waits(w)) /\ Channel(up'[w], proc'[w].connected, reg'[w].connected)
  <2> DEFINE u == up[w]
             y == up'[w]
             d == down[w]
             s == proc[w].server
             k == Waits(w)
             pc == proc[w].connected
             rc == reg[w].connected
  <2>1. /\ u \in Seq(UpMsg) /\ u # <<>> /\ k \in BOOLEAN /\ Dialogue(u, d, s, k) /\ y = Tail(u) /\ Head(u) \in Ends
        /\ Channel(u, pc, rc) /\ pc \in BOOLEAN /\ rc \in BOOLEAN
    BY <1>0, <1>2, TrackedSeqs
  <2>2. Head(u) \notin Asking /\ Head(u) \notin Closings
    BY <1>0 DEF Ends, Asking, Closings
  <2>3. down'[w] = d /\ proc'[w].server = s /\ proc'[w].connected = pc /\ (reg'[w].connected = rc \/ reg'[w].connected = FALSE)
    BY <1>1, <1>6, <1>7
  <2> HIDE DEF u, y, d, s, k, pc, rc
  <2>4. Dialogue(Tail(u), d, s, k)
    BY <2>1, <2>2, DialogueHeard
  <2>5. Channel(Tail(u), pc, rc) /\ ~pc /\ Tail(u) = <<>>
    BY <2>1, ChannelHeard
  <2>6. CASE reg'[w].connected = rc
    BY <2>1, <2>3, <2>4, <2>5, <2>6 DEF k, y
  <2>7. CASE reg'[w].connected = FALSE
    <3>1. y = <<>> /\ ~proc'[w].connected /\ up'[w] = y
      BY <2>1, <2>3, <2>5 DEF y
    <3>2. Channel(up'[w], proc'[w].connected, reg'[w].connected)
      BY <2>7, <3>1 DEF Channel, EndLast, Has
    <3> QED BY <2>1, <2>3, <2>4, <3>2 DEF k, y
  <2> QED BY <2>3, <2>6, <2>7
<1>9. Wired(w)' /\ Listing(w)'
  <2>1. Wired(w) /\ Listing(w) /\ (Unacknowledged(w)' <=> Unacknowledged(w)) /\ reg[w].connected /\ Forked(w)
    BY <1>0, <1>1, SpokenForked DEF Tracked, Unacknowledged
  <2>2. CASE reg'[w] = reg[w]
    BY <1>8, <2>1, <2>2 DEF Wired, Listing, Forked
  <2>3. CASE reg'[w] = R
    BY <1>5, <1>6, <1>8, <2>1, <2>3 DEF Wired, Listing, Forked
  <2> QED BY <1>7, <2>2, <2>3
<1> QED BY <1>0, <1>1, <1>2, <1>7, <1>8, <1>9, RemoveTracked

(* The 'exit' event. *)
LEMMA exitEventTracked ==
  ASSUME Tracked, Base', NEW w \in Workers, exitEvent(w)
  PROVE  Tracked'
<1>0. UNCHANGED <<policy, up, down, proc>> /\ fault = None /\ Forked(w)
  BY DEF exitEvent, Forked
<1>1. Wired(w) /\ Listing(w) /\ (Unacknowledged(w)' <=> Unacknowledged(w))
  BY <1>0 DEF Tracked, Unacknowledged
<1> DEFINE l == reg[w].listed /\ reg[w].connected
           R == [reg[w] EXCEPT !.dead = TRUE, !.state = "dead", !.listed = l]
           Q == [reg[w] EXCEPT !.dead = TRUE]
<1>2. l \in BOOLEAN /\ (l <=> reg[w].listed /\ reg[w].connected)
  OBVIOUS
<1>3. reg' = IF ~reg[w].connected /\ RemoveFaults(w) THEN [reg EXCEPT ![w] = Q] ELSE [reg EXCEPT ![w] = R]
  BY DEF exitEvent, Listed
<1> HIDE DEF l
<1>4. /\ R \in RegRec /\ R.listed = l /\ R.dead = TRUE /\ R.connected = reg[w].connected /\ R.state = "dead"
      /\ R.exitedAfterDisconnect = reg[w].exitedAfterDisconnect
  BY <1>2, RegFields DEF RegRec, Tracked
<1>5. /\ Q \in RegRec /\ Q.listed = reg[w].listed /\ Q.dead = TRUE /\ Q.connected = reg[w].connected /\ Q.state = reg[w].state
      /\ Q.exitedAfterDisconnect = reg[w].exitedAfterDisconnect
  BY RegFields DEF RegRec, Tracked
<1>6. reg[w].connected \in BOOLEAN /\ reg[w].listed \in BOOLEAN
  BY RegFields DEF Tracked
<1> HIDE DEF R, Q
<1>7. CASE reg[w].connected
  <2>1. UNCHANGED <<hs, table, fault>>
    BY <1>7 DEF exitEvent
  <2>2. reg'[w] = R /\ \A v \in Workers : v # w => reg'[v] = reg[v]
    BY <1>3, <1>4, <1>7, RegSet DEF Tracked
  <2>3. R.listed = reg[w].listed
    BY <1>2, <1>4, <1>6, <1>7
  <2>4. \A v \in Workers : RegAlike(v)
    BY <1>0, <1>4, <1>7, <2>2, <2>3 DEF RegAlike, Forked
  <2>5. \A v \in Workers : reg'[v].connected = reg[v].connected
    BY <1>4, <2>2
  <2>6. ASSUME NEW v \in Workers PROVE TalkAlike(v) /\ Wired(v)'
    <3>1. Wired(v) /\ Talks(v) /\ RegAlike(v)
      BY <2>4 DEF Tracked
    <3> QED BY <1>0, <2>5, <3>1 DEF TalkAlike, Talks, Wired, RegAlike
  <2>7. HandlesAlike
    BY <2>1 DEF HandlesAlike
  <2> QED BY <1>0, <2>1, <2>4, <2>6, <2>7, AlikeTracked
<1>8. CASE ~reg[w].connected
  <2>1. RemoveOrFault(w)
    BY <1>8 DEF exitEvent
  <2>2. /\ reg'[w] = IF RemoveFaults(w) THEN Q ELSE R
        /\ \A v \in Workers : v # w => reg'[v] = reg[v]
    BY <1>3, <1>4, <1>5, <1>8, RegSet DEF Tracked
  <2>3. RemoveFaults(w) => Unacknowledged(w)
    BY <1>0, <1>8 DEF RemoveFaults, RemoveLast, Tracked, Members
  <2>4. Listing(w)'
    <3>1. CASE RemoveFaults(w)
      BY <1>1, <1>5, <1>8, <2>2, <2>3, <3>1 DEF Listing
    <3>2. CASE ~RemoveFaults(w)
      BY <1>2, <1>4, <1>8, <2>2, <3>2 DEF Listing
    <3> QED BY <3>1, <3>2
  <2>5. reg'[w].connected = reg[w].connected
    BY <1>4, <1>5, <2>2
  <2>6. Wired(w)'
    BY <1>0, <1>1, <1>8, <2>5 DEF Wired
  <2>7. Dialogue(up'[w], down'[w], proc'[w].server, Waits(w))
    BY <1>0, TrackedSeqs
  <2> QED BY <1>0, <2>1, <2>2, <2>4, <2>6, <2>7, RemoveTracked
<1> QED BY <1>7, <1>8

(* worker.disconnect() of the primary. *)
LEMMA primaryDisconnectTracked ==
  ASSUME Tracked, Base', NEW w \in Workers, primaryDisconnect(w)
  PROVE  Tracked'
<1>0. UNCHANGED <<policy, up, proc>> /\ fault = None /\ RemoveOrFault(w) /\ reg[w].connected
  BY DEF primaryDisconnect
<1> DEFINE l == RemoveFaults(w)
           R == [reg[w] EXCEPT !.exitedAfterDisconnect = TRUE, !.listed = l]
           m == Msg("disconnect")
           S == To(w, <<m>>)
<1>1. l \in BOOLEAN
  BY DEF RemoveFaults
<1>2. reg' = [reg EXCEPT ![w] = R]
  BY DEF primaryDisconnect
<1>20. SendAll(S)
  BY DEF primaryDisconnect
<1> HIDE DEF l
<1>3. /\ R \in RegRec /\ R.dead = reg[w].dead /\ R.connected = reg[w].connected /\ R.state = reg[w].state
      /\ R.exitedAfterDisconnect
  BY <1>1, RegFields DEF RegRec, Tracked
<1> HIDE DEF R
<1>4. reg'[w] = R /\ \A v \in Workers : v # w => reg'[v] = reg[v]
  BY <1>2, <1>3, RegSet DEF Tracked
<1>5. m \in DownMsg /\ m \notin Replies
  BY DEF Msg, DownMsg, DownActs, Replies
<1> HIDE DEF m
<1>6. <<m>> \in Seq(DownMsg) /\ ~Has(<<m>>, Replies)
  BY <1>5, HasOne
<1>7. \A v \in Workers : S[v] = IF v = w THEN <<m>> ELSE <<>>
  BY ToIs
<1> HIDE DEF S
<1>8. \A v \in Workers : down'[v] = IF Sendable(v) THEN down[v] \o S[v] ELSE down[v]
  BY <1>20, SentTo
<1>9. \A v \in Workers : v # w => down'[v] = down[v]
  <2> SUFFICES ASSUME NEW v \in Workers, v # w PROVE down'[v] = down[v]
    OBVIOUS
  <2>1. down[v] \in Seq(DownMsg)
    BY TrackedSeqs
  <2>2. down[v] \o <<>> = down[v]
    BY <2>1
  <2> QED BY <1>7, <1>8, <2>2
<1>10. down'[w] = down[w] \/ down'[w] = down[w] \o <<m>>
  BY <1>7, <1>8
<1>11. Dialogue(up'[w], down'[w], proc'[w].server, Waits(w))
  <2> DEFINE u == up[w]
             d == down[w]
             b == down'[w]
             s == proc[w].server
             k == Waits(w)
             ms == <<m>>
  <2>1. d \in Seq(DownMsg) /\ k \in BOOLEAN /\ Dialogue(u, d, s, k) /\ ms \in Seq(DownMsg) /\ ~Has(ms, Replies)
    BY <1>6, TrackedSeqs
  <2>2. (b = d \/ b = d \o ms) /\ up'[w] = u /\ proc'[w].server = s
    BY <1>0, <1>10
  <2> HIDE DEF u, d, b, s, k, ms
  <2>3. Dialogue(u, d \o ms, s, k)
    BY <2>1, DialogueTold
  <2>4. Dialogue(u, b, s, k)
    BY <2>1, <2>2, <2>3
  <2> QED BY <2>2, <2>4 DEF b, k
<1>12. Wired(w)'
  <2>1. Wired(w)
    BY DEF Tracked
  <2> QED BY <1>0, <1>3, <1>4, <2>1 DEF Wired, Forked
<1>13. Listing(w)'
  BY <1>0, <1>3, <1>4 DEF Listing
<1> QED BY <1>0, <1>4, <1>9, <1>11, <1>12, <1>13, RemoveTracked

(* queryServer(): a question arrives, and the worker joins a handle. *)
LEMMA QueryStep ==
  ASSUME Tracked, Base', fault = None, NEW w \in Workers, up[w] # <<>>, up' = Take(up, w),
         ~reg[w].exitedAfterDisconnect, UNCHANGED <<policy, reg, fault, proc>>,
         \A v \in Workers : v # w => down'[v] = down[v] /\ Waits(v)' = Waits(v),
         BindingWaits',
         table' # None => /\ w \in hs'[table'].all
                          /\ \A v \in hs'[table'].all : v # w => table # None /\ v \in hs[table].all,
         Dialogue(Tail(up[w]), down'[w], proc[w].server, Waits(w)'),
         table' # None => ~Outside(Tail(up[w]), down'[w], proc[w].server)
  PROVE  Tracked'
<1>1. up'[w] = Tail(up[w]) /\ \A v \in Workers : v # w => up'[v] = up[v]
  BY TakeSame
<1>2. \A v \in Workers : v # w => (Unacknowledged(v)' <=> Unacknowledged(v))
  BY DEF Unacknowledged
<1>3. reg[w].connected /\ Forked(w)
  BY SpokenForked
<1>4. reg[w].listed
  BY <1>3 DEF Tracked, Listing
<1>5. Members'
  <2>1. ASSUME fault' = None, table' # None
        PROVE  hs'[table'].all # {} /\ \A v \in hs'[table'].all : reg'[v].listed /\ (reg'[v].connected \/ Unacknowledged(v)')
    <3>1. hs'[table'].all # {}
      BY <2>1
    <3>2. ASSUME NEW v \in hs'[table'].all PROVE reg'[v].listed /\ (reg'[v].connected \/ Unacknowledged(v)')
      <4>1. CASE v = w
        BY <1>3, <1>4, <4>1
      <4>2. CASE v # w
        <5>1. table # None /\ v \in hs[table].all
          BY <2>1, <4>2
        <5>2. v \in Workers
          BY <5>1, BaseFields, HandleFields DEF Tracked, Fit
        <5>3. reg[v].listed /\ (reg[v].connected \/ Unacknowledged(v))
          BY <5>1 DEF Tracked, Members
        <5> QED BY <1>2, <4>2, <5>2, <5>3
      <4> QED BY <4>1, <4>2
    <3> QED BY <3>1, <3>2
  <2> QED BY <2>1 DEF Members
<1>6. ASSUME NEW v \in Workers PROVE Listing(v)' /\ Wired(v)'
  <2>1. Wired(v) /\ Listing(v)
    BY DEF Tracked
  <2>2. CASE v # w
    BY <1>1, <1>2, <2>1, <2>2 DEF Wired, Listing, Forked
  <2>3. CASE v = w
    <3>1. Listing(w)'
      BY <1>3, <2>1, <2>3 DEF Listing, Forked
    <3> DEFINE u == up[w]
               pc == proc[w].connected
               rc == reg[w].connected
    <3>2. u \in Seq(UpMsg) /\ u # <<>> /\ Channel(u, pc, rc) /\ pc \in BOOLEAN /\ rc \in BOOLEAN
      BY TrackedSeqs
    <3>3. up'[w] = Tail(u) /\ proc'[w].connected = pc /\ reg'[w].connected = rc
      BY <1>1
    <3> HIDE DEF u, pc, rc
    <3>4. Channel(Tail(u), pc, rc)
      BY <3>2, ChannelHeard
    <3>5. Wired(w)'
      BY <2>1, <2>3, <3>3, <3>4 DEF Wired, Forked
    <3> QED BY <2>3, <3>1, <3>5
  <2> QED BY <2>2, <2>3
<1>7. ASSUME NEW v \in Workers, v # w PROVE Talks(v)'
  <2>1. Talks(v) /\ up'[v] = up[v] /\ down'[v] = down[v] /\ proc'[v] = proc[v] /\ Waits(v)' = Waits(v)
    BY <1>1, <1>7 DEF Tracked
  <2>2. Dialogue(up'[v], down'[v], proc'[v].server, Waits(v)')
    BY <2>1 DEF Talks
  <2>3. ASSUME table' # None, Outside(up'[v], down'[v], proc'[v].server) PROVE v \notin hs'[table'].all
    BY <1>7, <2>1, <2>3 DEF Talks
  <2> QED BY <2>2, <2>3 DEF Talks
<1>8. Talks(w)'
  BY <1>1 DEF Talks
<1> QED BY <1>5, <1>6, <1>7, <1>8 DEF Tracked

(* The answer, and a connection that may go with it. *)
LEMMA DownAssociative ==
  ASSUME NEW p \in Seq(DownMsg), NEW q \in Seq(DownMsg), NEW r \in Seq(DownMsg)
  PROVE  (p \o q) \o r = p \o (q \o r)
<1> DEFINE S == DownMsg
<1>1. p \in Seq(S) /\ q \in Seq(S) /\ r \in Seq(S)
  OBVIOUS
<1> HIDE DEF S
<1> QED BY <1>1, ConcatAssociative

LEMMA AnswerSaid ==
  ASSUME NEW u, NEW d \in Seq(DownMsg), NEW s, NEW t, t = TRUE, NEW f, f = FALSE, Dialogue(u, d, s, t),
         ~Outside(u, d, s), NEW m \in Replies, NEW ms \in Seq(DownMsg), ~Has(ms, Replies),
         NEW b, b = d \/ b = d \o (<<m>> \o ms)
  PROVE  Dialogue(u, b, s, f) /\ (m.ok => ~Outside(u, b, s))
<1> DEFINE a == <<m>>
           x == d \o a
<1>1. m \in DownMsg /\ f \in BOOLEAN
  BY DEF Replies
<1>2. a \in Seq(DownMsg) /\ x \in Seq(DownMsg)
  BY <1>1
<1>3. Dialogue(u, x, s, f) /\ Dialogue(u, d, s, f) /\ (m.ok => (Outside(u, x, s) <=> Outside(u, d, s)))
  BY DialogueAnswers
<1>4. d \o (a \o ms) = x \o ms
  <2>1. a \in Seq(DownMsg)
    BY <1>2
  <2> HIDE DEF a
  <2>2. (d \o a) \o ms = d \o (a \o ms)
    BY <2>1, DownAssociative
  <2> QED BY <2>2
<1> HIDE DEF x
<1>5. Dialogue(u, x \o ms, s, f) /\ (Outside(u, x \o ms, s) <=> Outside(u, x, s))
  BY <1>1, <1>2, <1>3, DialogueTold
<1> QED BY <1>3, <1>4, <1>5

LEMMA ReplyIs ==
  ASSUME NEW h \in Nat, NEW ok \in BOOLEAN, NEW m, m = ConnMsg("reply", None, h, ok)
  PROVE  m \in Replies /\ m.ok = ok
BY DEF ConnMsg, Replies, DownMsg, DownActs

(* A question that is answered at once. *)
LEMMA AnsweredStep ==
  ASSUME Tracked, NEW w \in Workers, up[w] # <<>>, Head(up[w]) \in Asking, NEW h \in Nat, NEW ok \in BOOLEAN,
         NEW H \in HandleRec, NEW HS, h \in DOMAIN HS, HS[h].st # "binding", Waits(w)' = Waits(w),
         down'[w] = IF Sendable(w)
                    THEN down[w] \o (<<ConnMsg("reply", None, h, ok)>> \o (IF ok THEN handoffSends(H, h, w) ELSE <<>>))
                    ELSE down[w]
  PROVE  /\ Dialogue(Tail(up[w]), down'[w], proc[w].server, Waits(w)')
         /\ ok => ~Outside(Tail(up[w]), down'[w], proc[w].server)
<1> DEFINE u == Tail(up[w])
           d == down[w]
           s == proc[w].server
           b == down'[w]
           m == ConnMsg("reply", None, h, ok)
           ms == IF ok THEN handoffSends(H, h, w) ELSE <<>>
           t == TRUE
           f == FALSE
<1>1. Dialogue(u, d, s, t) /\ ~Outside(u, d, s) /\ ~Waits(w) /\ d \in Seq(DownMsg)
  <2> DEFINE q == up[w]
             k == Waits(w)
  <2>1. q \in Seq(UpMsg) /\ q # <<>> /\ k \in BOOLEAN /\ Dialogue(q, d, s, k) /\ Head(q) \in Asking /\ d \in Seq(DownMsg)
        /\ t \in BOOLEAN
    BY TrackedSeqs
  <2> HIDE DEF q, d, s, k, t
  <2>2. Dialogue(Tail(q), d, s, t) /\ ~Outside(Tail(q), d, s) /\ ~k
    BY <2>1, DialogueAsked
  <2> QED BY <2>1, <2>2 DEF q, k
<1>2. m \in Replies /\ m.ok = ok
  BY ReplyIs
<1>3. ms \in Seq(DownMsg) /\ ~Has(ms, Replies)
  <2>1. AllDown(handoffSends(H, h, w), HS)
    BY handoffSendsGood
  <2>2. <<>> \in Seq(DownMsg) /\ ~Has(<<>>, Replies)
    BY DEF Has
  <2> QED BY <2>1, <2>2, handoffSendsNeutral DEF AllDown
<1>4. b = d \/ b = d \o (<<m>> \o ms)
  OBVIOUS
<1>5. f = Waits(w)' /\ f = FALSE /\ t = TRUE
  BY <1>1, WaitsBool
<1> HIDE DEF u, d, s, b, m, ms, t, f
<1>6. Dialogue(u, b, s, f) /\ (m.ok => ~Outside(u, b, s))
  BY <1>1, <1>2, <1>3, <1>4, <1>5, AnswerSaid
<1>7. Dialogue(u, b, s, f) /\ (ok => ~Outside(u, b, s))
  BY <1>2, <1>6
<1> QED BY <1>5, <1>7 DEF u, b, s

LEMMA AskedWaits ==
  ASSUME Tracked, NEW w \in Workers, up[w] # <<>>, Head(up[w]) \in Asking, NEW t \in BOOLEAN
  PROVE  /\ Dialogue(Tail(up[w]), down[w], proc[w].server, t) /\ ~Outside(Tail(up[w]), down[w], proc[w].server)
         /\ Outside(up[w], down[w], proc[w].server)
<1> DEFINE u == up[w]
           d == down[w]
           s == proc[w].server
           k == Waits(w)
<1>1. u \in Seq(UpMsg) /\ u # <<>> /\ k \in BOOLEAN /\ Dialogue(u, d, s, k) /\ Head(u) \in Asking
  BY TrackedSeqs
<1> HIDE DEF u, d, s, k
<1>2. Dialogue(Tail(u), d, s, t) /\ ~Outside(Tail(u), d, s) /\ Outside(u, d, s)
  BY <1>1, DialogueAsked
<1> QED BY <1>2 DEF u, d, s

LEMMA queryServerTracked ==
  ASSUME Tracked, Base', NEW w \in Workers, queryServer(w)
  PROVE  Tracked'
<1>0. up[w] # <<>> /\ Head(up[w]) \in Asking /\ up' = Take(up, w) /\ fault = None
  <2>1. up[w] # <<>> /\ Head(up[w]).act = "queryServer" /\ up' = Take(up, w) /\ fault = None
    BY DEF queryServer, Hears
  <2>2. Head(up[w]) \in UpMsg
    BY <2>1, TrackedSeqs
  <2> QED BY <2>1, <2>2 DEF Asking
<1>1. UNCHANGED <<policy, reg, fault, proc>> /\ ~reg[w].exitedAfterDisconnect
  BY DEF queryServer
<1>2. Base /\ BindingWaits
  BY DEF Tracked
<1>3. PICK G : JoinBound(w, G) \/ JoinBinding(w, G) \/ Opens(w, G) \/ OpenFails(w, G) \/ OpenBinds(w, G)
  BY queryCases
<1>4. CASE JoinBound(w, G)
  <2> DEFINE A == Added(hs[table], w)
  <2>1. table \in DOMAIN hs /\ Fit(G) /\ G.st = "bound" /\ Fit(A) /\ G.all = hs[table].all \cup {w}
    BY <1>2, <1>4, JoinBoundIs
  <2>2. hs' = [hs EXCEPT ![table] = G] /\ table' = table /\ hs[table].st = "bound" /\ Answer(A, table, w, TRUE)
    BY <1>4 DEF JoinBound
  <2> HIDE DEF A
  <2>3. /\ DOMAIN hs' = DOMAIN hs /\ hs'[table] = G /\ Grown
        /\ \A k \in DOMAIN hs : k # table => hs'[k] = hs[k]
    BY <1>2, <2>1, <2>2, HandleChanged
  <2>4. table \in Nat /\ A \in HandleRec /\ table # None
    BY <1>2, <2>1, BaseFields DEF Fit
  <2>5. \A v \in Workers : down'[v] =
              IF v = w /\ Sendable(w)
              THEN down[w] \o (<<ConnMsg("reply", None, table, TRUE)>> \o (IF TRUE THEN handoffSends(A, table, w) ELSE <<>>))
              ELSE down[v]
    BY <1>2, <2>1, <2>2, <2>3, <2>4, AnswerOK
  <2>6. \A v : Waits(v)' = Waits(v)
    <3>1. G.waiting = <<>> /\ hs[table].waiting = <<>>
      BY <1>2, <2>1, <2>2, BaseFields DEF Fit
    <3>2. \A k \in DOMAIN hs : hs'[k].waiting = hs[k].waiting
      BY <2>3, <3>1
    <3> QED BY <2>3, <3>2 DEF Waits
  <2>7. BindingWaits'
    BY <1>2, <2>1, <2>2, <2>3 DEF BindingWaits
  <2>8. w \in hs'[table'].all /\ \A v \in hs'[table'].all : v # w => table # None /\ v \in hs[table].all
    BY <2>1, <2>2, <2>3, <2>4
  <2>9. /\ Dialogue(Tail(up[w]), down'[w], proc[w].server, Waits(w)')
        /\ ~Outside(Tail(up[w]), down'[w], proc[w].server)
    <3> DEFINE ok == TRUE
               q == <<ConnMsg("reply", None, table, ok)>> \o (IF ok THEN handoffSends(A, table, w) ELSE <<>>)
    <3>1. ok \in BOOLEAN /\ ok
      OBVIOUS
    <3>2. down'[w] = IF Sendable(w) THEN down[w] \o q ELSE down[w]
      BY <2>5
    <3>3. table \in DOMAIN hs' /\ hs'[table].st # "binding"
      BY <2>1, <2>3
    <3> HIDE DEF ok
    <3> QED BY <1>0, <2>4, <2>6, <3>1, <3>2, <3>3, AnsweredStep
  <2>10. \A v \in Workers : v # w => down'[v] = down[v]
    BY <2>5
  <2> QED BY <1>0, <1>1, <2>6, <2>7, <2>8, <2>9, <2>10, QueryStep
<1>5. CASE JoinBinding(w, G)
  <2>0. hs[table].st = "binding" /\ table # None
    BY <1>2, <1>5, BaseFields DEF JoinBinding, Cached
  <2>1. /\ table \in DOMAIN hs /\ Fit(G) /\ G.st = "binding" /\ G.all = hs[table].all \cup {w}
        /\ G.waiting = Append(hs[table].waiting, w)
    BY <1>2, <1>5, <2>0, JoinBindingIs
  <2>2. hs' = [hs EXCEPT ![table] = G] /\ table' = table /\ down' = down
    BY <1>5 DEF JoinBinding
  <2>3. /\ DOMAIN hs' = DOMAIN hs /\ hs'[table] = G
        /\ \A k \in DOMAIN hs : k # table => hs'[k] = hs[k]
    BY <1>2, <2>0, <2>1, <2>2, HandleChanged
  <2>4. Appended(G.waiting, hs[table].waiting, w) /\ G.waiting # <<>>
    <3>1. hs[table].waiting \in Seq(Workers)
      BY <1>2, <2>1, BaseFields, HandleFields DEF Fit
    <3>2. Appended(G.waiting, hs[table].waiting, w)
      BY <2>1, <3>1, AppendIn
    <3> QED BY <2>1, <3>1, <3>2
  <2>5. ASSUME NEW v \in Workers, v # w PROVE Waits(v)' = Waits(v)
    <3>1. In(G.waiting, v) <=> In(hs[table].waiting, v)
      BY <2>4, <2>5 DEF Appended
    <3>2. \A k \in DOMAIN hs : In(hs'[k].waiting, v) <=> In(hs[k].waiting, v)
      BY <2>3, <3>1
    <3> QED BY <2>3, <3>2 DEF Waits
  <2>6. BindingWaits'
    BY <1>2, <2>1, <2>2, <2>3, <2>4 DEF BindingWaits
  <2>7. w \in hs'[table'].all /\ \A v \in hs'[table'].all : v # w => table # None /\ v \in hs[table].all
    BY <2>0, <2>1, <2>2, <2>3
  <2>8. /\ Dialogue(Tail(up[w]), down'[w], proc[w].server, Waits(w)')
        /\ ~Outside(Tail(up[w]), down'[w], proc[w].server)
    <3> DEFINE t == Waits(w)'
    <3>1. t \in BOOLEAN
      BY DEF Waits
    <3> HIDE DEF t
    <3>2. Dialogue(Tail(up[w]), down[w], proc[w].server, t) /\ ~Outside(Tail(up[w]), down[w], proc[w].server)
      BY <1>0, <3>1, AskedWaits
    <3> QED BY <2>2, <3>2 DEF t
  <2> QED BY <1>0, <1>1, <2>2, <2>5, <2>6, <2>7, <2>8, QueryStep
<1>6. CASE Opens(w, G) \/ OpenFails(w, G) \/ OpenBinds(w, G)
  <2> DEFINE h == Len(hs) + 1
             A == Added(NewHandle(policy, "bound"), w)
  <2>1. /\ Fit(G) /\ Fit(A) /\ (Opens(w, G) => G.st = "bound") /\ (OpenFails(w, G) => G.st = "failed")
        /\ OpenBinds(w, G) => G.st = "binding" /\ G.waiting = <<w>>
        /\ G.all = {w}
    BY <1>2, <1>6, OpensIs
  <2>2. hs' = Append(hs, G) /\ ~Cached(w)
    BY <1>6 DEF Opens, OpenFails, OpenBinds
  <2>3. /\ DOMAIN hs' = DOMAIN hs \cup {h} /\ hs'[h] = G /\ Grown
        /\ \A k \in DOMAIN hs : hs'[k] = hs[k]
    BY <1>2, <2>1, <2>2, HandleAppended
  <2>4. /\ Opens(w, G) => Answer(A, h, w, TRUE) /\ table' = h
        /\ OpenFails(w, G) => Answer(A, h, w, FALSE) /\ table' = table
        /\ OpenBinds(w, G) => UNCHANGED <<down, sent>> /\ table' = IF table = None THEN h ELSE table
    BY DEF Opens, OpenFails, OpenBinds
  <2> HIDE DEF A
  <2>5. h \in Nat /\ h \in DOMAIN hs' /\ A \in HandleRec /\ h \notin DOMAIN hs
    <3>1. Len(hs) \in Nat /\ DOMAIN hs = 1 .. Len(hs)
      BY <1>2, BaseFields
    <3> QED BY <2>1, <2>3, <3>1 DEF Fit
  <2>6. table = None
    <3>1. Outside(up[w], down[w], proc[w].server)
      <4> DEFINE t == TRUE
      <4>1. t \in BOOLEAN
        OBVIOUS
      <4> HIDE DEF t
      <4> QED BY <1>0, <4>1, AskedWaits
    <3>2. Talks(w)
      BY DEF Tracked
    <3> QED BY <1>0, <2>2, <3>1, <3>2 DEF Talks, Cached
  <2>7. \A k \in DOMAIN hs : hs[k].st # "binding" /\ hs[k].waiting = <<>>
    BY <1>2, <2>6, BaseFields DEF BindingWaits, Fit
  <2>8. ASSUME NEW v \in Workers, v # w PROVE Waits(v)' = Waits(v)
    <3>1. ~In(G.waiting, v)
      <4>1. G.waiting = <<>> \/ G.waiting = <<w>>
        BY <1>6, <2>1 DEF Fit
      <4> QED BY <2>8, <4>1 DEF In
    <3> QED BY <2>3, <3>1 DEF Waits
  <2>9. BindingWaits'
    BY <1>6, <2>1, <2>3, <2>4, <2>6, <2>7 DEF BindingWaits
  <2>10. table' # None =>
           w \in hs'[table'].all /\ \A v \in hs'[table'].all : v # w => table # None /\ v \in hs[table].all
    BY <1>6, <2>1, <2>3, <2>4, <2>6
  <2>11. ASSUME NEW ok \in BOOLEAN, Answer(A, h, w, ok), G.st # "binding", ~ok => table' = None
         PROVE  /\ \A v \in Workers : v # w => down'[v] = down[v]
                /\ Dialogue(Tail(up[w]), down'[w], proc[w].server, Waits(w)')
                /\ table' # None => ~Outside(Tail(up[w]), down'[w], proc[w].server)
    <3> DEFINE q == <<ConnMsg("reply", None, h, ok)>> \o (IF ok THEN handoffSends(A, h, w) ELSE <<>>)
    <3>0. hs'[h].st # "binding"
      BY <2>3, <2>11
    <3>1. \A v \in Workers : down'[v] = IF v = w /\ Sendable(w) THEN down[w] \o q ELSE down[v]
      <4> HIDE DEF h
      <4> QED BY <1>2, <2>3, <2>5, <2>11, <3>0, AnswerOK
    <3>2. down'[w] = IF Sendable(w) THEN down[w] \o q ELSE down[w]
      BY <3>1
    <3>3. Waits(w)' = Waits(w)
      <4>1. ~In(G.waiting, w)
        BY <2>1, <2>11 DEF Fit, In
      <4> QED BY <2>3, <4>1 DEF Waits
    <3>4. /\ Dialogue(Tail(up[w]), down'[w], proc[w].server, Waits(w)')
          /\ ok => ~Outside(Tail(up[w]), down'[w], proc[w].server)
      <4> HIDE DEF h
      <4> QED BY <1>0, <2>5, <3>0, <3>2, <3>3, AnsweredStep
    <3>5. \A v \in Workers : v # w => down'[v] = down[v]
      BY <3>1
    <3> QED BY <2>11, <3>4, <3>5
  <2>12. /\ \A v \in Workers : v # w => down'[v] = down[v]
         /\ Dialogue(Tail(up[w]), down'[w], proc[w].server, Waits(w)')
         /\ table' # None => ~Outside(Tail(up[w]), down'[w], proc[w].server)
    <3>1. CASE Opens(w, G)
      <4> DEFINE ok == TRUE
      <4>1. ok \in BOOLEAN /\ Answer(A, h, w, ok) /\ G.st # "binding" /\ (~ok => table' = None)
        BY <2>1, <2>4, <3>1
      <4> HIDE DEF ok, h
      <4> QED BY <2>11, <4>1
    <3>2. CASE OpenFails(w, G)
      <4> DEFINE ok == FALSE
      <4>1. ok \in BOOLEAN /\ Answer(A, h, w, ok) /\ G.st # "binding" /\ (~ok => table' = None)
        BY <2>1, <2>4, <2>6, <3>2
      <4> HIDE DEF ok, h
      <4> QED BY <2>11, <4>1
    <3>3. CASE OpenBinds(w, G)
      <4> DEFINE t == Waits(w)'
      <4>1. t \in BOOLEAN
        BY DEF Waits
      <4> HIDE DEF t
      <4>2. Dialogue(Tail(up[w]), down[w], proc[w].server, t) /\ ~Outside(Tail(up[w]), down[w], proc[w].server)
        BY <1>0, <4>1, AskedWaits
      <4>3. down' = down
        BY <2>4, <3>3
      <4> QED BY <4>2, <4>3 DEF t
    <3> QED BY <1>6, <3>1, <3>2, <3>3
  <2> QED BY <1>0, <1>1, <2>8, <2>9, <2>10, <2>12, QueryStep
<1> QED BY <1>3, <1>4, <1>5, <1>6

(* The bind ends: nobody waits any more, and the workers that did are answered. *)
LEMMA DialogueForgets ==
  ASSUME NEW u, NEW d, NEW s, NEW k, Dialogue(u, d, s, k), NEW f, f = FALSE
  PROVE  Dialogue(u, d, s, f)
BY DEF Dialogue

NotRefused(q) == \A m \in Replies : q = <<m>> => m.ok

LEMMA WaitAnswered ==
  ASSUME NEW u, NEW d \in Seq(DownMsg), NEW s, NEW k \in BOOLEAN, Dialogue(u, d, s, k), NEW f, f = FALSE,
         NEW q, q = <<>> \/ (k /\ \E m \in Replies : q = <<m>>), NEW b, b = d \/ b = d \o q
  PROVE  /\ Dialogue(u, b, s, f)
         /\ NotRefused(q) => (Outside(u, b, s) => Outside(u, d, s))
<1>1. CASE b = d
  BY <1>1, DialogueForgets
<1>2. CASE q = <<>>
  <2>1. d \o <<>> = d
    OBVIOUS
  <2> QED BY <1>2, <2>1, DialogueForgets
<1>3. ASSUME k, b = d \o q, NEW m \in Replies, q = <<m>>
      PROVE  /\ Dialogue(u, b, s, f)
             /\ m.ok => (Outside(u, b, s) => Outside(u, d, s))
  <2> DEFINE t == TRUE
             e == <<>>
  <2>1. Dialogue(u, d, s, t) /\ t = TRUE
    BY <1>3
  <2>2. Dialogue(u, d \o <<m>>, s, FALSE) /\ (m.ok => (Outside(u, d \o <<m>>, s) <=> Outside(u, d, s)))
    BY <2>1, DialogueAnswers
  <2>3. Dialogue(u, d \o <<m>>, s, f)
    BY <2>2, DialogueForgets
  <2> QED BY <1>3, <2>2, <2>3
<1> QED BY <1>1, <1>2, <1>3 DEF NotRefused

BindsTo(h, G, S) ==
  /\ fault = None /\ hs[h].st = "binding" /\ hs' = [hs EXCEPT ![h] = G]
  /\ G.st # "binding" /\ G.waiting = <<>> /\ G.all = hs[h].all /\ UNCHANGED <<policy, reg, up, proc>>
  /\ \A v \in Workers : down'[v] = IF Sendable(v) THEN down[v] \o S[v] ELSE down[v]
  /\ \A v \in Workers : S[v] = <<>> \/ (In(hs[h].waiting, v) /\ \E m \in Replies : S[v] = <<m>>)
  /\ table' = h \/ table' = None
  /\ table' = h => \A v \in Workers : NotRefused(S[v])

LEMMA BindStep ==
  ASSUME Tracked, Base', NEW h \in DOMAIN hs, NEW G, NEW S, BindsTo(h, G, S)
  PROVE  Tracked'
<1> USE BaseFields DEF Tracked, BindsTo
<1>1. table = h /\ h # None
  BY DEF BindingWaits
<1>2. DOMAIN hs' = DOMAIN hs /\ hs'[h] = G /\ \A k \in DOMAIN hs : k # h => hs'[k] = hs[k]
  OBVIOUS
<1>3. \A k \in DOMAIN hs : hs'[k].st # "binding" /\ hs'[k].waiting = <<>>
  <2>1. \A k \in DOMAIN hs : k # h => hs[k].st # "binding" /\ hs[k].waiting = <<>>
    BY <1>1 DEF BindingWaits, Fit
  <2> QED BY <1>2, <2>1
<1>4. BindingWaits'
  BY <1>2, <1>3 DEF BindingWaits
<1>5. \A v : Waits(v)' = FALSE
  BY <1>2, <1>3 DEF Waits, In
<1>6. \A v \in Workers : ~reg[v].connected => (Unacknowledged(v)' <=> Unacknowledged(v))
  BY DEF Unacknowledged, Sendable
<1>7. table' # None => hs'[table'].all = hs[table].all
  BY <1>1, <1>2
<1>8. Members'
  <2>1. ASSUME table' # None
        PROVE  hs'[table'].all # {} /\ \A v \in hs'[table'].all : reg'[v].listed /\ (reg'[v].connected \/ Unacknowledged(v)')
    <3>1. hs[table].all # {} /\ \A v \in hs[table].all : v \in Workers /\ reg[v].listed /\ (reg[v].connected \/ Unacknowledged(v))
      <4>1. hs[table].all \subseteq Workers
        BY <1>1, HandleFields DEF Fit
      <4> QED BY <1>1, <4>1 DEF Members
    <3> QED BY <1>6, <1>7, <2>1, <3>1
  <2> QED BY <2>1 DEF Members
<1>9. ASSUME NEW v \in Workers PROVE Wired(v)' /\ Listing(v)'
  <2>1. Wired(v) /\ Listing(v)
    OBVIOUS
  <2> QED BY <1>6, <2>1 DEF Wired, Listing, Forked
<1>10. ASSUME NEW v \in Workers PROVE Talks(v)'
  <2> DEFINE u == up[v]
             d == down[v]
             s == proc[v].server
             k == Waits(v)
             q == S[v]
             b == down'[v]
             f == FALSE
  <2>1. d \in Seq(DownMsg) /\ k \in BOOLEAN /\ Dialogue(u, d, s, k)
    BY TrackedSeqs
  <2>2. q = <<>> \/ (k /\ \E m \in Replies : q = <<m>>)
    BY DEF Waits
  <2>3. b = d \/ b = d \o q
    OBVIOUS
  <2>4. up'[v] = u /\ proc'[v].server = s /\ Waits(v)' = f /\ f = FALSE
    BY <1>5
  <2>5. table' = h => NotRefused(q)
    OBVIOUS
  <2>6. Talks(v)
    OBVIOUS
  <2>7. table # None /\ Outside(u, d, s) => v \notin hs[table].all
    BY <2>6 DEF Talks
  <2> HIDE DEF u, d, s, k, q, b, f
  <2>8. Dialogue(u, b, s, f) /\ (NotRefused(q) => (Outside(u, b, s) => Outside(u, d, s)))
    BY <2>1, <2>2, <2>3, <2>4, WaitAnswered
  <2>9. table' # None => (Outside(u, b, s) => v \notin hs'[table'].all)
    BY <1>1, <1>7, <2>5, <2>7, <2>8
  <2>10. Dialogue(u, b, s, Waits(v)')
    BY <2>4, <2>8
  <2> QED BY <2>4, <2>9, <2>10 DEF Talks, b
<1> QED BY <1>4, <1>8, <1>9, <1>10

(* 'listening' of the primary's server, and 'error'. *)
LEMMA boundTracked ==
  ASSUME Tracked, Base', NEW h \in DOMAIN hs, bound(h)
  PROVE  Tracked'
<1> DEFINE G == BoundTo(h)
           S == [w \in Workers |-> IF w \in ToSet(hs[h].waiting) THEN <<ConnMsg("reply", None, h, TRUE)>> ELSE <<>>]
<1>0. Base /\ hs[h].st = "binding" /\ fault = None /\ UNCHANGED <<policy, reg, up, proc>>
  BY DEF Tracked, bound
<1>1. hs' = [hs EXCEPT ![h] = G] /\ SendAll(S)
  BY DEF bound, BoundTo
<1>2. G.st # "binding" /\ G.waiting = <<>> /\ G.all = hs[h].all
  BY <1>0, BoundIs
<1> HIDE DEF G
<1>3. h \in Nat /\ hs[h].waiting \in Seq(Workers)
  BY <1>0, BaseFields, HandleFields DEF Fit
<1>4. table' = h
  BY <1>0 DEF Tracked, BindingWaits, bound
<1> DEFINE ok == TRUE
           m == ConnMsg("reply", None, h, ok)
<1>5. \A v \in Workers : S[v] = IF v \in ToSet(hs[h].waiting) THEN <<m>> ELSE <<>>
  OBVIOUS
<1>6. ok \in BOOLEAN /\ ok
  OBVIOUS
<1> HIDE DEF ok, S
<1>7. m \in Replies /\ m.ok = ok
  BY <1>3, <1>6, ReplyIs
<1> HIDE DEF m
<1>8. \A v \in Workers : S[v] = <<>> \/ (In(hs[h].waiting, v) /\ \E n \in Replies : S[v] = <<n>>)
  BY <1>3, <1>5, <1>7, InIs
<1>9. \A v \in Workers : NotRefused(S[v])
  <2>1. ASSUME NEW v \in Workers, NEW n \in Replies, S[v] = <<n>> PROVE n.ok
    <3>1. S[v] = <<m>> \/ S[v] = <<>>
      BY <1>5
    <3>2. n = m
      BY <2>1, <3>1
    <3> QED BY <1>6, <1>7, <3>2
  <2> QED BY <2>1 DEF NotRefused
<1>10. \A v \in Workers : down'[v] = IF Sendable(v) THEN down[v] \o S[v] ELSE down[v]
  BY <1>1, SentTo
<1>11. BindsTo(h, G, S)
  BY <1>0, <1>1, <1>2, <1>4, <1>8, <1>9, <1>10 DEF BindsTo
<1> QED BY <1>11, BindStep

LEMMA bindFailedTracked ==
  ASSUME Tracked, Base', NEW h \in DOMAIN hs, bindFailed(h)
  PROVE  Tracked'
<1> DEFINE G == FailedTo(h)
           told == IF table = h THEN {Head(hs[h].waiting)} ELSE ToSet(hs[h].waiting)
           S == [w \in Workers |-> IF w \in told THEN <<ConnMsg("reply", None, h, FALSE)>> ELSE <<>>]
<1>0. Base /\ hs[h].st = "binding" /\ fault = None /\ UNCHANGED <<policy, reg, up, proc>>
  BY DEF Tracked, bindFailed
<1>1. /\ hs' = [hs EXCEPT ![h] = G] /\ G.st # "binding" /\ G.waiting = <<>> /\ G.all = hs[h].all
  BY <1>0, FailedIs
<1>2. SendAll(S)
  BY DEF bindFailed
<1>3. h \in Nat /\ hs[h].waiting \in Seq(Workers) /\ hs[h].waiting # <<>> /\ table = h /\ h # None
  BY <1>0, BaseFields, HandleFields DEF Fit, Tracked, BindingWaits
<1>4. table' = None
  BY <1>3 DEF bindFailed
<1> HIDE DEF G
<1>5. \A v \in told : In(hs[h].waiting, v)
  BY <1>3 DEF In
<1> DEFINE ok == FALSE
           m == ConnMsg("reply", None, h, ok)
<1> HIDE DEF told
<1>6. \A v \in Workers : S[v] = IF v \in told THEN <<m>> ELSE <<>>
  OBVIOUS
<1>7. ok \in BOOLEAN
  OBVIOUS
<1> HIDE DEF ok, S
<1>8. m \in Replies
  BY <1>3, <1>7, ReplyIs
<1> HIDE DEF m
<1>9. \A v \in Workers : S[v] = <<>> \/ (In(hs[h].waiting, v) /\ \E n \in Replies : S[v] = <<n>>)
  BY <1>5, <1>6, <1>8
<1>10. \A v \in Workers : down'[v] = IF Sendable(v) THEN down[v] \o S[v] ELSE down[v]
  BY <1>2, SentTo
<1>11. (table' = h \/ table' = None) /\ (table' = h => \A v \in Workers : NotRefused(S[v]))
  BY <1>3, <1>4
<1>12. BindsTo(h, G, S)
  BY <1>0, <1>1, <1>9, <1>10, <1>11 DEF BindsTo
<1> QED BY <1>12, BindStep

-----------------------------------------------------------------------------
LEMMA InitTracked == Init => Tracked
<1> SUFFICES ASSUME Init PROVE Tracked
  OBVIOUS
<1>1. table = None /\ DOMAIN hs = {}
  BY DEF Init
<1>2. Base /\ BindingWaits /\ Members
  BY <1>1, InitBase DEF BindingWaits, Members
<1>3. ASSUME NEW w \in Workers PROVE Wired(w) /\ Listing(w) /\ Talks(w)
  <2>1. /\ up[w] = <<>> /\ down[w] = <<>> /\ proc[w].server = "none" /\ ~proc[w].connected
        /\ reg[w].state = "unforked" /\ ~reg[w].connected /\ ~reg[w].dead
    BY DEF Init
  <2>2. Wired(w)
    BY <2>1 DEF Wired, Channel, Has, EndLast
  <2>3. Listing(w)
    BY <2>1 DEF Listing, Forked
  <2>4. ~Waits(w)
    BY <1>1 DEF Waits
  <2>5. Dialogue(up[w], down[w], proc[w].server, Waits(w))
    <3> DEFINE k == Waits(w)
    <3>1. ~k
      BY <2>4
    <3> HIDE DEF k
    <3>2. Dialogue(up[w], down[w], proc[w].server, k)
      BY <2>1, <3>1 DEF Dialogue, Once, After, Has
    <3> QED BY <3>2 DEF k
  <2>6. Talks(w)
    BY <1>1, <2>5 DEF Talks
  <2> QED BY <2>2, <2>3, <2>6
<1> QED BY <1>2, <1>3 DEF Tracked

LEMMA StutterTracked ==
  ASSUME Tracked, Base', UNCHANGED vars
  PROVE  Tracked'
<1>1. UNCHANGED <<policy, reg, table, hs, fault, up, down, proc>>
  BY DEF vars
<1>2. HandlesAlike
  BY <1>1 DEF HandlesAlike
<1>3. ASSUME NEW v \in Workers PROVE RegAlike(v) /\ TalkAlike(v) /\ Wired(v)'
  <2>1. Wired(v) /\ Talks(v)
    BY DEF Tracked
  <2> QED BY <1>1, <2>1 DEF RegAlike, TalkAlike, Talks, Wired, Forked
<1> QED BY <1>1, <1>2, <1>3, AlikeTracked

LEMMA NextTracked == Tracked /\ [Next]_vars => Tracked'
<1> SUFFICES ASSUME Tracked, [Next]_vars PROVE Tracked'
  OBVIOUS
<1>0. Base'
  BY NextBase DEF Tracked
<1>1. CASE UNCHANGED vars
  BY <1>0, <1>1, StutterTracked
<1>2. ASSUME NEW w \in Workers, fork(w) \/ primaryDisconnect(w) PROVE Tracked'
  BY <1>0, <1>2, forkTracked, primaryDisconnectTracked
<1>3. ASSUME NEW w \in Workers, Hear(w) PROVE Tracked'
  <2>1. CASE online(w) \/ listening(w)
    BY <1>0, <2>1, onlineTracked
  <2>2. CASE exitedAfterDisconnect(w) \/ queryServerIgnored(w) \/ queryServer(w)
    BY <1>0, <2>2, exitedTracked, ignoredTracked, queryServerTracked
  <2>3. CASE close(w) \/ ackNewconn(w)
    BY <1>0, <2>3, closeTracked, ackTracked
  <2>4. CASE disconnectEvent(w) \/ silentDisconnect(w) \/ exitEvent(w)
    BY <1>0, <2>4, disconnectEventTracked, silentTracked, exitEventTracked
  <2> QED BY <1>3, <2>1, <2>2, <2>3, <2>4 DEF Hear
<1>4. ASSUME NEW w \in Workers, Get(w) PROVE Tracked'
  <2>1. CASE reply(w) \/ onconnection(w)
    BY <1>0, <2>1, replyTracked, onconnectionTracked
  <2>2. CASE disconnectMessage(w)
    BY <1>0, <2>2, disconnectTracked
  <2>3. CASE ackExited(w) \/ waitingDone(w)
    BY <1>0, <2>3, ackExitedTracked, waitingDoneTracked
  <2>4. CASE orphaned(w) \/ exit(w)
    BY <1>0, <2>4, quietTracked
  <2> QED BY <1>4, <2>1, <2>2, <2>3, <2>4 DEF Get
<1>5. ASSUME NEW w \in Workers, listen(w) \/ closeServer(w) PROVE Tracked'
  BY <1>0, <1>5, listenTracked, closeServerTracked
<1>6. ASSUME NEW w \in Workers, workerDisconnect(w) \/ workerDestroy(w) \/ crash(w) PROVE Tracked'
  BY <1>0, <1>6, disconnectTracked, workerDestroyTracked, crashTracked
<1>7. ASSUME NEW h \in DOMAIN hs, Bind(h) PROVE Tracked'
  BY <1>0, <1>7, boundTracked, bindFailedTracked DEF Bind
<1>8. ASSUME NEW c \in Conns, connection(c) \/ \E w \in Workers : endConn(w, c) PROVE Tracked'
  <2>1. CASE connection(c)
    BY <1>0, <2>1, connectionTracked
  <2>2. ASSUME NEW w \in Workers, endConn(w, c) PROVE Tracked'
    BY <1>0, <2>2, quietTracked
  <2> QED BY <1>8, <2>1, <2>2
<1> QED BY <1>1, <1>2, <1>3, <1>4, <1>5, <1>6, <1>7, <1>8 DEF Next

LEMMA TrackedHolds == Spec => []Tracked
BY InitTracked, NextTracked, PTL DEF Spec

LEMMA TrackedForgets == Tracked => GoneIsForgotten
<1> SUFFICES ASSUME Tracked PROVE GoneIsForgotten
  OBVIOUS
<1>1. NoLeak
  <2> SUFFICES ASSUME fault = None, \A w \in Workers : ~reg[w].listed, table # None PROVE FALSE
    BY DEF NoLeak
  <2>1. hs[table].all # {} /\ \A w \in hs[table].all : reg[w].listed
    BY DEF Tracked, Members
  <2>2. hs[table].all \subseteq Workers
    BY BaseFields, HandleFields DEF Tracked, Fit
  <2> QED BY <2>1, <2>2
<1>2. GoneIsRemoved
  BY DEF GoneIsRemoved, Tracked, Listing
<1> QED BY <1>1, <1>2 DEF GoneIsForgotten

(* removeWorker()'s assertion 'Resource leak detected.' holds: when cluster.workers is   *)
(* empty, so is the table of handles.  And a worker whose process exited and whose       *)
(* channel is closed is not in cluster.workers, in whichever order 'exit' and            *)
(* 'disconnect' came, unless it left a handle unacknowledged.                            *)
THEOREM GoneIsForgottenHolds == Spec => []GoneIsForgotten
BY TrackedHolds, TrackedForgets, PTL
-----------------------------------------------------------------------------
(* Where a connection is.  The messages that carry c; those that bring it back *)
(* unaccepted.                                                                 *)
Of(c) == {m \in UpMsg \cup DownMsg : m.c = c}
Back(c) == {m \in UpMsg : m.c = c /\ ~m.ok}

Queues(c, h) == h \in DOMAIN hs /\ Has(hs[h].conns, {c})
Goes(c, w) == w \in Workers /\ Has(down[w], Of(c))
Returns(c, w) == w \in Workers /\ Has(up[w], Of(c))
SentBack(c, w) == w \in Workers /\ Has(up[w], Back(c))
Somewhere(c) == (\E h : Queues(c, h)) \/ (\E w : Goes(c, w)) \/ (\E w : Returns(c, w))
Unaccepted(c) == (\E h : Queues(c, h)) \/ (\E w : Goes(c, w)) \/ (\E w : SentBack(c, w))

(* It is in one place, *)
Lone(c) ==
  /\ \A g, h : Queues(c, g) /\ Queues(c, h) => g = h
  /\ \A v, w : Goes(c, v) /\ Goes(c, w) => v = w
  /\ \A v, w : Returns(c, v) /\ Returns(c, w) => v = w
  /\ \A h, w : Queues(c, h) => ~Goes(c, w) /\ ~Returns(c, w)
  /\ \A v, w : Goes(c, v) => ~Returns(c, w)

(* once. *)
Tidy(c) ==
  /\ \A h \in DOMAIN hs : Once(hs[h].conns, {c})
  /\ \A w \in Workers : Once(down[w], Of(c)) /\ Once(up[w], Of(c))

(* The worker it was sent to has left. *)
LeftWith(c) == sent[c] \in Workers /\ ~proc[sent[c]].connected /\ Forked(sent[c])

(* A connection is in one place at a time, before it is accepted and when the  *)
(* answer is under way; while it is open it is somewhere.                      *)
Sound(c) ==
  /\ Lone(c) /\ Tidy(c)
  /\ Somewhere(c) \/ served[c] # {} => c \in seen
  /\ Unaccepted(c) => served[c] = {}
  /\ \A v, w \in served[c] : v = w
  /\ c \in open => Somewhere(c) \/ LeftWith(c)

(* The workers of every handle were forked. *)
AllForked == \A h \in DOMAIN hs : \A w \in hs[h].all : Forked(w)

(* A step that moves c nowhere, and may close it. *)
Rests(c) ==
  /\ \A h : Queues(c, h)' => Queues(c, h)
  /\ \A w : (Goes(c, w)' => Goes(c, w)) /\ (Returns(c, w)' => Returns(c, w)) /\ (SentBack(c, w)' => SentBack(c, w))
  /\ Tidy(c)'
  /\ served'[c] = served[c] /\ (c \in seen => c \in seen')
  /\ c \in open' => c \in open /\ (Somewhere(c) => Somewhere(c)') /\ (LeftWith(c) => LeftWith(c)')

LEMMA RestsSound ==
  ASSUME NEW c, Sound(c), Rests(c)
  PROVE  Sound(c)'
<1>1. Lone(c)'
  <2>1. Lone(c)
    BY DEF Sound
  <2>2. /\ \A h : Queues(c, h)' => Queues(c, h)
        /\ \A w : (Goes(c, w)' => Goes(c, w)) /\ (Returns(c, w)' => Returns(c, w))
    BY DEF Rests
  <2> QED BY <2>1, <2>2, Zenon DEF Lone
<1>2. (Somewhere(c)' => Somewhere(c)) /\ (Unaccepted(c)' => Unaccepted(c))
  BY DEF Rests, Somewhere, Unaccepted
<1>3. Tidy(c)'
  BY DEF Rests
<1> QED BY <1>1, <1>2, <1>3 DEF Rests, Sound

(* A sequence that loses and gains nothing of M. *)
Same(q, r, M) == (Has(r, M) <=> Has(q, M)) /\ (Once(q, M) => Once(r, M))

LEMMA SameTold ==
  ASSUME NEW S, NEW q \in Seq(S), NEW p \in Seq(S), NEW M, ~Has(p, M), NEW y, y = q \o p
  PROVE  Same(q, y, M)
<1>1. Once(p, M)
  BY DEF Has, Once
<1> QED BY <1>1, HasCat DEF Same

LEMMA SameTaken ==
  ASSUME NEW S, NEW q \in Seq(S), q # <<>>, NEW M, Head(q) \notin M, NEW y, y = Tail(q)
  PROVE  Same(q, y, M)
BY HasTail DEF Same

LEMMA SameIs == \A q, M : Same(q, q, M)
BY DEF Same

(* The step leaves c where it is. *)
QuietUp(c) == \A w \in Workers : Same(up[w], up'[w], Of(c)) /\ Same(up[w], up'[w], Back(c))
QuietDown(c) == \A w \in Workers : Same(down[w], down'[w], Of(c))
QuietHandles(c) ==
  /\ \A h \in DOMAIN hs : h \in DOMAIN hs' /\ Same(hs[h].conns, hs'[h].conns, {c})
  /\ \A h \in DOMAIN hs' : h \notin DOMAIN hs => hs'[h].conns = <<>>

LEMMA QuietSound ==
  ASSUME NEW c, Sound(c), QuietUp(c), QuietDown(c), QuietHandles(c),
         served'[c] = served[c], c \in seen => c \in seen', sent'[c] = sent[c], c \in open' => c \in open, LeftWith(c) => LeftWith(c)'
  PROVE  Sound(c)'
<1>0. \A q : q = <<>> => ~Has(q, {c}) /\ Once(q, {c})
  BY HasOne
<1>1. \A h : Queues(c, h)' <=> Queues(c, h)
  BY <1>0 DEF Queues, QuietHandles, Same
<1>2. \A w : (Goes(c, w)' <=> Goes(c, w)) /\ (Returns(c, w)' <=> Returns(c, w)) /\ (SentBack(c, w)' <=> SentBack(c, w))
  BY DEF Goes, Returns, SentBack, QuietUp, QuietDown, Same
<1>3. Tidy(c)'
  <2>1. \A h \in DOMAIN hs' : Once(hs'[h].conns, {c})
    BY <1>0 DEF QuietHandles, Same, Sound, Tidy
  <2> QED BY <2>1 DEF QuietUp, QuietDown, Same, Sound, Tidy
<1>4. Somewhere(c)' <=> Somewhere(c)
  BY <1>1, <1>2 DEF Somewhere
<1>5. Rests(c)
  BY <1>1, <1>2, <1>3, <1>4 DEF Rests
<1> QED BY <1>5, RestsSound

-----------------------------------------------------------------------------
(* A forked worker stays forked, and one that left does not come back. *)
Stays(v) == Forked(v) => Forked(v)' /\ (proc'[v].connected => proc[v].connected)

LEMMA StaysSet ==
  ASSUME Tracked, reg' = reg, NEW w \in Workers, NEW q, Set(w, q), q.connected => proc[w].connected
  PROVE  \A v \in Workers : Stays(v)
BY SetSame DEF Stays, Forked

LEMMA StaysReg ==
  ASSUME Tracked, proc' = proc, NEW w \in Workers, NEW R \in RegRec, R.state # "unforked",
         reg' = [reg EXCEPT ![w] = R] \/ reg' = reg
  PROVE  \A v \in Workers : Stays(v)
BY RegSet DEF Stays, Forked, Tracked

LEMMA LeavesStays ==
  ASSUME Tracked, reg' = reg, NEW w \in Workers, NEW who \in {"primary", "self"},
         NEW state \in {"none", "online", "listening", "disconnecting", "destroying"},
         _disconnect(w, who, state)
  PROVE  \A v \in Workers : Stays(v)
<1>1. proc[w] \in ProcRec
  BY ProcFields DEF Tracked
<1>2. \E q : Set(w, q) /\ (q.connected => proc[w].connected)
  BY <1>1, LeaveCases
<1> QED BY <1>2, StaysSet

LEMMA WorkerStays ==
  ASSUME Tracked, NEW w \in Workers,
         \/ Get(w) \/ listen(w) \/ closeServer(w) \/ workerDisconnect(w) \/ workerDestroy(w) \/ crash(w)
         \/ \E c \in Conns : endConn(w, c)
  PROVE  \A v \in Workers : Stays(v)
<1> DEFINE Less(q) == Set(w, q) /\ (q.connected => proc[w].connected)
<1>0. proc[w] \in ProcRec /\ proc[w].state \in {"none", "online", "listening", "disconnecting", "destroying"}
  BY ProcFields DEF Tracked
<1>1. \A s, t : /\ [proc[w] EXCEPT !.server = s].connected = proc[w].connected
                /\ [proc[w] EXCEPT !.server = s, !.state = t].connected = proc[w].connected
                /\ [proc[w] EXCEPT !.server = s, !.conns = t].connected = proc[w].connected
                /\ [proc[w] EXCEPT !.conns = s].connected = proc[w].connected
                /\ [proc[w] EXCEPT !.waiting = s].connected = proc[w].connected
                /\ [proc[w] EXCEPT !.alive = s].connected = proc[w].connected
                /\ [proc[w] EXCEPT !.exitedAfterDisconnect = s, !.state = t].connected = proc[w].connected
                /\ ~[proc[w] EXCEPT !.connected = FALSE, !.alive = s].connected
                /\ ~[proc[w] EXCEPT !.alive = s, !.connected = FALSE, !.conns = t].connected
  BY <1>0 DEF ProcRec
<1>2. ~Disconnected(w, proc[w]).connected
  BY <1>0, DisconnectedIs
<1>3. CASE reply(w)
  <2> DEFINE a == [proc[w] EXCEPT !.server = "open", !.state = "listening"]
             b == [proc[w] EXCEPT !.server = "none"]
  <2>2. reg' = reg /\ (Set(w, a) \/ Set(w, b))
    BY <1>3 DEF reply, primary
  <2>3. a.connected = proc[w].connected /\ b.connected = proc[w].connected
    BY <1>1
  <2> HIDE DEF a, b
  <2>1. reg' = reg /\ \E q : Less(q)
    BY <2>2, <2>3
  <2> QED BY <2>1, StaysSet
<1>4. CASE ackExited(w) \/ waitingDone(w)
  <2>1. reg' = reg /\ \E q : Less(q)
    BY <1>1, <1>2, <1>4, Zenon DEF ackExited, waitingDone, primary
  <2> QED BY <2>1, StaysSet
<1>5. CASE onconnection(w)
  <2>1. reg' = reg /\ (proc' = proc \/ \E s : Set(w, [proc[w] EXCEPT !.conns = s]))
    BY <1>5 DEF onconnection, primary
  <2>2. CASE proc' = proc
    BY <2>1, <2>2 DEF Stays, Forked
  <2>3. ASSUME NEW s, Set(w, [proc[w] EXCEPT !.conns = s]) PROVE \A v \in Workers : Stays(v)
    <3> DEFINE q == [proc[w] EXCEPT !.conns = s]
    <3>1. Set(w, q) /\ (q.connected => proc[w].connected)
      BY <1>1, <2>3
    <3> HIDE DEF q
    <3> QED BY <2>1, <3>1, StaysSet
  <2> QED BY <2>1, <2>2, <2>3
<1>6. CASE orphaned(w) \/ exit(w) \/ listen(w) \/ closeServer(w)
  <2>1. reg' = reg /\ \E q : Less(q)
    <3>1. CASE orphaned(w)
      BY <1>1, <3>1, Zenon DEF orphaned, primary
    <3>2. CASE exit(w)
      BY <1>1, <3>2, Zenon DEF exit, primary
    <3>3. CASE listen(w)
      BY <1>1, <3>3, Zenon DEF listen, primary
    <3>4. CASE closeServer(w)
      <4> DEFINE a == [proc[w] EXCEPT !.server = "none", !.conns = {}]
      <4>1. reg' = reg /\ Set(w, a)
        BY <3>4 DEF closeServer, primary
      <4>2. a.connected = proc[w].connected
        BY <1>1
      <4> HIDE DEF a
      <4> QED BY <4>1, <4>2
    <3> QED BY <1>6, <3>1, <3>2, <3>3, <3>4
  <2> QED BY <2>1, StaysSet
<1>7. CASE workerDestroy(w) \/ crash(w)
  <2>1. reg' = reg /\ \E q : Less(q)
    <3> DEFINE a == [proc[w] EXCEPT !.exitedAfterDisconnect = TRUE, !.state = "destroying"]
               b == [proc[w] EXCEPT !.alive = FALSE, !.connected = FALSE, !.conns = {}]
    <3>1. reg' = reg /\ (Set(w, a) \/ Set(w, b))
      BY <1>7 DEF workerDestroy, crash, primary
    <3>2. a.connected = proc[w].connected /\ ~b.connected
      BY <1>1
    <3> HIDE DEF a, b
    <3> QED BY <3>1, <3>2
  <2> QED BY <2>1, StaysSet
<1>8. CASE disconnectMessage(w)
  <2>1. reg' = reg /\ _disconnect(w, "primary", proc[w].state)
    BY <1>8 DEF disconnectMessage, primary
  <2> QED BY <1>0, <2>1, LeavesStays
<1>9. CASE workerDisconnect(w)
  <2>1. reg' = reg /\ _disconnect(w, "self", "disconnecting")
    BY <1>9 DEF workerDisconnect, primary
  <2> QED BY <1>0, <2>1, LeavesStays
<1>10. ASSUME NEW c \in Conns, endConn(w, c) PROVE \A v \in Workers : Stays(v)
  <2> DEFINE s == proc[w].conns \ {c}
             q == [proc[w] EXCEPT !.conns = s]
  <2>1. reg' = reg /\ Set(w, q)
    BY <1>10 DEF endConn, primary
  <2> HIDE DEF s
  <2>2. q.connected => proc[w].connected
    BY <1>1
  <2> HIDE DEF q
  <2> QED BY <2>1, <2>2, StaysSet
<1> QED BY <1>3, <1>4, <1>5, <1>6, <1>7, <1>8, <1>9, <1>10 DEF Get

LEMMA PrimaryStays ==
  ASSUME Tracked, NEW w \in Workers, fork(w) \/ primaryDisconnect(w) \/ Hear(w)
  PROVE  \A v \in Workers : Stays(v)
<1>0. reg[w] \in RegRec /\ reg \in [Workers -> RegRec] /\ proc \in [Workers -> ProcRec]
  BY RegFields, BaseFields DEF Tracked
<1>1. CASE fork(w)
  <2>1. ~Forked(w) /\ \A v \in Workers : v # w => reg'[v] = reg[v] /\ proc'[v] = proc[v]
    BY <1>0, <1>1 DEF fork, Forked
  <2> QED BY <2>1 DEF Stays, Forked
<1>2. ASSUME Forked(w), proc' = proc,
             reg' = reg \/ \E R \in RegRec : R.state # "unforked" /\ reg' = [reg EXCEPT ![w] = R]
      PROVE  \A v \in Workers : Stays(v)
  <2>1. CASE reg' = reg
    BY <1>2, <2>1 DEF Stays, Forked
  <2>2. CASE reg' # reg
    BY <1>2, <2>2, StaysReg
  <2> QED BY <2>1, <2>2
<1> DEFINE To_(R) == R \in RegRec /\ R.state # "unforked"
<1>3. ASSUME Forked(w), NEW b \in BOOLEAN, NEW d \in BOOLEAN
      PROVE  /\ To_([reg[w] EXCEPT !.state = "online"]) /\ To_([reg[w] EXCEPT !.state = "listening"])
             /\ To_([reg[w] EXCEPT !.exitedAfterDisconnect = TRUE])
             /\ To_([reg[w] EXCEPT !.connected = FALSE])
             /\ To_([reg[w] EXCEPT !.connected = FALSE, !.state = "disconnected", !.listed = b])
             /\ To_([reg[w] EXCEPT !.dead = TRUE])
             /\ To_([reg[w] EXCEPT !.dead = TRUE, !.state = "dead", !.listed = b])
             /\ To_([reg[w] EXCEPT !.exitedAfterDisconnect = TRUE, !.listed = b])
  BY <1>0, <1>3 DEF RegRec, Forked
<1> HIDE DEF To_
<1>4. CASE online(w) \/ listening(w) \/ exitedAfterDisconnect(w) \/ silentDisconnect(w)
  <2>1. Forked(w) /\ proc' = proc
    BY <1>4, SpokenForked DEF online, listening, exitedAfterDisconnect, silentDisconnect, Hears
  <2>2. \E R : To_(R) /\ reg' = [reg EXCEPT ![w] = R]
    BY <1>3, <1>4, <2>1 DEF online, listening, exitedAfterDisconnect, silentDisconnect
  <2> QED BY <1>2, <2>1, <2>2 DEF To_
<1>5. CASE disconnectEvent(w)
  <2>1. Forked(w) /\ proc' = proc
    BY <1>5, SpokenForked DEF disconnectEvent, Hears
  <2>2. reg' = reg \/ \E R : To_(R) /\ reg' = [reg EXCEPT ![w] = R]
    <3> DEFINE b == Listed(w, ~reg[w].dead)
    <3>1. b \in BOOLEAN
      BY <1>0 DEF Listed, RegRec
    <3>2. reg' = reg \/ reg' = [reg EXCEPT ![w] = [@ EXCEPT !.connected = FALSE, !.state = "disconnected", !.listed = b]]
      BY <1>5 DEF disconnectEvent
    <3> HIDE DEF b
    <3> QED BY <1>3, <2>1, <3>1, <3>2
  <2> QED BY <1>2, <2>1, <2>2 DEF To_
<1>6. CASE exitEvent(w)
  <2>1. Forked(w) /\ proc' = proc
    BY <1>6 DEF exitEvent, Forked
  <2>2. \E R : To_(R) /\ reg' = [reg EXCEPT ![w] = R]
    <3> DEFINE b == Listed(w, reg[w].connected)
    <3>1. b \in BOOLEAN
      BY <1>0 DEF Listed, RegRec
    <3>2. \/ reg' = [reg EXCEPT ![w] = [@ EXCEPT !.dead = TRUE]]
          \/ reg' = [reg EXCEPT ![w] = [@ EXCEPT !.dead = TRUE, !.state = "dead", !.listed = b]]
      BY <1>6 DEF exitEvent
    <3> HIDE DEF b
    <3> QED BY <1>3, <2>1, <3>1, <3>2
  <2> QED BY <1>2, <2>1, <2>2 DEF To_
<1>7. CASE primaryDisconnect(w)
  <2>1. Forked(w) /\ proc' = proc
    <3>1. reg[w].connected
      BY <1>7 DEF primaryDisconnect
    <3> QED BY <1>7, <3>1 DEF primaryDisconnect, Tracked, Wired
  <2>2. \E R : To_(R) /\ reg' = [reg EXCEPT ![w] = R]
    <3> DEFINE b == RemoveFaults(w)
    <3>1. b \in BOOLEAN
      BY DEF RemoveFaults
    <3>2. reg' = [reg EXCEPT ![w] = [@ EXCEPT !.exitedAfterDisconnect = TRUE, !.listed = b]]
      BY <1>7 DEF primaryDisconnect
    <3> HIDE DEF b
    <3> QED BY <1>3, <2>1, <3>1, <3>2
  <2> QED BY <1>2, <2>1, <2>2 DEF To_
<1>8. CASE queryServerIgnored(w) \/ queryServer(w) \/ close(w) \/ ackNewconn(w)
  <2>1. UNCHANGED <<reg, proc>>
    BY <1>8 DEF queryServerIgnored, queryServer, close, ackNewconn
  <2> QED BY <2>1 DEF Stays, Forked
<1> QED BY <1>1, <1>4, <1>5, <1>6, <1>7, <1>8 DEF Hear

LEMMA NextStays ==
  ASSUME Tracked, Next
  PROVE  \A v \in Workers : Stays(v)
<1>1. ASSUME NEW h \in DOMAIN hs, Bind(h) PROVE \A v \in Workers : Stays(v)
  <2>1. UNCHANGED <<reg, proc>>
    BY <1>1 DEF Bind, bound, bindFailed
  <2> QED BY <2>1 DEF Stays, Forked
<1>2. ASSUME NEW c \in Conns, connection(c) PROVE \A v \in Workers : Stays(v)
  <2>1. UNCHANGED <<reg, proc>>
    BY <1>2 DEF connection
  <2> QED BY <2>1 DEF Stays, Forked
<1> QED BY <1>1, <1>2, WorkerStays, PrimaryStays DEF Next

-----------------------------------------------------------------------------
(* The workers of a handle were forked: one joins by a message. *)
LEMMA ForkedFrom ==
  ASSUME Tracked, AllForked, Next, NEW F \in SUBSET Workers, \A v \in F : Forked(v),
         \A h \in DOMAIN hs' : \A v \in hs'[h].all : v \in F \/ (h \in DOMAIN hs /\ v \in hs[h].all)
  PROVE  AllForked'
<1>1. \A h \in DOMAIN hs : hs[h].all \subseteq Workers
  BY BaseFields, HandleFields DEF Tracked, Fit
<1>2. \A v \in Workers : Forked(v) => Forked(v)'
  BY NextStays DEF Stays
<1> QED BY <1>1, <1>2 DEF AllForked

(* The handles keep their workers, or lose some. *)
LEMMA ForkedLess ==
  ASSUME Tracked, AllForked, Next, DOMAIN hs' = DOMAIN hs, \A h \in DOMAIN hs : hs'[h].all \subseteq hs[h].all
  PROVE  AllForked'
<1> DEFINE F == {}
<1>2. F \in SUBSET Workers /\ \A v \in F : Forked(v)
  OBVIOUS
<1>3. \A h \in DOMAIN hs' : \A v \in hs'[h].all : v \in F \/ (h \in DOMAIN hs /\ v \in hs[h].all)
  OBVIOUS
<1> HIDE DEF F
<1> QED BY <1>2, <1>3, ForkedFrom

(* What a worker that leaves the handle takes with it: the last one closes the *)
(* connections that wait.                                                      *)
LEMMA RemoveTakes ==
  ASSUME Base, NEW w \in Workers, RemoveOrFault(w)
  PROVE  /\ DOMAIN hs' = DOMAIN hs /\ open' \subseteq open
         /\ \A h \in DOMAIN hs : hs'[h].all \subseteq hs[h].all
         /\ \A h \in DOMAIN hs : \/ hs'[h].conns = hs[h].conns
                                 \/ hs'[h].conns = <<>> /\ \A c \in open' : c \notin ToSet(hs[h].conns)
<1> USE BaseFields
<1>1. CASE ~RemoveFaults(w) /\ table # None
  <2> DEFINE G == remove(hs[table], w)
  <2>1. table \in DOMAIN hs /\ Fit(hs[table])
    BY <1>1
  <2>2. hs' = [hs EXCEPT ![table] = G] /\ open' = open \ RemoveCloses(hs[table], w)
    BY <1>1 DEF RemoveOrFault, RemoveHandles
  <2>3. hs[table].st = "binding" => ~RemoveLast(hs[table], w)
    BY <1>1 DEF RemoveFaults
  <2>4. /\ G.all = hs[table].all \ {w}
        /\ G.conns = IF RemoveLast(hs[table], w) THEN <<>> ELSE hs[table].conns
    BY <2>1, <2>3, removeFit
  <2> HIDE DEF G
  <2>5. DOMAIN hs' = DOMAIN hs /\ hs'[table] = G /\ \A h \in DOMAIN hs : h # table => hs'[h] = hs[h]
    BY <2>1, <2>2
  <2>6. RemoveLast(hs[table], w) => \A c \in open' : c \notin ToSet(hs[table].conns)
    BY <2>2 DEF RemoveCloses
  <2> QED BY <2>2, <2>4, <2>5, <2>6
<1>2. CASE ~(~RemoveFaults(w) /\ table # None)
  <2>1. hs' = hs /\ open' = open
    BY <1>2 DEF RemoveOrFault, RemoveHandles
  <2> QED BY <2>1
<1> QED BY <1>1, <1>2

LEMMA queryForked ==
  ASSUME Tracked, AllForked, Next, NEW w \in Workers, queryServer(w)
  PROVE  AllForked'
<1>1. Forked(w)
  BY SpokenForked DEF queryServer, Hears
<1>2. PICK G : JoinBound(w, G) \/ JoinBinding(w, G) \/ Opens(w, G) \/ OpenFails(w, G) \/ OpenBinds(w, G)
  BY queryCases
<1>3. Base /\ BindingWaits
  BY DEF Tracked
<1>4. CASE Opens(w, G) \/ OpenFails(w, G) \/ OpenBinds(w, G)
  <2>1. Fit(G) /\ G.all = {w}
    BY <1>3, <1>4, OpensIs
  <2>2. hs' = Append(hs, G)
    BY <1>4 DEF Opens, OpenFails, OpenBinds
  <2>3. /\ DOMAIN hs' = DOMAIN hs \cup {Len(hs) + 1} /\ hs'[Len(hs) + 1] = G
        /\ \A k \in DOMAIN hs : hs'[k] = hs[k]
    BY <1>3, <2>1, <2>2, HandleAppended
  <2>4. \A h \in DOMAIN hs' : \A v \in hs'[h].all : v \in {w} \/ (h \in DOMAIN hs /\ v \in hs[h].all)
    BY <2>1, <2>3
  <2> DEFINE F == {w}
  <2>5. F \in SUBSET Workers /\ \A v \in F : Forked(v)
    BY <1>1
  <2> HIDE DEF F
  <2>6. \A h \in DOMAIN hs' : \A v \in hs'[h].all : v \in F \/ (h \in DOMAIN hs /\ v \in hs[h].all)
    BY <2>4 DEF F
  <2> QED BY <2>5, <2>6, ForkedFrom
<1>5. CASE JoinBound(w, G) \/ JoinBinding(w, G)
  <2>1. table \in DOMAIN hs /\ Fit(G) /\ G.all = hs[table].all \cup {w} /\ (hs[table].st = "binding" \/ G.st = "bound")
    <3>1. CASE JoinBound(w, G)
      BY <1>3, <3>1, JoinBoundIs
    <3>2. CASE JoinBinding(w, G)
      <4>1. hs[table].st = "binding"
        BY <1>3, <3>2, BaseFields DEF JoinBinding, Cached
      <4> QED BY <1>3, <3>2, <4>1, JoinBindingIs
    <3> QED BY <1>5, <3>1, <3>2
  <2>2. hs' = [hs EXCEPT ![table] = G]
    BY <1>5 DEF JoinBound, JoinBinding
  <2>3. DOMAIN hs' = DOMAIN hs /\ hs'[table] = G /\ \A k \in DOMAIN hs : k # table => hs'[k] = hs[k]
    BY <2>1, <2>2
  <2> DEFINE F == {w}
  <2>4. F \in SUBSET Workers /\ \A v \in F : Forked(v)
    BY <1>1
  <2>5. \A h \in DOMAIN hs' : \A v \in hs'[h].all : v \in F \/ (h \in DOMAIN hs /\ v \in hs[h].all)
    BY <2>1, <2>3
  <2> HIDE DEF F
  <2> QED BY <2>4, <2>5, ForkedFrom
<1> QED BY <1>2, <1>4, <1>5

LEMMA NextForked ==
  ASSUME Tracked, AllForked, Next
  PROVE  AllForked'
<1>0. Base
  BY DEF Tracked
<1>1. CASE hs' = hs
  BY <1>1, ForkedLess
<1>2. ASSUME NEW w \in Workers, close(w) \/ disconnectEvent(w) \/ exitEvent(w) \/ primaryDisconnect(w), hs' # hs
      PROVE  AllForked'
  <2>1. RemoveOrFault(w)
    BY <1>2 DEF close, disconnectEvent, exitEvent, primaryDisconnect
  <2> QED BY <1>0, <2>1, RemoveTakes, ForkedLess
<1>3. ASSUME NEW w \in Workers, ackNewconn(w) PROVE AllForked'
  <2> DEFINE m == Head(up[w])
             h == m.h
             D == AckedTo(m)
             G == handoff(D, w)
  <2>1. h \in DOMAIN hs /\ hs[h].st # "binding" /\ Fit(D) /\ Kept(D, hs[h]) /\ hs' = [hs EXCEPT ![h] = G]
    BY <1>0, <1>3, AckIs
  <2> HIDE DEF m, h, D
  <2>2. Kept(G, D)
    <3>1. D.st # "binding"
      BY <2>1 DEF Kept
    <3> QED BY <2>1, <3>1, handoffFit
  <2> HIDE DEF G
  <2>3. DOMAIN hs' = DOMAIN hs /\ hs'[h] = G /\ \A k \in DOMAIN hs : k # h => hs'[k] = hs[k]
    BY <2>1
  <2>4. G.all = hs[h].all
    BY <2>1, <2>2 DEF Kept
  <2> QED BY <2>3, <2>4, ForkedLess
<1>4. ASSUME NEW c \in Conns, connection(c) PROVE AllForked'
  <2> DEFINE H == hs[table]
             G == distribute(H, c)
  <2>1. table \in DOMAIN hs /\ Fit(H) /\ H.st = "bound" /\ hs' = [hs EXCEPT ![table] = G]
    BY <1>0, <1>4, BaseFields DEF connection
  <2> HIDE DEF H
  <2>2. Kept(G, H)
    BY <2>1, distributeFit
  <2> HIDE DEF G
  <2>3. DOMAIN hs' = DOMAIN hs /\ hs'[table] = G /\ \A k \in DOMAIN hs : k # table => hs'[k] = hs[k]
    BY <2>1
  <2>4. G.all = hs[table].all
    BY <2>2 DEF Kept, H
  <2> QED BY <2>3, <2>4, ForkedLess
<1>5. ASSUME NEW h \in DOMAIN hs, Bind(h) PROVE AllForked'
  <2>1. PICK G : hs' = [hs EXCEPT ![h] = G] /\ G.all = hs[h].all
    <3>1. CASE bound(h)
      <4>1. hs' = [hs EXCEPT ![h] = BoundTo(h)] /\ hs[h].st = "binding"
        BY <3>1 DEF bound, BoundTo
      <4> QED BY <1>0, <4>1, BoundIs
    <3>2. CASE bindFailed(h)
      BY <1>0, <3>2, FailedIs
    <3> QED BY <1>5, <3>1, <3>2 DEF Bind
  <2>2. DOMAIN hs' = DOMAIN hs /\ hs'[h] = G /\ \A k \in DOMAIN hs : k # h => hs'[k] = hs[k]
    BY <1>0, <2>1, BaseFields
  <2> QED BY <2>1, <2>2, ForkedLess
<1>6. ASSUME NEW w \in Workers,
             \/ fork(w) \/ online(w) \/ listening(w) \/ exitedAfterDisconnect(w) \/ queryServerIgnored(w)
             \/ silentDisconnect(w)
      PROVE  hs' = hs
  BY <1>6 DEF fork, online, listening, exitedAfterDisconnect, queryServerIgnored, silentDisconnect
<1>7. ASSUME NEW w \in Workers,
             \/ Get(w) \/ listen(w) \/ closeServer(w) \/ workerDisconnect(w) \/ workerDestroy(w) \/ crash(w)
             \/ \E c \in Conns : endConn(w, c)
      PROVE  hs' = hs
  BY <1>7 DEF Get, listen, closeServer, workerDisconnect, workerDestroy, crash, endConn, reply, onconnection,
              disconnectMessage, ackExited, waitingDone, orphaned, exit, primary
<1> QED BY <1>1, <1>2, <1>3, <1>4, <1>5, <1>6, <1>7, queryForked DEF Next, Hear

-----------------------------------------------------------------------------
(* Messages that carry no connection. *)
Plain(ms) == \A i \in 1 .. Len(ms) : ms[i].c = None

LEMMA PlainIs ==
  /\ Plain(<<>>)
  /\ \A act : Plain(<<Msg(act)>>)
  /\ \A act, h, ok : Plain(<<ConnMsg(act, None, h, ok)>>)
BY DEF Plain, Msg, ConnMsg

LEMMA PlainLacks ==
  ASSUME NEW c \in Conns, NEW ms, Plain(ms)
  PROVE  ~Has(ms, Of(c)) /\ ~Has(ms, Back(c))
<1>1. c # None
  BY ClusterAssumption
<1> QED BY <1>1 DEF Plain, Has, Of, Back

LEMMA PlainCat ==
  ASSUME NEW S, NEW q \in Seq(S), NEW p \in Seq(S), Plain(q), Plain(p)
  PROVE  Plain(q \o p)
<1>1. /\ Len(q \o p) = Len(q) + Len(p) /\ Len(q) \in Nat /\ Len(p) \in Nat
      /\ \A i \in 1 .. Len(q) + Len(p) : (q \o p)[i] = IF i <= Len(q) THEN q[i] ELSE p[i - Len(q)]
  OBVIOUS
<1> DEFINE y == q \o p
<1> HIDE DEF y
<1>2. ASSUME NEW i \in 1 .. Len(y) PROVE y[i].c = None
  <2>1. CASE i <= Len(q)
    BY <1>1, <2>1 DEF y, Plain
  <2>2. CASE ~(i <= Len(q))
    <3>1. i - Len(q) \in 1 .. Len(p) /\ y[i] = p[i - Len(q)]
      BY <1>1, <2>2 DEF y
    <3> QED BY <3>1 DEF Plain
  <2> QED BY <2>1, <2>2
<1> QED BY <1>2 DEF Plain, y

LEMMA PlainHead ==
  ASSUME Tracked, NEW w \in Workers
  PROVE  /\ up[w] # <<>> /\ Head(up[w]).act # "ackNewconn" => Head(up[w]).c = None
         /\ down[w] # <<>> /\ Head(down[w]).act # "newconn" => Head(down[w]).c = None
<1>1. AllUp(up[w], hs) /\ AllDown(down[w], hs)
  BY DEF Tracked, Base, UpsOK, DownsOK
<1>2. (up[w] # <<>> => GoodUp(Head(up[w]), hs)) /\ (down[w] # <<>> => GoodDown(Head(down[w]), hs))
  BY <1>1, TailGood
<1> QED BY <1>2 DEF GoodUp, GoodDown, Carries

(* The channels of a step that says nothing of c. *)
LEMMA UpStill ==
  ASSUME NEW c, up' = up
  PROVE  QuietUp(c)
BY SameIs DEF QuietUp
LEMMA DownStill ==
  ASSUME NEW c, down' = down
  PROVE  QuietDown(c)
BY SameIs DEF QuietDown
LEMMA HandlesStill ==
  ASSUME NEW c, hs' = hs
  PROVE  QuietHandles(c)
BY SameIs DEF QuietHandles

LEMMA UpPlain ==
  ASSUME Tracked, NEW c \in Conns, NEW w \in Workers, NEW ms \in Seq(UpMsg), Plain(ms), Tell(w, ms)
  PROVE  QuietUp(c)
<1>1. ~Has(ms, Of(c)) /\ ~Has(ms, Back(c)) /\ up[w] \in Seq(UpMsg)
  BY PlainLacks, TrackedSeqs
<1>2. up'[w] = up[w] \o ms /\ \A v \in Workers : v # w => up'[v] = up[v]
  BY TellSame
<1>3. Same(up[w], up'[w], Of(c)) /\ Same(up[w], up'[w], Back(c))
  BY <1>1, <1>2, SameTold
<1> QED BY <1>2, <1>3, SameIs DEF QuietUp

LEMMA UpSkips ==
  ASSUME Tracked, NEW c \in Conns, NEW w \in Workers, up[w] # <<>>, Head(up[w]).c # c, up' = Take(up, w)
  PROVE  QuietUp(c)
<1>1. Head(up[w]) \notin Of(c) /\ Head(up[w]) \notin Back(c) /\ up[w] \in Seq(UpMsg)
  BY TrackedSeqs DEF Of, Back
<1>2. up'[w] = Tail(up[w]) /\ \A v \in Workers : v # w => up'[v] = up[v]
  BY TakeSame
<1>3. Same(up[w], up'[w], Of(c)) /\ Same(up[w], up'[w], Back(c))
  BY <1>1, <1>2, SameTaken
<1> QED BY <1>2, <1>3, SameIs DEF QuietUp

LEMMA DownSkips ==
  ASSUME Tracked, NEW c \in Conns, NEW w \in Workers, down[w] # <<>>, Head(down[w]).c # c, down' = Take(down, w)
  PROVE  QuietDown(c)
<1>1. Head(down[w]) \notin Of(c) /\ down[w] \in Seq(DownMsg)
  BY TrackedSeqs DEF Of
<1>2. down'[w] = Tail(down[w]) /\ \A v \in Workers : v # w => down'[v] = down[v]
  BY TakeSame
<1>3. Same(down[w], down'[w], Of(c))
  BY <1>1, <1>2, SameTaken
<1> QED BY <1>2, <1>3, SameIs DEF QuietDown

(* The messages that the primary sends: who is handed c. *)
Handed(S, c) == {w \in Workers : \E m \in ToSet(S[w]) : m.c = c}

LEMMA SentIs ==
  ASSUME Tracked, NEW S, SendAll(S), NEW c \in Conns
  PROVE  /\ Handed(S, c) = {} => sent'[c] = sent[c]
         /\ \A w : Handed(S, c) = {w} => sent'[c] = w
<1>1. sent' = [x \in Conns |-> IF Handed(S, x) = {} THEN sent[x] ELSE CHOOSE w \in Handed(S, x) : TRUE]
  BY DEF SendAll, Handed
<1>2. sent'[c] = IF Handed(S, c) = {} THEN sent[c] ELSE CHOOSE w \in Handed(S, c) : TRUE
  BY <1>1
<1> HIDE DEF Handed
<1>3. \A w : Handed(S, c) = {w} => (CHOOSE x \in Handed(S, c) : TRUE) = w
  OBVIOUS
<1> QED BY <1>2, <1>3

LEMMA HandedIs ==
  ASSUME NEW S, NEW c, NEW w \in Workers, S[w] \in Seq(DownMsg)
  PROVE  w \in Handed(S, c) <=> Has(S[w], Of(c))
<1>1. \A i \in 1 .. Len(S[w]) : S[w][i] \in DownMsg
  OBVIOUS
<1>2. w \in Handed(S, c) <=> \E i \in 1 .. Len(S[w]) : S[w][i].c = c
  BY DEF Handed, ToSet
<1> QED BY <1>1, <1>2 DEF Has, Of

LEMMA SentRest ==
  ASSUME Tracked, NEW S, SendAll(S), NEW c \in Conns, \A v \in Workers : S[v] \in Seq(DownMsg) /\ ~Has(S[v], Of(c))
  PROVE  QuietDown(c) /\ sent'[c] = sent[c]
<1>1. Handed(S, c) = {}
  <2>1. \A v \in Workers : v \notin Handed(S, c)
    BY HandedIs
  <2> QED BY <2>1 DEF Handed
<1>2. ASSUME NEW v \in Workers PROVE Same(down[v], down'[v], Of(c))
  <2>1. down'[v] = down[v] \/ down'[v] = down[v] \o S[v]
    BY SentTo
  <2>2. down[v] \in Seq(DownMsg) /\ S[v] \in Seq(DownMsg) /\ ~Has(S[v], Of(c))
    BY TrackedSeqs
  <2> QED BY <2>1, <2>2, SameIs, SameTold
<1> QED BY <1>1, <1>2, SentIs DEF QuietDown

LEMMA SentPlain ==
  ASSUME Tracked, NEW S, SendAll(S), NEW c \in Conns, \A v \in Workers : S[v] \in Seq(DownMsg) /\ Plain(S[v])
  PROVE  QuietDown(c) /\ sent'[c] = sent[c]
BY PlainLacks, SentRest

-----------------------------------------------------------------------------
(* The actions that move no connection. *)
LEMMA LeftStays ==
  ASSUME Tracked, Next, NEW c, sent'[c] = sent[c], LeftWith(c)
  PROVE  LeftWith(c)'
BY NextStays DEF LeftWith, Stays

LEMMA ToPlain ==
  ASSUME NEW w \in Workers, NEW ms \in Seq(DownMsg), Plain(ms), NEW S, S = To(w, ms)
  PROVE  \A v \in Workers : S[v] \in Seq(DownMsg) /\ Plain(S[v])
<1>1. Plain(<<>>) /\ <<>> \in Seq(DownMsg)
  BY PlainIs
<1> QED BY <1>1, ToIs

TellsPlain(w) == up' = up \/ \E ms \in Seq(UpMsg) : Plain(ms) /\ Tell(w, ms)

LEMMA TellsMsg ==
  ASSUME NEW w, NEW act \in UpActs, Tell(w, <<Msg(act)>>)
  PROVE  TellsPlain(w)
<1>1. <<Msg(act)>> \in Seq(UpMsg) /\ Plain(<<Msg(act)>>)
  BY MsgUp, PlainIs
<1> QED BY <1>1 DEF TellsPlain

LEMMA TellsNone ==
  ASSUME NEW w, Tell(w, <<>>)
  PROVE  TellsPlain(w)
<1>1. <<>> \in Seq(UpMsg) /\ Plain(<<>>)
  BY PlainIs
<1> QED BY <1>1 DEF TellsPlain

LEMMA WorkerRests ==
  ASSUME Tracked, Next, NEW w \in Workers, UNCHANGED <<primary, served, sent, seen>>, TellsPlain(w),
         down' = down \/ (down[w] # <<>> /\ Head(down[w]).act # "newconn" /\ down' = Take(down, w)),
         NEW c \in Conns, Sound(c)
  PROVE  Sound(c)'
<1>1. QuietUp(c)
  BY UpStill, UpPlain DEF TellsPlain
<1>2. QuietDown(c)
  <2>1. CASE down' = down
    BY <2>1, DownStill
  <2>2. CASE down' # down
    <3>1. Head(down[w]).c # c
      BY <2>2, PlainHead, ClusterAssumption
    <3> QED BY <2>2, <3>1, DownSkips
  <2> QED BY <2>1, <2>2
<1>3. QuietHandles(c) /\ open' = open
  BY HandlesStill DEF primary
<1> QED BY <1>1, <1>2, <1>3, QuietSound, LeftStays

LEMMA LeavesPlain ==
  ASSUME Tracked, NEW w \in Workers, NEW who \in {"primary", "self"},
         NEW state \in {"none", "online", "listening", "disconnecting", "destroying"},
         _disconnect(w, who, state)
  PROVE  TellsPlain(w)
<1>1. proc[w] \in ProcRec
  BY ProcFields DEF Tracked
<1>2. PICK q, ms :
           /\ ms = <<>> \/ (ms = <<Msg("EOF")>> /\ ~q.connected) \/ ms = <<Msg("exitedAfterDisconnect")>>
           /\ q.connected => proc[w].connected
           /\ Set(w, q)
           /\ IF proc[w].server = "open" THEN q.server = "none" /\ Tell(w, <<Msg("close")>> \o ms)
              ELSE q.server = proc[w].server /\ ms # <<>> /\ Tell(w, <<>> \o ms)
  BY <1>1, LeaveCases
<1>3. ms \in Seq(UpMsg) /\ Plain(ms)
  BY <1>2, KindUp, NoneSaid, PlainIs
<1> DEFINE C == <<Msg("close")>>
           e == <<>>
<1>4. C \in Seq(UpMsg) /\ Plain(C) /\ e \in Seq(UpMsg) /\ Plain(e)
  BY MsgUp, PlainIs DEF UpActs
<1>5. Tell(w, C \o ms) \/ Tell(w, e \o ms)
  BY <1>2
<1> HIDE DEF C, e
<1>6. C \o ms \in Seq(UpMsg) /\ Plain(C \o ms) /\ e \o ms \in Seq(UpMsg) /\ Plain(e \o ms)
  BY <1>3, <1>4, PlainCat
<1> QED BY <1>5, <1>6 DEF TellsPlain

LEMMA workerSound ==
  ASSUME Tracked, Next, NEW w \in Workers,
         \/ reply(w) \/ disconnectMessage(w) \/ ackExited(w) \/ waitingDone(w) \/ orphaned(w) \/ exit(w)
         \/ listen(w) \/ closeServer(w) \/ workerDisconnect(w) \/ workerDestroy(w) \/ crash(w)
         \/ \E c \in Conns : endConn(w, c),
         NEW c \in Conns, Sound(c)
  PROVE  Sound(c)'
<1>0. proc[w].state \in {"none", "online", "listening", "disconnecting", "destroying"}
  BY ProcFields DEF Tracked
<1>1. CASE reply(w)
  <2>1. TellsPlain(w)
    <3>1. up' = up \/ Tell(w, <<Msg("listening")>>)
      BY <1>1 DEF reply
    <3> QED BY <3>1, TellsMsg DEF UpActs, TellsPlain
  <2> QED BY <1>1, <2>1, WorkerRests DEF reply, Gets
<1>2. CASE disconnectMessage(w)
  <2>1. TellsPlain(w)
    BY <1>0, <1>2, LeavesPlain DEF disconnectMessage
  <2> QED BY <1>2, <2>1, WorkerRests DEF disconnectMessage, Gets
<1>3. CASE ackExited(w)
  <2>1. TellsPlain(w)
    BY <1>3, TellsMsg DEF ackExited, UpActs
  <2> QED BY <1>3, <2>1, WorkerRests DEF ackExited, Gets
<1>4. CASE waitingDone(w) \/ listen(w) \/ closeServer(w) \/ workerDestroy(w)
  <2>1. TellsPlain(w)
    <3>1. \/ Tell(w, <<Msg("EOF")>>) \/ Tell(w, <<Msg("exitedAfterDisconnect")>>)
          \/ Tell(w, <<Msg("queryServer")>>) \/ Tell(w, <<Msg("close")>>)
      BY <1>4 DEF waitingDone, listen, closeServer, workerDestroy
    <3> QED BY <3>1, TellsMsg DEF UpActs
  <2>2. UNCHANGED <<primary, served, sent, seen, down>>
    BY <1>4 DEF waitingDone, listen, closeServer, workerDestroy
  <2> QED BY <2>1, <2>2, WorkerRests
<1>5. CASE workerDisconnect(w)
  <2>1. TellsPlain(w)
    BY <1>5, LeavesPlain DEF workerDisconnect
  <2> QED BY <1>5, <2>1, WorkerRests DEF workerDisconnect
<1>6. CASE crash(w)
  <2>1. TellsPlain(w)
    <3>1. Tell(w, <<Msg("EOF")>>) \/ Tell(w, <<>>)
      BY <1>6 DEF crash
    <3> QED BY <3>1, TellsMsg, TellsNone DEF UpActs
  <2> QED BY <1>6, <2>1, WorkerRests DEF crash
<1>7. CASE orphaned(w) \/ exit(w) \/ \E x \in Conns : endConn(w, x)
  <2>1. TellsPlain(w) /\ UNCHANGED <<primary, served, sent, seen, down>>
    BY <1>7 DEF orphaned, exit, endConn, TellsPlain
  <2> QED BY <2>1, WorkerRests
<1> QED BY <1>1, <1>2, <1>3, <1>4, <1>5, <1>6, <1>7

(* The primary hears a message without a connection. *)
LEMMA heardSound ==
  ASSUME Tracked, Next, NEW w \in Workers,
         online(w) \/ listening(w) \/ queryServerIgnored(w) \/ silentDisconnect(w) \/ exitedAfterDisconnect(w),
         NEW c \in Conns, Sound(c)
  PROVE  Sound(c)'
<1>1. up[w] # <<>> /\ Head(up[w]).act # "ackNewconn" /\ up' = Take(up, w) /\ UNCHANGED <<hs, open, served, seen>>
  BY DEF online, listening, queryServerIgnored, silentDisconnect, exitedAfterDisconnect, Hears
<1>2. QuietUp(c)
  <2>1. Head(up[w]).c # c
    BY <1>1, PlainHead, ClusterAssumption
  <2> QED BY <1>1, <2>1, UpSkips
<1>3. QuietHandles(c)
  BY <1>1, HandlesStill
<1>4. QuietDown(c) /\ sent'[c] = sent[c]
  <2>1. CASE exitedAfterDisconnect(w)
    <3> DEFINE ms == <<Msg("ackExited")>>
               S == To(w, ms)
    <3>1. SendAll(S)
      BY <2>1 DEF exitedAfterDisconnect
    <3>2. ms \in Seq(DownMsg) /\ Plain(ms) /\ S = To(w, ms)
      <4>1. Msg("ackExited") \in DownMsg
        BY DEF Msg, DownMsg, DownActs
      <4> QED BY <4>1, PlainIs
    <3> HIDE DEF ms, S
    <3>3. \A v \in Workers : S[v] \in Seq(DownMsg) /\ Plain(S[v])
      BY <3>2, ToPlain
    <3> QED BY <3>1, <3>3, SentPlain
  <2>2. CASE ~exitedAfterDisconnect(w)
    <3>1. UNCHANGED <<down, sent>>
      BY <2>2 DEF online, listening, queryServerIgnored, silentDisconnect
    <3> QED BY <3>1, DownStill
  <2> QED BY <2>1, <2>2
<1> QED BY <1>1, <1>2, <1>3, <1>4, QuietSound, LeftStays

LEMMA forkSound ==
  ASSUME Tracked, Next, NEW w \in Workers, fork(w), NEW c \in Conns, Sound(c)
  PROVE  Sound(c)'
<1>1. UNCHANGED <<hs, down, open, served, sent, seen>> /\ Tell(w, <<Msg("online")>>)
  BY DEF fork
<1>2. QuietUp(c)
  <2>1. <<Msg("online")>> \in Seq(UpMsg) /\ Plain(<<Msg("online")>>)
    BY MsgUp, PlainIs DEF UpActs
  <2> QED BY <1>1, <2>1, UpPlain
<1>3. QuietDown(c) /\ QuietHandles(c)
  BY <1>1, DownStill, HandlesStill
<1> QED BY <1>1, <1>2, <1>3, QuietSound, LeftStays

(* A worker leaves the handle: the connections of the last one are closed. *)
LEMMA LastCloses ==
  ASSUME Tracked, Next, NEW w \in Workers, RemoveOrFault(w), NEW c \in Conns, Sound(c), QuietUp(c), QuietDown(c),
         UNCHANGED <<served, seen>>, sent'[c] = sent[c]
  PROVE  Sound(c)'
<1>1. /\ DOMAIN hs' = DOMAIN hs /\ open' \subseteq open
      /\ \A h \in DOMAIN hs : \/ hs'[h].conns = hs[h].conns
                              \/ hs'[h].conns = <<>> /\ \A x \in open' : x \notin ToSet(hs[h].conns)
  BY RemoveTakes DEF Tracked
<1>2. \A q : q = <<>> => ~Has(q, {c}) /\ Once(q, {c})
  BY HasOne
<1>3. ASSUME NEW h \in DOMAIN hs
      PROVE  /\ Has(hs'[h].conns, {c}) => Has(hs[h].conns, {c})
             /\ c \in open' /\ Has(hs[h].conns, {c}) => Has(hs'[h].conns, {c})
             /\ Once(hs'[h].conns, {c})
  <2>1. Once(hs[h].conns, {c}) /\ hs[h].conns \in Seq(Conns)
    BY BaseFields, HandleFields DEF Sound, Tidy, Tracked, Fit
  <2>2. c \notin ToSet(hs[h].conns) => ~Has(hs[h].conns, {c})
    BY <2>1, InIs DEF In, Has
  <2> QED BY <1>1, <1>2, <2>1, <2>2
<1>4. (\A h : Queues(c, h)' => Queues(c, h)) /\ (c \in open' => \A h : Queues(c, h) => Queues(c, h)')
  BY <1>1, <1>3 DEF Queues
<1>5. \A v : (Goes(c, v)' <=> Goes(c, v)) /\ (Returns(c, v)' <=> Returns(c, v)) /\ (SentBack(c, v)' <=> SentBack(c, v))
  BY DEF Goes, Returns, SentBack, QuietUp, QuietDown, Same
<1>6. Tidy(c)'
  BY <1>1, <1>3 DEF QuietUp, QuietDown, Same, Sound, Tidy
<1>7. c \in open' => (Somewhere(c) => Somewhere(c)')
  BY <1>4, <1>5 DEF Somewhere
<1>8. Rests(c)
  BY <1>1, <1>4, <1>5, <1>6, <1>7, LeftStays DEF Rests
<1> QED BY <1>8, RestsSound

LEMMA removeSound ==
  ASSUME Tracked, Next, NEW w \in Workers, close(w) \/ disconnectEvent(w) \/ exitEvent(w) \/ primaryDisconnect(w),
         NEW c \in Conns, Sound(c)
  PROVE  Sound(c)'
<1>0. UNCHANGED <<served, seen>>
  BY DEF close, disconnectEvent, exitEvent, primaryDisconnect
<1>1. CASE close(w) \/ disconnectEvent(w)
  <2>1. RemoveOrFault(w) /\ up[w] # <<>> /\ Head(up[w]).act # "ackNewconn" /\ up' = Take(up, w) /\ UNCHANGED <<down, sent>>
    BY <1>1 DEF close, disconnectEvent, Hears
  <2>2. Head(up[w]).c # c
    BY <2>1, PlainHead, ClusterAssumption
  <2>3. QuietUp(c) /\ QuietDown(c)
    BY <2>1, <2>2, UpSkips, DownStill
  <2> QED BY <1>0, <2>1, <2>3, LastCloses
<1>2. CASE exitEvent(w)
  <2>1. UNCHANGED <<up, down, sent>> /\ (RemoveOrFault(w) \/ UNCHANGED <<hs, open>>)
    BY <1>2 DEF exitEvent
  <2>2. QuietUp(c) /\ QuietDown(c)
    BY <2>1, UpStill, DownStill
  <2>3. CASE RemoveOrFault(w)
    BY <1>0, <2>1, <2>2, <2>3, LastCloses
  <2>4. CASE UNCHANGED <<hs, open>>
    BY <1>0, <2>1, <2>2, <2>4, HandlesStill, QuietSound, LeftStays
  <2> QED BY <2>1, <2>3, <2>4
<1>3. CASE primaryDisconnect(w)
  <2> DEFINE ms == <<Msg("disconnect")>>
             S == To(w, ms)
  <2>1. SendAll(S) /\ RemoveOrFault(w) /\ up' = up
    BY <1>3 DEF primaryDisconnect
  <2>2. ms \in Seq(DownMsg) /\ Plain(ms) /\ S = To(w, ms)
    <3>1. Msg("disconnect") \in DownMsg
      BY DEF Msg, DownMsg, DownActs
    <3> QED BY <3>1, PlainIs
  <2> HIDE DEF ms, S
  <2>3. \A v \in Workers : S[v] \in Seq(DownMsg) /\ Plain(S[v])
    BY <2>2, ToPlain
  <2>4. QuietDown(c) /\ sent'[c] = sent[c] /\ QuietUp(c)
    BY <2>1, <2>3, SentPlain, UpStill
  <2> QED BY <1>0, <2>1, <2>4, LastCloses
<1> QED BY <1>1, <1>2, <1>3

-----------------------------------------------------------------------------
(* Where a step may leave a connection. *)
NoQueue(c) == \A h \in DOMAIN hs : ~Has(hs[h].conns, {c})
NoDown(c) == \A w \in Workers : ~Has(down[w], Of(c))
NoUp(c) == \A w \in Workers : ~Has(up[w], Of(c))

LEMMA LacksOnce == \A q, M : ~Has(q, M) => Once(q, M)
BY DEF Has, Once

LEMMA BackOf == \A q, c : ~Has(q, Of(c)) => ~Has(q, Back(c))
BY DEF Has, Of, Back

LEMMA Nowhere ==
  ASSUME NEW c
  PROVE  /\ NoQueue(c) => \A h : ~Queues(c, h)
         /\ NoDown(c) => \A w : ~Goes(c, w)
         /\ NoUp(c) => \A w : ~Returns(c, w) /\ ~SentBack(c, w)
BY BackOf DEF NoQueue, NoDown, NoUp, Queues, Goes, Returns, SentBack

LEMMA NowhereNext ==
  ASSUME NEW c
  PROVE  /\ NoQueue(c)' => (\A h : ~Queues(c, h)') /\ \A h \in DOMAIN hs' : Once(hs'[h].conns, {c})
         /\ NoDown(c)' => (\A w : ~Goes(c, w)') /\ \A w \in Workers : Once(down'[w], Of(c))
         /\ NoUp(c)' => /\ \A w : ~Returns(c, w)' /\ ~SentBack(c, w)'
                        /\ \A w \in Workers : Once(up'[w], Of(c))
BY BackOf, LacksOnce DEF NoQueue, NoDown, NoUp, Queues, Goes, Returns, SentBack

(* Nowhere: it is accepted and closed. *)
LEMMA SettleGone ==
  ASSUME NEW c, NoQueue(c)', NoDown(c)', NoUp(c)', c \notin open', c \in seen', \A v, w \in served'[c] : v = w
  PROVE  Sound(c)'
<1>1. /\ (\A h : ~Queues(c, h)') /\ (\A w : ~Goes(c, w)') /\ (\A w : ~Returns(c, w)' /\ ~SentBack(c, w)')
      /\ Tidy(c)'
  BY NowhereNext DEF Tidy
<1>2. Lone(c)' /\ ~Unaccepted(c)'
  BY <1>1 DEF Lone, Unaccepted
<1> QED BY <1>1, <1>2 DEF Sound

(* In the queue of a handle. *)
LEMMA SettleQueue ==
  ASSUME NEW c, NoDown(c)', NoUp(c)', NEW h \in DOMAIN hs', Has(hs'[h].conns, {c}), Once(hs'[h].conns, {c}),
         \A k \in DOMAIN hs' : k # h => ~Has(hs'[k].conns, {c}), served'[c] = {}, c \in seen'
  PROVE  Sound(c)'
<1>1. /\ (\A w : ~Goes(c, w)') /\ (\A w : ~Returns(c, w)' /\ ~SentBack(c, w)')
      /\ \A w \in Workers : Once(down'[w], Of(c)) /\ Once(up'[w], Of(c))
  BY NowhereNext
<1>2. \A g : Queues(c, g)' <=> g = h
  BY DEF Queues
<1>3. Tidy(c)'
  BY <1>1, LacksOnce DEF Tidy
<1>4. Lone(c)' /\ Somewhere(c)'
  BY <1>1, <1>2 DEF Lone, Somewhere
<1> QED BY <1>3, <1>4 DEF Sound

(* Under way to a worker, unless that one left. *)
LEMMA SettleDown ==
  ASSUME NEW c, NoQueue(c)', NoUp(c)', NEW w \in Workers, Has(down'[w], Of(c)) \/ LeftWith(c)', Once(down'[w], Of(c)),
         \A v \in Workers : v # w => ~Has(down'[v], Of(c)), served'[c] = {}, c \in seen'
  PROVE  Sound(c)'
<1>1. /\ (\A h : ~Queues(c, h)') /\ (\A v : ~Returns(c, v)' /\ ~SentBack(c, v)')
      /\ \A h \in DOMAIN hs' : Once(hs'[h].conns, {c})
      /\ \A v \in Workers : Once(up'[v], Of(c))
  BY NowhereNext
<1>2. (\A v : Goes(c, v)' => v = w) /\ (Has(down'[w], Of(c)) => Goes(c, w)')
  BY DEF Goes
<1>3. Tidy(c)'
  BY <1>1, LacksOnce DEF Tidy
<1>4. Lone(c)' /\ (Somewhere(c)' \/ LeftWith(c)')
  BY <1>1, <1>2 DEF Lone, Somewhere
<1> QED BY <1>3, <1>4 DEF Sound

(* Under way back. *)
LEMMA SettleUp ==
  ASSUME NEW c, NoQueue(c)', NoDown(c)', NEW w \in Workers, Has(up'[w], Of(c)), Once(up'[w], Of(c)),
         \A v \in Workers : v # w => ~Has(up'[v], Of(c)), served'[c] \subseteq {w}, c \in seen',
         Has(up'[w], Back(c)) => served'[c] = {}
  PROVE  Sound(c)'
<1>1. /\ (\A h : ~Queues(c, h)') /\ (\A v : ~Goes(c, v)')
      /\ \A h \in DOMAIN hs' : Once(hs'[h].conns, {c})
      /\ \A v \in Workers : Once(down'[v], Of(c))
  BY NowhereNext
<1>2. (\A v : Returns(c, v)' <=> v = w) /\ (\A v : SentBack(c, v)' => v = w /\ Has(up'[w], Back(c)))
  BY BackOf DEF Returns, SentBack
<1>3. Tidy(c)'
  BY <1>1, LacksOnce DEF Tidy
<1>4. Lone(c)' /\ Somewhere(c)' /\ (Unaccepted(c)' => served'[c] = {})
  BY <1>1, <1>2 DEF Lone, Somewhere, Unaccepted
<1> QED BY <1>3, <1>4 DEF Sound

(* Where it was. *)
LEMMA WasQueued ==
  ASSUME NEW c, Sound(c), NEW h \in DOMAIN hs, Has(hs[h].conns, {c})
  PROVE  /\ NoDown(c) /\ NoUp(c) /\ \A k \in DOMAIN hs : k # h => ~Has(hs[k].conns, {c})
         /\ served[c] = {} /\ c \in seen /\ Once(hs[h].conns, {c})
<1>1. Queues(c, h)
  BY DEF Queues
<1>2. (\A g : Queues(c, g) => g = h) /\ (\A w : ~Goes(c, w) /\ ~Returns(c, w))
  BY <1>1 DEF Sound, Lone
<1>3. NoDown(c) /\ NoUp(c) /\ \A k \in DOMAIN hs : k # h => ~Has(hs[k].conns, {c})
  BY <1>2 DEF NoDown, NoUp, Queues, Goes, Returns
<1> QED BY <1>1, <1>3 DEF Sound, Tidy, Somewhere, Unaccepted

LEMMA WasSent ==
  ASSUME NEW c, Sound(c), NEW w \in Workers, Has(down[w], Of(c))
  PROVE  /\ NoQueue(c) /\ NoUp(c) /\ \A v \in Workers : v # w => ~Has(down[v], Of(c))
         /\ served[c] = {} /\ c \in seen /\ Once(down[w], Of(c))
<1>1. Goes(c, w)
  BY DEF Goes
<1>2. (\A v : Goes(c, v) => v = w) /\ (\A v : ~Returns(c, v)) /\ (\A h : ~Queues(c, h))
  BY <1>1 DEF Sound, Lone
<1>3. NoQueue(c) /\ NoUp(c) /\ \A v \in Workers : v # w => ~Has(down[v], Of(c))
  BY <1>2 DEF NoQueue, NoUp, Queues, Goes, Returns
<1> QED BY <1>1, <1>3 DEF Sound, Tidy, Somewhere, Unaccepted

LEMMA WasReturned ==
  ASSUME NEW c, Sound(c), NEW w \in Workers, Has(up[w], Of(c))
  PROVE  /\ NoQueue(c) /\ NoDown(c) /\ \A v \in Workers : v # w => ~Has(up[v], Of(c))
         /\ Has(up[w], Back(c)) => served[c] = {}
         /\ c \in seen /\ Once(up[w], Of(c)) /\ \A v, x \in served[c] : v = x
<1>1. Returns(c, w)
  BY DEF Returns
<1>2. (\A v : Returns(c, v) => v = w) /\ (\A v : ~Goes(c, v)) /\ (\A h : ~Queues(c, h))
  BY <1>1 DEF Sound, Lone
<1>3. NoQueue(c) /\ NoDown(c) /\ \A v \in Workers : v # w => ~Has(up[v], Of(c))
  BY <1>2 DEF NoQueue, NoDown, Queues, Goes, Returns
<1>4. Has(up[w], Back(c)) => Unaccepted(c)
  BY DEF SentBack, Unaccepted
<1> QED BY <1>1, <1>3, <1>4 DEF Sound, Tidy, Somewhere

LEMMA WasUnseen ==
  ASSUME NEW c, Sound(c), c \notin seen
  PROVE  NoQueue(c) /\ NoDown(c) /\ NoUp(c) /\ served[c] = {}
<1>1. ~Somewhere(c) /\ served[c] = {}
  BY DEF Sound
<1> QED BY <1>1 DEF Somewhere, NoQueue, NoDown, NoUp, Queues, Goes, Returns

-----------------------------------------------------------------------------
(* Every handle is of the kind that the policy asks for; a shared one accepts  *)
(* no connection in the primary.                                               *)
Kinds == (\A h \in DOMAIN hs : hs[h].kind = policy) /\ (policy # "rr" => seen = {})

LEMMA KindsSame ==
  ASSUME Kinds, DOMAIN hs' = DOMAIN hs, \A h \in DOMAIN hs : hs'[h].kind = hs[h].kind, policy' = policy, seen' = seen
  PROVE  Kinds'
BY DEF Kinds

LEMMA KindsChanged ==
  ASSUME Kinds, Base, NEW h \in DOMAIN hs, NEW G, G.kind = hs[h].kind, hs' = [hs EXCEPT ![h] = G],
         policy' = policy, seen' = seen \/ policy = "rr"
  PROVE  Kinds'
<1>1. DOMAIN hs' = DOMAIN hs /\ hs'[h] = G /\ \A k \in DOMAIN hs : k # h => hs'[k] = hs[k]
  BY BaseFields
<1> QED BY <1>1 DEF Kinds

LEMMA removeKind ==
  ASSUME NEW H, Fit(H), NEW w
  PROVE  remove(H, w).kind = H.kind
BY DEF Fit, HandleRec, remove

LEMMA queryKinds ==
  ASSUME Kinds, Base, BindingWaits, NEW w \in Workers, queryServer(w)
  PROVE  Kinds'
<1>1. PICK G : JoinBound(w, G) \/ JoinBinding(w, G) \/ Opens(w, G) \/ OpenFails(w, G) \/ OpenBinds(w, G)
  BY queryCases
<1>2. policy' = policy /\ seen' = seen
  BY DEF queryServer
<1>3. CASE Opens(w, G) \/ OpenFails(w, G) \/ OpenBinds(w, G)
  <2> DEFINE H == Added(NewHandle(policy, "bound"), w)
  <2>1. Fit(H) /\ H.kind = policy /\ H.st # "binding"
    <3>1. policy \in Policies
      BY BaseFields
    <3> QED BY <3>1, NewFit
  <2>2. G = handoff(H, w) \/ G = H \/ G = [H EXCEPT !.st = "failed"] \/ G = [H EXCEPT !.st = "binding", !.waiting = <<w>>]
    BY <1>3 DEF Opens, OpenFails, OpenBinds
  <2> HIDE DEF H
  <2>3. handoff(H, w).kind = H.kind
    BY <2>1, handoffFit DEF Kept
  <2>4. H \in HandleRec
    BY <2>1 DEF Fit
  <2>5. G.kind = policy
    BY <2>1, <2>2, <2>3, <2>4 DEF HandleRec
  <2>6. Fit(G) /\ hs' = Append(hs, G)
    BY <1>3, OpensIs DEF Opens, OpenFails, OpenBinds
  <2>7. DOMAIN hs' = DOMAIN hs \cup {Len(hs) + 1} /\ hs'[Len(hs) + 1] = G /\ \A k \in DOMAIN hs : hs'[k] = hs[k]
    BY <2>6, HandleAppended
  <2> QED BY <1>2, <2>5, <2>7 DEF Kinds
<1>4. CASE JoinBound(w, G) \/ JoinBinding(w, G)
  <2>0. Cached(w) /\ hs' = [hs EXCEPT ![table] = G]
    BY <1>4 DEF JoinBound, JoinBinding
  <2>1. table \in DOMAIN hs /\ Fit(hs[table]) /\ hs[table].st \in {"bound", "binding"}
    BY <2>0, BaseFields DEF Cached
  <2> DEFINE H == Added(hs[table], w)
  <2>2. Fit(H) /\ H.kind = hs[table].kind /\ H.st = hs[table].st
    BY <2>1, AddedFit
  <2>3. \/ hs[table].st = "bound" /\ (G = handoff(H, w) \/ G = H)
        \/ G = [H EXCEPT !.waiting = Append(H.waiting, w)]
    BY <1>4 DEF JoinBound, JoinBinding
  <2> HIDE DEF H
  <2>4. hs[table].st = "bound" => handoff(H, w).kind = H.kind
    BY <2>2, handoffFit DEF Kept
  <2>5. H \in HandleRec
    BY <2>2 DEF Fit
  <2>6. G.kind = H.kind
    BY <2>3, <2>4, <2>5 DEF HandleRec
  <2>7. G.kind = hs[table].kind
    BY <2>2, <2>6
  <2> QED BY <1>2, <2>0, <2>1, <2>7, KindsChanged
<1> QED BY <1>1, <1>3, <1>4

LEMMA NextKinds ==
  ASSUME Tracked, Kinds, Next
  PROVE  Kinds'
<1>0. Base /\ BindingWaits
  BY DEF Tracked
<1>1. CASE hs' = hs /\ policy' = policy /\ seen' = seen
  BY <1>1 DEF Kinds
<1>2. ASSUME NEW w \in Workers, close(w) \/ disconnectEvent(w) \/ exitEvent(w) \/ primaryDisconnect(w), hs' # hs
      PROVE  Kinds'
  <2>1. RemoveOrFault(w) /\ policy' = policy /\ seen' = seen
    BY <1>2 DEF close, disconnectEvent, exitEvent, primaryDisconnect
  <2> DEFINE G == remove(hs[table], w)
  <2>2. hs' = [hs EXCEPT ![table] = G] /\ table # None
    BY <1>2, <2>1 DEF RemoveOrFault, RemoveHandles
  <2>3. table \in DOMAIN hs /\ G.kind = hs[table].kind
    BY <1>0, <2>2, BaseFields, removeKind
  <2> HIDE DEF G
  <2> QED BY <1>0, <2>1, <2>2, <2>3, KindsChanged
<1>3. ASSUME NEW w \in Workers, ackNewconn(w) PROVE Kinds'
  <2> DEFINE m == Head(up[w])
             h == m.h
             D == AckedTo(m)
             G == handoff(D, w)
  <2>1. h \in DOMAIN hs /\ hs[h].st # "binding" /\ Fit(D) /\ Kept(D, hs[h]) /\ hs' = [hs EXCEPT ![h] = G]
    BY <1>0, <1>3, AckIs
  <2>2. policy' = policy /\ seen' = seen
    BY <1>3 DEF ackNewconn
  <2> HIDE DEF m, h, D
  <2>3. Kept(G, D)
    <3>1. D.st # "binding"
      BY <2>1 DEF Kept
    <3> QED BY <2>1, <3>1, handoffFit
  <2> HIDE DEF G
  <2>4. G.kind = hs[h].kind
    BY <2>1, <2>3 DEF Kept
  <2> QED BY <1>0, <2>1, <2>2, <2>4, KindsChanged
<1>4. ASSUME NEW c \in Conns, connection(c) PROVE Kinds'
  <2> DEFINE H == hs[table]
             G == distribute(H, c)
  <2>1. table \in DOMAIN hs /\ Fit(H) /\ H.st = "bound" /\ hs' = [hs EXCEPT ![table] = G] /\ policy' = policy /\ H.kind = "rr"
    BY <1>0, <1>4, BaseFields DEF connection
  <2>0. policy = "rr"
    BY <2>1 DEF Kinds
  <2> HIDE DEF H
  <2>2. Kept(G, H)
    BY <2>1, distributeFit
  <2> HIDE DEF G
  <2>3. G.kind = hs[table].kind
    BY <2>2 DEF Kept, H
  <2> QED BY <1>0, <2>0, <2>1, <2>3, KindsChanged
<1>5. ASSUME NEW h \in DOMAIN hs, Bind(h) PROVE Kinds'
  <2>0. policy' = policy /\ seen' = seen /\ Fit(hs[h]) /\ hs[h].st = "binding"
    BY <1>0, <1>5, BaseFields DEF Bind, bound, bindFailed
  <2>1. \E G : hs' = [hs EXCEPT ![h] = G] /\ G.kind = hs[h].kind
    <3>1. CASE bound(h)
      <4> DEFINE H == [hs[h] EXCEPT !.st = "bound", !.waiting = <<>>]
                 ws == hs[h].waiting
      <4>1. hs' = [hs EXCEPT ![h] = handoffAll(H, ws)]
        BY <3>1 DEF bound
      <4>2. H \in HandleRec /\ H.kind = hs[h].kind /\ H.free = <<>> /\ H.conns = <<>> /\ H.st = "bound" /\ H.waiting = <<>> /\ H.all = hs[h].all
            /\ ws \in Seq(Workers)
        BY <2>0 DEF Fit, HandleRec
      <4> HIDE DEF H, ws
      <4>3. Fit(H)
        BY <4>2 DEF Fit, Distinct, In
      <4>4. handoffAll(H, ws).kind = H.kind
        BY <4>2, <4>3, handoffAllFit DEF Kept
      <4> QED BY <4>1, <4>2, <4>4
    <3>2. CASE bindFailed(h)
      <4>1. hs' = [hs EXCEPT ![h] = FailedTo(h)]
        BY <1>0, <3>2, FailedIs
      <4>2. FailedTo(h).kind = hs[h].kind
        BY <2>0 DEF FailedTo, Fit, HandleRec
      <4> QED BY <4>1, <4>2
    <3> QED BY <1>5, <3>1, <3>2 DEF Bind
  <2> QED BY <1>0, <2>0, <2>1, KindsChanged
<1>6. ASSUME NEW w \in Workers,
             \/ fork(w) \/ online(w) \/ listening(w) \/ exitedAfterDisconnect(w) \/ queryServerIgnored(w)
             \/ silentDisconnect(w)
      PROVE  hs' = hs /\ policy' = policy /\ seen' = seen
  BY <1>6 DEF fork, online, listening, exitedAfterDisconnect, queryServerIgnored, silentDisconnect
<1>7. ASSUME NEW w \in Workers,
             \/ Get(w) \/ listen(w) \/ closeServer(w) \/ workerDisconnect(w) \/ workerDestroy(w) \/ crash(w)
             \/ \E c \in Conns : endConn(w, c)
      PROVE  hs' = hs /\ policy' = policy /\ seen' = seen
  BY <1>7 DEF Get, listen, closeServer, workerDisconnect, workerDestroy, crash, endConn, reply, onconnection,
              disconnectMessage, ackExited, waitingDone, orphaned, exit, primary
<1>8. ASSUME NEW w \in Workers, close(w) \/ disconnectEvent(w) \/ exitEvent(w) \/ primaryDisconnect(w)
      PROVE  policy' = policy /\ seen' = seen
  BY <1>8 DEF close, disconnectEvent, exitEvent, primaryDisconnect
<1> QED BY <1>0, <1>1, <1>2, <1>3, <1>4, <1>5, <1>6, <1>7, <1>8, queryKinds DEF Next, Hear

-----------------------------------------------------------------------------
(* A handle that keeps its connections, and a new one. *)
LEMMA HandleQuiet ==
  ASSUME Base, NEW c, NEW h \in DOMAIN hs, NEW G, hs' = [hs EXCEPT ![h] = G], G.conns = hs[h].conns
  PROVE  QuietHandles(c)
<1>1. DOMAIN hs' = DOMAIN hs /\ hs'[h] = G /\ \A k \in DOMAIN hs : k # h => hs'[k] = hs[k]
  BY BaseFields
<1>2. \A k \in DOMAIN hs : hs'[k].conns = hs[k].conns
  BY <1>1
<1> QED BY <1>1, <1>2, SameIs DEF QuietHandles

LEMMA HandleNew ==
  ASSUME Base, NEW c, NEW G, Fit(G), hs' = Append(hs, G), G.conns = <<>>
  PROVE  QuietHandles(c)
<1>1. DOMAIN hs' = DOMAIN hs \cup {Len(hs) + 1} /\ hs'[Len(hs) + 1] = G /\ \A k \in DOMAIN hs : hs'[k] = hs[k]
  BY HandleAppended
<1>2. \A k \in DOMAIN hs : Same(hs[k].conns, hs'[k].conns, {c})
  BY <1>1, SameIs
<1> QED BY <1>1, <1>2 DEF QuietHandles

(* The answers of a bind that ends. *)
LEMMA bindSound ==
  ASSUME Tracked, Next, NEW h \in DOMAIN hs, Bind(h), NEW c \in Conns, Sound(c)
  PROVE  Sound(c)'
<1>0. Base /\ h \in Nat /\ hs[h].st = "binding" /\ Fit(hs[h]) /\ UNCHANGED <<up, open, served, seen>>
  BY BaseFields DEF Tracked, Bind, bound, bindFailed
<1>1. QuietHandles(c)
  <2>1. hs[h].conns = <<>>
    BY <1>0 DEF Fit
  <2>2. CASE bound(h)
    <3>1. hs' = [hs EXCEPT ![h] = BoundTo(h)]
      BY <2>2 DEF bound, BoundTo
    <3>2. BoundTo(h).conns = <<>>
      BY <1>0, BoundIs
    <3> QED BY <1>0, <2>1, <3>1, <3>2, HandleQuiet
  <2>3. CASE bindFailed(h)
    BY <1>0, <2>3, FailedIs, HandleQuiet
  <2> QED BY <2>2, <2>3 DEF Bind
<1>2. \E S : SendAll(S) /\ \A v \in Workers : S[v] \in Seq(DownMsg) /\ Plain(S[v])
  <2> DEFINE R(ok) == <<ConnMsg("reply", None, h, ok)>>
             S(W, ok) == [v \in Workers |-> IF v \in W THEN R(ok) ELSE <<>>]
  <2>1. Plain(<<>>) /\ <<>> \in Seq(DownMsg) /\ \A ok \in BOOLEAN : R(ok) \in Seq(DownMsg) /\ Plain(R(ok))
    <3>1. ASSUME NEW ok \in BOOLEAN PROVE R(ok) \in Seq(DownMsg)
      BY <1>0, ReplyGood DEF AllDown
    <3>2. \A ok \in BOOLEAN : Plain(R(ok))
      BY PlainIs
    <3>3. <<>> \in Seq(DownMsg)
      OBVIOUS
    <3> QED BY <3>1, <3>2, <3>3, PlainIs
  <2>2. \E W : \E ok \in BOOLEAN : SendAll(S(W, ok))
    <3>1. CASE bound(h)
      BY <3>1, Zenon DEF bound
    <3>2. CASE bindFailed(h)
      BY <3>2, Zenon DEF bindFailed
    <3> QED BY <3>1, <3>2 DEF Bind
  <2> HIDE DEF R
  <2>3. \A W : \A ok \in BOOLEAN : \A v \in Workers : S(W, ok)[v] \in Seq(DownMsg) /\ Plain(S(W, ok)[v])
    BY <2>1
  <2> HIDE DEF S
  <2> QED BY <2>2, <2>3
<1>3. QuietDown(c) /\ sent'[c] = sent[c] /\ QuietUp(c)
  BY <1>0, <1>2, SentPlain, UpStill
<1> QED BY <1>0, <1>1, <1>3, QuietSound, LeftStays

(* A question that moves no connection: there is none, or nobody is answered. *)
LEMMA queryQuiet ==
  ASSUME Tracked, Next, NEW w \in Workers, queryServer(w), NEW G,
         JoinBinding(w, G) \/ Opens(w, G) \/ OpenFails(w, G) \/ OpenBinds(w, G), NEW c \in Conns, Sound(c)
  PROVE  Sound(c)'
<1>0. Base /\ BindingWaits /\ UNCHANGED <<open, served, seen>>
  BY DEF Tracked, queryServer
<1>1. QuietUp(c)
  <2>1. up[w] # <<>> /\ Head(up[w]).act # "ackNewconn" /\ up' = Take(up, w)
    BY DEF queryServer, Hears
  <2>2. Head(up[w]).c # c
    BY <2>1, PlainHead, ClusterAssumption
  <2> QED BY <2>1, <2>2, UpSkips
<1>2. QuietHandles(c)
  <2>1. CASE JoinBinding(w, G)
    <3>1. hs' = [hs EXCEPT ![table] = G] /\ hs[table].st = "binding"
      BY <1>0, <2>1, BaseFields DEF JoinBinding, Cached
    <3> QED BY <1>0, <2>1, <3>1, JoinBindingIs, HandleQuiet
  <2>2. CASE Opens(w, G) \/ OpenFails(w, G) \/ OpenBinds(w, G)
    <3>1. hs' = Append(hs, G) /\ Fit(G) /\ G.conns = <<>>
      BY <1>0, <2>2, OpensIs DEF Opens, OpenFails, OpenBinds
    <3> QED BY <1>0, <3>1, HandleNew
  <2> QED BY <2>1, <2>2
<1>3. QuietDown(c) /\ sent'[c] = sent[c]
  <2>1. CASE JoinBinding(w, G) \/ OpenBinds(w, G)
    <3>1. UNCHANGED <<down, sent>>
      BY <2>1 DEF JoinBinding, OpenBinds
    <3> QED BY <3>1, DownStill
  <2>2. CASE Opens(w, G) \/ OpenFails(w, G)
    <3> DEFINE H == Added(NewHandle(policy, "bound"), w)
               h == Len(hs) + 1
               R(ok) == <<ConnMsg("reply", None, h, ok)>>
    <3>1. H.conns = <<>> /\ h \in Nat
      BY <1>0, <2>2, OpensIs, BaseFields
    <3>2. \E ok \in BOOLEAN : Answer(H, h, w, ok)
      BY <2>2, Zenon DEF Opens, OpenFails
    <3> HIDE DEF H, h
    <3>3. \E ok \in BOOLEAN : SendAll(To(w, R(ok) \o <<>>))
      BY <3>1, <3>2 DEF Answer, handoffSends
    <3>4. \A ok \in BOOLEAN : R(ok) \in Seq(DownMsg) /\ Plain(R(ok))
      BY <3>1, ReplyGood, PlainIs DEF AllDown
    <3> HIDE DEF R
    <3>5. \A ok \in BOOLEAN : R(ok) \o <<>> = R(ok)
      BY <3>4
    <3>6. PICK ok \in BOOLEAN : SendAll(To(w, R(ok)))
      BY <3>3, <3>5
    <3> DEFINE ms == R(ok)
               S == To(w, ms)
    <3>7. ms \in Seq(DownMsg) /\ Plain(ms) /\ S = To(w, ms) /\ SendAll(S)
      BY <3>4, <3>6
    <3> HIDE DEF ms, S
    <3>8. \A v \in Workers : S[v] \in Seq(DownMsg) /\ Plain(S[v])
      BY <3>7, ToPlain
    <3> QED BY <3>7, <3>8, SentPlain
  <2> QED BY <2>1, <2>2
<1> QED BY <1>0, <1>1, <1>2, <1>3, QuietSound, LeftStays

-----------------------------------------------------------------------------
(* A step of a handle: T are its connections, R what is left of them; S goes   *)
(* to the workers, and may bring the first one to one of them.                 *)
Gives(S, v, d) ==
  \A x \in Workers : \A c \in Conns : (Has(S[x], Of(c)) <=> x = v /\ c = d) /\ Once(S[x], Of(c))
Passes(S, T, R) ==
  /\ \A x \in Workers : S[x] \in Seq(DownMsg)
  /\ \/ R = T /\ \A x \in Workers : \A c \in Conns : ~Has(S[x], Of(c))
     \/ \E v \in Workers : Forked(v) /\ T # <<>> /\ R = Tail(T) /\ Gives(S, v, Head(T))

(* The one who is sent the connection has it, or has left. *)
LEMMA SentConn ==
  ASSUME Tracked, UNCHANGED <<reg, proc>>, NEW S, SendAll(S), \A x \in Workers : S[x] \in Seq(DownMsg),
         NEW c \in Conns, NoDown(c), NEW v \in Workers, Forked(v), Gives(S, v, c)
  PROVE  /\ \A x \in Workers : x # v => ~Has(down'[x], Of(c))
         /\ Once(down'[v], Of(c)) /\ (Has(down'[v], Of(c)) \/ LeftWith(c)')
<1>1. \A x \in Workers : (Has(S[x], Of(c)) <=> x = v) /\ Once(S[x], Of(c))
  BY DEF Gives
<1>2. ASSUME NEW x \in Workers
      PROVE  /\ Has(down'[x], Of(c)) <=> Sendable(x) /\ x = v
             /\ Once(down'[x], Of(c))
  <2>1. down[x] \in Seq(DownMsg) /\ S[x] \in Seq(DownMsg) /\ ~Has(down[x], Of(c)) /\ Once(down[x], Of(c))
    BY TrackedSeqs, LacksOnce DEF NoDown
  <2>2. down'[x] = IF Sendable(x) THEN down[x] \o S[x] ELSE down[x]
    BY SentTo
  <2>3. Has(down[x] \o S[x], Of(c)) <=> x = v
    BY <1>1, <2>1, HasCat
  <2>4. Once(down[x] \o S[x], Of(c))
    BY <1>1, <2>1, HasCat
  <2> QED BY <2>1, <2>2, <2>3, <2>4
<1>3. ~Sendable(v) => LeftWith(c)'
  <2>1. sent'[c] = v
    <3>1. \A x \in Workers : x \in Handed(S, c) <=> x = v
      BY <1>1, HandedIs
    <3>2. Handed(S, c) = {v}
      BY <3>1 DEF Handed
    <3> QED BY <3>2, SentIs
  <2>2. ~Sendable(v) => ~proc[v].connected
    BY TrackedSeqs DEF Sendable, Channel
  <2> QED BY <2>1, <2>2 DEF LeftWith, Forked
<1> QED BY <1>2, <1>3

LEMMA SameVia ==
  ASSUME NEW p, NEW q, NEW r, NEW M, Same(p, q, M), Same(q, r, M)
  PROVE  Same(p, r, M)
BY DEF Same

LEMMA NoUpQuiet ==
  ASSUME NEW c, QuietUp(c), NoUp(c)
  PROVE  NoUp(c)'
BY DEF QuietUp, NoUp, Same

LEMMA NoDownQuiet ==
  ASSUME NEW c, QuietDown(c), NoDown(c)
  PROVE  NoDown(c)'
BY DEF QuietDown, NoDown, Same

(* A connection that was there moves up in the queue, or goes to a worker. *)
LEMMA PassSound ==
  ASSUME Tracked, Next, UNCHANGED <<reg, proc>>, NEW c \in Conns, Sound(c), served'[c] = served[c],
         c \in seen => c \in seen', c \in open' => c \in open, QuietUp(c),
         NEW h \in DOMAIN hs, NEW G, hs' = [hs EXCEPT ![h] = G], NEW S, SendAll(S),
         NEW T \in Seq(Conns), Same(hs[h].conns, T, {c}), Passes(S, T, G.conns)
  PROVE  Sound(c)'
<1>1. DOMAIN hs' = DOMAIN hs /\ hs'[h] = G /\ \A k \in DOMAIN hs : k # h => hs'[k] = hs[k]
  BY BaseFields DEF Tracked
<1>2. CASE Same(T, G.conns, {c}) /\ \A x \in Workers : ~Has(S[x], Of(c))
  <2>1. Same(hs[h].conns, hs'[h].conns, {c})
    BY <1>1, <1>2, SameVia
  <2>2. QuietHandles(c)
    BY <1>1, <2>1, SameIs DEF QuietHandles
  <2>3. \A x \in Workers : S[x] \in Seq(DownMsg) /\ ~Has(S[x], Of(c))
    BY <1>2 DEF Passes
  <2>4. QuietDown(c) /\ sent'[c] = sent[c]
    BY <2>3, SentRest
  <2> QED BY <2>2, <2>4, QuietSound, LeftStays
<1>3. CASE G.conns = T /\ \A x \in Workers : \A d \in Conns : ~Has(S[x], Of(d))
  <2>1. Same(T, G.conns, {c})
    BY <1>3, SameIs
  <2> QED BY <1>2, <1>3, <2>1
<1>4. ASSUME NEW v \in Workers, Forked(v), T # <<>>, G.conns = Tail(T), Gives(S, v, Head(T)) PROVE Sound(c)'
  <2>1. CASE Head(T) # c
    <3>1. \A x \in Workers : ~Has(S[x], Of(c))
      BY <1>4, <2>1 DEF Gives
    <3>2. Head(T) \notin {c}
      BY <2>1
    <3>3. Same(T, G.conns, {c})
      BY <1>4, <3>2, SameTaken
    <3> QED BY <1>2, <3>1, <3>3
  <2>2. CASE Head(T) = c
    <3>1. Has(T, {c})
      BY <1>4, <2>2, HasTail
    <3>2. Has(hs[h].conns, {c})
      BY <3>1 DEF Same
    <3>3. /\ NoDown(c) /\ NoUp(c) /\ \A k \in DOMAIN hs : k # h => ~Has(hs[k].conns, {c})
          /\ served[c] = {} /\ c \in seen /\ Once(hs[h].conns, {c})
      BY <3>2, WasQueued
    <3>4. Once(T, {c})
      BY <3>3 DEF Same
    <3>5. ~Has(G.conns, {c})
      BY <1>4, <2>2, <3>4, HasTail
    <3>6. NoQueue(c)'
      BY <1>1, <3>3, <3>5 DEF NoQueue
    <3>7. NoUp(c)'
      BY <3>3, NoUpQuiet
    <3>8. \A x \in Workers : S[x] \in Seq(DownMsg)
      BY DEF Passes
    <3>9. /\ \A x \in Workers : x # v => ~Has(down'[x], Of(c))
          /\ Once(down'[v], Of(c)) /\ (Has(down'[v], Of(c)) \/ LeftWith(c)')
      BY <1>4, <2>2, <3>3, <3>8, SentConn
    <3> QED BY <3>3, <3>6, <3>7, <3>9, SettleDown
  <2> QED BY <2>1, <2>2
<1> QED BY <1>3, <1>4 DEF Passes

(* One that comes waits, or goes to a worker at once. *)
LEMMA AppendHas ==
  ASSUME NEW q \in Seq(Conns), NEW c \in Conns, NEW T, T = Append(q, c)
  PROVE  /\ T \in Seq(Conns) /\ T # <<>> /\ Has(T, {c}) /\ (~Has(q, {c}) => Once(T, {c}))
         /\ \A d : d # c => Same(q, T, {d})
<1> DEFINE p == <<c>>
<1>1. p \in Seq(Conns) /\ T = q \o p /\ T \in Seq(Conns) /\ T # <<>>
  OBVIOUS
<1>2. Has(p, {c}) /\ Once(p, {c}) /\ \A d : d # c => ~Has(p, {d})
  BY HasOne
<1> HIDE DEF p
<1>3. Has(T, {c})
  BY <1>1, <1>2, HasCat
<1>4. ~Has(q, {c}) => Once(T, {c})
  BY <1>1, <1>2, HasCat, LacksOnce
<1>5. \A d : d # c => Same(q, T, {d})
  BY <1>1, <1>2, SameTold
<1> QED BY <1>1, <1>3, <1>4, <1>5

LEMMA EnterSound ==
  ASSUME Tracked, UNCHANGED <<reg, proc>>, NEW c \in Conns, NoQueue(c), NoDown(c), NoUp(c)', served'[c] = {},
         c \in seen', NEW h \in DOMAIN hs, NEW G, hs' = [hs EXCEPT ![h] = G], NEW S, SendAll(S),
         NEW T, T = Append(hs[h].conns, c), Passes(S, T, G.conns)
  PROVE  Sound(c)'
<1>1. DOMAIN hs' = DOMAIN hs /\ hs'[h] = G /\ \A k \in DOMAIN hs : k # h => hs'[k] = hs[k]
  BY BaseFields DEF Tracked
<1>2. hs[h].conns \in Seq(Conns) /\ ~Has(hs[h].conns, {c})
  BY BaseFields, HandleFields DEF Tracked, Fit, NoQueue
<1>3. T \in Seq(Conns) /\ T # <<>> /\ Has(T, {c}) /\ Once(T, {c})
  BY <1>2, AppendHas
<1>4. \A k \in DOMAIN hs' : k # h => ~Has(hs'[k].conns, {c})
  BY <1>1 DEF NoQueue
<1>5. \A x \in Workers : S[x] \in Seq(DownMsg)
  BY DEF Passes
<1>6. ASSUME Has(G.conns, {c}), Once(G.conns, {c}), \A x \in Workers : ~Has(S[x], Of(c)) PROVE Sound(c)'
  <2>1. QuietDown(c)
    BY <1>5, <1>6, SentRest
  <2>2. NoDown(c)'
    BY <2>1, NoDownQuiet
  <2>3. h \in DOMAIN hs' /\ Has(hs'[h].conns, {c}) /\ Once(hs'[h].conns, {c})
    BY <1>1, <1>6
  <2> QED BY <1>4, <2>2, <2>3, SettleQueue
<1>7. CASE G.conns = T /\ \A x \in Workers : \A d \in Conns : ~Has(S[x], Of(d))
  BY <1>3, <1>6, <1>7
<1>8. ASSUME NEW v \in Workers, Forked(v), G.conns = Tail(T), Gives(S, v, Head(T)) PROVE Sound(c)'
  <2>1. CASE Head(T) # c
    <3>1. \A x \in Workers : ~Has(S[x], Of(c))
      BY <1>8, <2>1 DEF Gives
    <3>2. Head(T) \notin {c}
      BY <2>1
    <3>3. Same(T, G.conns, {c})
      BY <1>3, <1>8, <3>2, SameTaken
    <3>4. Has(G.conns, {c}) /\ Once(G.conns, {c})
      BY <1>3, <3>3 DEF Same
    <3> QED BY <1>6, <3>1, <3>4
  <2>2. CASE Head(T) = c
    <3>1. ~Has(G.conns, {c})
      BY <1>3, <1>8, <2>2, HasTail
    <3>2. NoQueue(c)'
      BY <1>1, <1>4, <3>1 DEF NoQueue
    <3>3. /\ \A x \in Workers : x # v => ~Has(down'[x], Of(c))
          /\ Once(down'[v], Of(c)) /\ (Has(down'[v], Of(c)) \/ LeftWith(c)')
      BY <1>5, <1>8, <2>2, SentConn
    <3> QED BY <3>2, <3>3, SettleDown
  <2> QED BY <2>1, <2>2
<1> QED BY <1>7, <1>8 DEF Passes

-----------------------------------------------------------------------------
(* handoff() and distribute() pass at most one connection on. *)
Brings(q, d) == q \in Seq(DownMsg) /\ \A c \in Conns : (Has(q, Of(c)) <=> c = d) /\ Once(q, Of(c))

LEMMA BringsOne ==
  ASSUME NEW d \in Conns, NEW m \in DownMsg, m.c = d
  PROVE  Brings(<<m>>, d)
<1>1. \A c \in Conns : m \in Of(c) <=> c = d
  BY DEF Of
<1>2. \A c : (Has(<<m>>, Of(c)) <=> m \in Of(c)) /\ Once(<<m>>, Of(c))
  BY HasOne
<1>3. <<m>> \in Seq(DownMsg)
  OBVIOUS
<1> QED BY <1>1, <1>2, <1>3 DEF Brings

LEMMA BringsNone ==
  <<>> \in Seq(DownMsg) /\ \A c : ~Has(<<>>, Of(c)) /\ Once(<<>>, Of(c))
<1>1. <<>> \in Seq(DownMsg)
  OBVIOUS
<1>2. \A c : ~Has(<<>>, Of(c)) /\ Once(<<>>, Of(c))
  BY DEF Has, Once
<1> QED BY <1>1, <1>2

LEMMA handoffPasses ==
  ASSUME NEW H, Fit(H), H.st # "binding", NEW h \in Nat, NEW w \in Workers, Forked(w),
         NEW p \in Seq(DownMsg), Plain(p),
         NEW S, \A x \in Workers : S[x] = IF x = w THEN p \o handoffSends(H, h, w) ELSE <<>>,
         NEW G, G = handoff(H, w)
  PROVE  Passes(S, H.conns, G.conns)
<1>1. G.conns = IF w \in H.all /\ H.conns # <<>> THEN Tail(H.conns) ELSE H.conns
  BY handoffFit
<1>2. H.conns \in Seq(Conns) /\ (H.conns # <<>> => Head(H.conns) \in Conns)
  BY HandleFields DEF Fit
<1>3. \A c \in Conns : ~Has(p, Of(c)) /\ Once(p, Of(c))
  BY PlainLacks, LacksOnce
<1>4. <<>> \in Seq(DownMsg) /\ \A c : ~Has(<<>>, Of(c)) /\ Once(<<>>, Of(c))
  BY BringsNone
<1>5. CASE w \in H.all /\ H.conns # <<>>
  <2> DEFINE d == Head(H.conns)
             m == ConnMsg("newconn", d, h, TRUE)
             q == <<m>>
  <2>1. handoffSends(H, h, w) = q /\ d \in Conns
    BY <1>2, <1>5 DEF handoffSends
  <2>2. m \in DownMsg /\ m.c = d
    BY <2>1 DEF ConnMsg, DownMsg, DownActs
  <2> HIDE DEF m
  <2>3. Brings(q, d)
    BY <2>1, <2>2, BringsOne
  <2> HIDE DEF q
  <2>4. S[w] = p \o q
    BY <2>1
  <2>7. q \in Seq(DownMsg) /\ p \o q \in Seq(DownMsg)
    BY <2>3 DEF Brings
  <2>8. ASSUME NEW c \in Conns PROVE (Has(S[w], Of(c)) <=> c = d) /\ Once(S[w], Of(c))
    BY <1>3, <2>3, <2>4, <2>7, HasCat DEF Brings
  <2> HIDE DEF d
  <2>5. Gives(S, w, d)
    BY <1>4, <2>8 DEF Gives
  <2>6. \A x \in Workers : S[x] \in Seq(DownMsg)
    BY <1>4, <2>4, <2>7
  <2> QED BY <1>1, <1>5, <2>5, <2>6 DEF Passes, d
<1>6. CASE ~(w \in H.all /\ H.conns # <<>>)
  <2>1. p \o <<>> = p
    OBVIOUS
  <2>2. S[w] = p /\ G.conns = H.conns
    BY <1>1, <1>6, <2>1 DEF handoffSends
  <2>3. \A x \in Workers : S[x] = p \/ S[x] = <<>>
    BY <2>2
  <2> QED BY <1>3, <1>4, <2>2, <2>3 DEF Passes
<1> QED BY <1>5, <1>6

(* distribute(): the new connection waits behind the others, or goes at once. *)
LEMMA distributePasses ==
  ASSUME NEW H, Fit(H), H.st # "binding", \A v \in H.all : Forked(v), NEW h \in Nat, NEW c \in Conns,
         NEW S, S = distributeSends(H, h, c), NEW G, G = distribute(H, c)
  PROVE  Passes(S, Append(H.conns, c), G.conns)
<1>1. G.conns = IF H.free = <<>> THEN Append(H.conns, c) ELSE <<>>
  BY distributeFit
<1>2. <<>> \in Seq(DownMsg) /\ \A d : ~Has(<<>>, Of(d)) /\ Once(<<>>, Of(d))
  BY BringsNone
<1>3. CASE H.free = <<>>
  <2>1. \A x \in Workers : S[x] = <<>>
    BY <1>3 DEF distributeSends
  <2> QED BY <1>1, <1>2, <1>3, <2>1 DEF Passes
<1>4. CASE H.free # <<>>
  <2> DEFINE v == Head(H.free)
             m == ConnMsg("newconn", c, h, TRUE)
             q == <<m>>
             K == [queued(H, c) EXCEPT !.free = Tail(@)]
             T == Append(H.conns, c)
  <2>1. v \in H.all /\ v \in Workers /\ H.conns = <<>> /\ Forked(v)
    BY <1>4, FirstFree DEF Fit
  <2>2. K.all = H.all /\ K.conns = T
    BY DEF queued, Fit, HandleRec
  <2>3. T = <<c>> /\ Head(T) = c /\ Tail(T) = <<>> /\ T # <<>>
    BY <2>1
  <2>4. \A x \in Workers : S[x] = IF x = v THEN handoffSends(K, h, x) ELSE <<>>
    BY <1>4 DEF distributeSends
  <2> HIDE DEF K, T
  <2>5. handoffSends(K, h, v) = q
    BY <2>1, <2>2, <2>3 DEF handoffSends
  <2>10. m \in DownMsg /\ m.c = c
    BY DEF ConnMsg, DownMsg, DownActs
  <2> HIDE DEF m
  <2>6. Brings(q, c)
    BY <2>10, BringsOne
  <2> HIDE DEF q, v
  <2>7. \A x \in Workers : S[x] = IF x = v THEN q ELSE <<>>
    BY <2>4, <2>5
  <2>8. Gives(S, v, c) /\ \A x \in Workers : S[x] \in Seq(DownMsg)
    BY <1>2, <2>6, <2>7 DEF Gives, Brings
  <2>9. Passes(S, T, G.conns)
    BY <1>1, <1>4, <2>1, <2>3, <2>8 DEF Passes
  <2> QED BY <2>9 DEF T
<1> QED BY <1>3, <1>4

(* The answer to newconn. *)
LEMMA ackPasses ==
  ASSUME Tracked, AllForked, NEW w \in Workers, ackNewconn(w), NEW m, m = Head(up[w]), NEW G, G = handoff(AckedTo(m), w),
         NEW T, T = IF m.ok THEN hs[m.h].conns ELSE Append(hs[m.h].conns, m.c)
  PROVE  \E S : SendAll(S) /\ Passes(S, T, G.conns)
<1> DEFINE D == AckedTo(m)
           h == m.h
           H == hs[h]
           A == AckSends(m)
           S == [x \in Workers |-> IF x = w THEN A[x] \o handoffSends(D, h, w) ELSE A[x]]
<1>0. Base
  BY DEF Tracked
<1>1. /\ m.c \in Conns /\ h \in DOMAIN hs /\ H.st # "binding" /\ m.ok \in BOOLEAN
      /\ Fit(D) /\ Kept(D, H)
      /\ D.conns = IF m.ok THEN H.conns ELSE IF H.free = <<>> THEN Append(H.conns, m.c) ELSE <<>>
      /\ SendAll(S)
  BY <1>0, AckIs
<1>2. h \in Nat /\ Fit(H) /\ D.st # "binding"
  <2>1. D.st = H.st
    BY <1>1 DEF Kept
  <2>2. DOMAIN hs \subseteq Nat /\ \A k \in DOMAIN hs : Fit(hs[k])
    BY <1>0, BaseFields
  <2> QED BY <1>1, <2>1, <2>2
<1>3. Forked(w) /\ \A v \in H.all : Forked(v)
  BY <1>1, SpokenForked DEF AllForked, ackNewconn, Hears
<1>4. Plain(<<>>) /\ <<>> \in Seq(DownMsg)
  BY PlainIs
<1>5. \A x \in Workers : A[x] = IF m.ok THEN <<>> ELSE distributeSends(H, h, m.c)[x]
  BY DEF AckSends
<1>6. ~m.ok => D = distribute(H, m.c)
  BY DEF AckedTo, redistribute
<1>7. CASE m.ok \/ H.free = <<>>
  <2>1. \A x \in Workers : A[x] = <<>>
    BY <1>5, <1>7 DEF distributeSends
  <2>2. T = D.conns
    BY <1>1, <1>7
  <2> DEFINE p == <<>>
  <2>3. p \in Seq(DownMsg) /\ Plain(p)
    BY <1>4
  <2>4. \A x \in Workers : S[x] = IF x = w THEN p \o handoffSends(D, h, w) ELSE <<>>
    BY <2>1
  <2>5. G = handoff(D, w)
    OBVIOUS
  <2> HIDE DEF p, D, S, h, H, A
  <2>6. Passes(S, D.conns, G.conns)
    BY <1>1, <1>2, <1>3, <2>3, <2>4, <2>5, handoffPasses
  <2> QED BY <1>1, <2>2, <2>6
<1>8. CASE ~m.ok /\ H.free # <<>>
  <2> DEFINE c == m.c
             B == distributeSends(H, h, c)
  <2>1. T = Append(H.conns, c) /\ D.conns = <<>> /\ D = distribute(H, c) /\ c \in Conns /\ G = handoff(D, w)
    BY <1>1, <1>6, <1>8
  <2>2. B = distributeSends(H, h, c)
    OBVIOUS
  <2>3. \A x \in Workers : A[x] = B[x]
    BY <1>5, <1>8
  <2> HIDE DEF B, D, S, h, H, A, c
  <2>4. Passes(B, Append(H.conns, c), D.conns)
    BY <1>1, <1>2, <1>3, <2>1, <2>2, distributePasses
  <2>5. G.conns = D.conns
    BY <1>1, <1>2, <2>1, handoffFit
  <2>6. handoffSends(D, h, w) = <<>>
    BY <2>1 DEF handoffSends
  <2>7. \A x \in Workers : B[x] \in Seq(DownMsg)
    BY <2>4 DEF Passes
  <2>8. \A x \in Workers : B[x] \o <<>> = B[x]
    BY <2>7
  <2>9. \A x \in Workers : S[x] = B[x]
    BY <2>3, <2>6, <2>8 DEF S
  <2>10. Passes(S, T, G.conns)
    BY <2>1, <2>4, <2>5, <2>9 DEF Passes, Gives
  <2> QED BY <1>1, <2>10
<1> QED BY <1>1, <1>7, <1>8

-----------------------------------------------------------------------------
(* A worker joins the handle, and may be handed a connection that waits. *)
LEMMA joinSound ==
  ASSUME Tracked, Kinds, Next, \A d \in Conns : Sound(d), NEW w \in Workers, queryServer(w), NEW G, JoinBound(w, G),
         NEW c \in Conns
  PROVE  Sound(c)'
<1> DEFINE H == Added(hs[table], w)
           h == table
           p == <<ConnMsg("reply", None, h, TRUE)>>
           S == To(w, p \o handoffSends(H, h, w))
           K == handoff(H, w)
<1>0. Base /\ UNCHANGED <<reg, proc, open, served, seen>> /\ hs' = [hs EXCEPT ![h] = G]
  BY DEF Tracked, queryServer, JoinBound
<1>1. h \in DOMAIN hs /\ Fit(H) /\ H.conns = hs[h].conns /\ Fit(hs[h]) /\ hs[h].st = "bound"
  BY <1>0, JoinBoundIs, BaseFields DEF JoinBound
<1>2. h \in Nat /\ H.kind = hs[h].kind /\ H.st # "binding" /\ H.conns \in Seq(Conns)
  <2>1. DOMAIN hs \subseteq Nat
    BY <1>0, BaseFields
  <2>2. H.kind = hs[h].kind /\ H.st = hs[h].st
    BY <1>1, AddedFit
  <2> QED BY <1>1, <2>1, <2>2, HandleFields DEF Fit
<1>3. SendAll(S)
  BY DEF JoinBound, Answer
<1>4. p \in Seq(DownMsg) /\ Plain(p)
  BY <1>2, ReplyGood, PlainIs DEF AllDown
<1>5. Forked(w) /\ up[w] # <<>> /\ Head(up[w]).act # "ackNewconn" /\ up' = Take(up, w)
  BY SpokenForked DEF queryServer, Hears
<1>6. G = IF H.kind = "rr" THEN K ELSE H
  BY DEF JoinBound
<1>7. \A x \in Workers : S[x] = IF x = w THEN p \o handoffSends(H, h, w) ELSE <<>>
  BY ToIs
<1> HIDE DEF p, S
<1>8. K = handoff(H, w)
  OBVIOUS
<1> HIDE DEF H, K, h
<1>9. Passes(S, H.conns, K.conns)
  BY <1>1, <1>2, <1>4, <1>5, <1>7, <1>8, handoffPasses
<1>10. G.conns = K.conns
  <2>1. CASE H.kind = "rr"
    BY <1>6, <2>1
  <2>2. CASE H.kind # "rr"
    <3>1. seen = {}
      BY <1>1, <1>2, <2>2 DEF Kinds
    <3>2. \A d \in Conns : ~Has(hs[h].conns, {d})
      BY <1>1, <3>1, WasUnseen DEF NoQueue
    <3>3. H.conns = <<>>
      <4>1. SUFFICES ASSUME H.conns # <<>> PROVE FALSE
        OBVIOUS
      <4>2. Head(H.conns) \in Conns
        BY <1>2, <4>1
      <4>3. Has(H.conns, {Head(H.conns)})
        BY <1>2, <4>1, HasTail
      <4> QED BY <1>1, <3>2, <4>2, <4>3
    <3>4. K.conns = H.conns
      BY <1>1, <1>2, <1>8, <3>3, handoffFit
    <3> QED BY <1>6, <2>2, <3>4
  <2> QED BY <2>1, <2>2
<1>11. QuietUp(c)
  <2>1. Head(up[w]).c # c
    BY <1>5, PlainHead, ClusterAssumption
  <2> QED BY <1>5, <2>1, UpSkips
<1> DEFINE T == H.conns
<1>12. T \in Seq(Conns) /\ Same(hs[h].conns, T, {c}) /\ Passes(S, T, G.conns)
  BY <1>1, <1>2, <1>9, <1>10, SameIs
<1> HIDE DEF T
<1> QED BY <1>0, <1>1, <1>3, <1>11, <1>12, PassSound

(* A client connects. *)
LEMMA connectionSound ==
  ASSUME Tracked, AllForked, Next, NEW d \in Conns, connection(d), NEW c \in Conns, Sound(c)
  PROVE  Sound(c)'
<1> DEFINE H == hs[table]
           h == table
           S == distributeSends(H, h, d)
           G == distribute(H, d)
           T == Append(H.conns, d)
<1>0. Base /\ UNCHANGED <<reg, proc, served, up>> /\ seen' = seen \cup {d} /\ open' = open \cup {d} /\ d \notin seen
      /\ hs' = [hs EXCEPT ![h] = G] /\ SendAll(S) /\ h # None /\ H.st = "bound"
  BY DEF Tracked, connection
<1>1. h \in DOMAIN hs /\ h \in Nat /\ Fit(H) /\ \A v \in H.all : Forked(v)
  BY <1>0, BaseFields DEF AllForked
<1>2. S = distributeSends(H, h, d) /\ G = distribute(H, d) /\ T = Append(H.conns, d) /\ H = hs[h]
  OBVIOUS
<1> HIDE DEF S, G, T, H, h
<1>3. Passes(S, T, G.conns)
  BY <1>0, <1>1, <1>2, distributePasses
<1>4. H.conns \in Seq(Conns)
  BY <1>1, HandleFields DEF Fit
<1>5. QuietUp(c)
  BY <1>0, UpStill
<1>6. CASE c = d
  <2>1. NoQueue(c) /\ NoDown(c) /\ NoUp(c) /\ served[c] = {}
    BY <1>0, <1>6, WasUnseen
  <2>2. NoUp(c)'
    BY <1>5, <2>1, NoUpQuiet
  <2> QED BY <1>0, <1>1, <1>2, <1>3, <1>6, <2>1, <2>2, EnterSound
<1>7. CASE c # d
  <2>1. T \in Seq(Conns) /\ Same(hs[h].conns, T, {c})
    BY <1>2, <1>4, <1>7, AppendHas
  <2> QED BY <1>0, <1>1, <1>3, <1>5, <1>7, <2>1, PassSound
<1> QED BY <1>6, <1>7

(* A worker has answered: the connection is accepted, or another one gets it. *)
LEMMA acceptedSound ==
  ASSUME Tracked, NEW w \in Workers, up[w] # <<>>, up' = Take(up, w), NEW c \in Conns, Head(up[w]).c = c,
         Head(up[w]) \in UpMsg, Sound(c), served' = served, seen' = seen, c \notin open',
         NEW h \in DOMAIN hs, NEW G, hs' = [hs EXCEPT ![h] = G], NEW S, SendAll(S), Passes(S, hs[h].conns, G.conns)
  PROVE  Sound(c)'
<1>1. up[w] \in Seq(UpMsg) /\ Head(up[w]) \in Of(c) /\ up'[w] = Tail(up[w]) /\ \A v \in Workers : v # w => up'[v] = up[v]
  BY TrackedSeqs, TakeSame DEF Of
<1>2. Has(up[w], Of(c))
  BY <1>1, HasTail
<1>3. /\ NoQueue(c) /\ NoDown(c) /\ \A v \in Workers : v # w => ~Has(up[v], Of(c))
      /\ c \in seen /\ Once(up[w], Of(c)) /\ \A v, x \in served[c] : v = x
  BY <1>2, WasReturned
<1>4. NoUp(c)'
  <2>1. ~Has(up'[w], Of(c))
    BY <1>1, <1>3, HasTail
  <2> QED BY <1>1, <1>3, <2>1 DEF NoUp
<1>5. hs[h].conns \in Seq(Conns) /\ ~Has(hs[h].conns, {c})
  BY <1>3, BaseFields, HandleFields DEF Tracked, Fit, NoQueue
<1>6. ~Has(G.conns, {c}) /\ \A x \in Workers : ~Has(S[x], Of(c))
  <2>1. CASE G.conns = hs[h].conns /\ \A x \in Workers : \A d \in Conns : ~Has(S[x], Of(d))
    BY <1>5, <2>1
  <2>2. ASSUME NEW v \in Workers, hs[h].conns # <<>>, G.conns = Tail(hs[h].conns), Gives(S, v, Head(hs[h].conns))
        PROVE  ~Has(G.conns, {c}) /\ \A x \in Workers : ~Has(S[x], Of(c))
    <3>1. Head(hs[h].conns) # c /\ ~Has(G.conns, {c})
      BY <1>5, <2>2, HasTail
    <3>2. \A x \in Workers : ~Has(S[x], Of(c))
      BY <2>2, <3>1 DEF Gives
    <3> QED BY <3>1, <3>2
  <2> QED BY <2>1, <2>2 DEF Passes
<1>7. NoQueue(c)'
  <2>1. DOMAIN hs' = DOMAIN hs /\ hs'[h] = G /\ \A k \in DOMAIN hs : k # h => hs'[k] = hs[k]
    BY BaseFields DEF Tracked
  <2> QED BY <1>3, <1>6, <2>1 DEF NoQueue
<1>8. NoDown(c)'
  <2>1. \A x \in Workers : S[x] \in Seq(DownMsg) /\ ~Has(S[x], Of(c))
    BY <1>6 DEF Passes
  <2>2. QuietDown(c)
    BY <2>1, SentRest
  <2> QED BY <1>3, <2>2, NoDownQuiet
<1> QED BY <1>3, <1>4, <1>7, <1>8, SettleGone

LEMMA ackSound ==
  ASSUME Tracked, AllForked, Next, NEW w \in Workers, ackNewconn(w), NEW c \in Conns, Sound(c)
  PROVE  Sound(c)'
<1> DEFINE m == Head(up[w])
           h == m.h
           G == handoff(AckedTo(m), w)
           T == IF m.ok THEN hs[h].conns ELSE Append(hs[h].conns, m.c)
<1>0. Base /\ UNCHANGED <<reg, proc, served, seen>> /\ up[w] # <<>> /\ up' = Take(up, w) /\ up[w] \in Seq(UpMsg)
  BY TrackedSeqs DEF Tracked, ackNewconn, Hears
<1>1. /\ m.c \in Conns /\ h \in DOMAIN hs /\ m.ok \in BOOLEAN /\ m \in UpMsg /\ hs' = [hs EXCEPT ![h] = G]
      /\ open' = IF m.ok THEN open \ {m.c} ELSE open
  BY <1>0, AckIs
<1>2. PICK S : SendAll(S) /\ Passes(S, T, G.conns)
  <2>1. m = Head(up[w]) /\ G = handoff(AckedTo(m), w) /\ T = IF m.ok THEN hs[m.h].conns ELSE Append(hs[m.h].conns, m.c)
    OBVIOUS
  <2> HIDE DEF m, G, T
  <2> QED BY <2>1, ackPasses
<1>3. hs[h].conns \in Seq(Conns)
  BY <1>0, <1>1, BaseFields, HandleFields DEF Fit
<1>4. T = IF m.ok THEN hs[h].conns ELSE Append(hs[h].conns, m.c)
  OBVIOUS
<1>5. Head(up[w]) = m
  OBVIOUS
<1> HIDE DEF m, h, G, T
<1>6. CASE m.c # c
  <2>1. QuietUp(c)
    BY <1>0, <1>5, <1>6, UpSkips
  <2>2. T \in Seq(Conns) /\ Same(hs[h].conns, T, {c})
    BY <1>1, <1>3, <1>4, <1>6, AppendHas, SameIs
  <2>3. c \in open' => c \in open
    BY <1>1
  <2> QED BY <1>0, <1>1, <1>2, <2>1, <2>2, <2>3, PassSound
<1>7. CASE m.c = c /\ m.ok
  <2>1. c \notin open' /\ T = hs[h].conns
    BY <1>1, <1>4, <1>7
  <2> QED BY <1>0, <1>1, <1>2, <1>5, <1>7, <2>1, acceptedSound
<1>8. CASE m.c = c /\ ~m.ok
  <2>1. m \in Of(c) /\ m \in Back(c)
    BY <1>1, <1>8 DEF Of, Back
  <2>2. Has(up[w], Of(c)) /\ Has(up[w], Back(c))
    BY <1>0, <1>5, <2>1, HasTail
  <2>3. /\ NoQueue(c) /\ NoDown(c) /\ \A v \in Workers : v # w => ~Has(up[v], Of(c))
        /\ served[c] = {} /\ c \in seen /\ Once(up[w], Of(c))
    BY <2>2, WasReturned
  <2>4. NoUp(c)'
    <3>1. up'[w] = Tail(up[w]) /\ \A v \in Workers : v # w => up'[v] = up[v]
      BY <1>0, TakeSame
    <3>2. ~Has(up'[w], Of(c))
      BY <1>0, <1>5, <2>1, <2>3, <3>1, HasTail
    <3> QED BY <2>3, <3>1, <3>2 DEF NoUp
  <2>5. T = Append(hs[h].conns, c)
    BY <1>4, <1>8
  <2> QED BY <1>0, <1>1, <1>2, <2>3, <2>4, <2>5, EnterSound
<1> QED BY <1>1, <1>6, <1>7, <1>8

(* A worker takes a connection, or sends it back. *)
LEMMA onconnectionSound ==
  ASSUME Tracked, Next, NEW w \in Workers, onconnection(w), NEW c \in Conns, Sound(c)
  PROVE  Sound(c)'
<1> DEFINE d == Head(down[w])
           ok == Accepts(w)
           m == ConnMsg("ackNewconn", d.c, d.h, ok)
           q == <<m>>
<1>0. Base /\ UNCHANGED <<hs, open, sent, seen>> /\ down[w] # <<>> /\ down' = Take(down, w) /\ Tell(w, q)
      /\ down[w] \in Seq(DownMsg) /\ up[w] \in Seq(UpMsg)
  BY TrackedSeqs DEF Tracked, onconnection, Gets, primary
<1>1. d.c \in Conns /\ d.h \in DOMAIN hs /\ d \in DownMsg
  BY <1>0, newconnIs DEF onconnection
<1>2. ok \in BOOLEAN
  BY DEF Accepts
<1>3. m \in UpMsg /\ m.c = d.c /\ m.ok = ok
  <2>1. d.h \in Nat
    BY <1>0, <1>1, BaseFields
  <2> QED BY <1>1, <1>2, <2>1 DEF ConnMsg, UpMsg, UpActs
<1>4. /\ ok => served' = [served EXCEPT ![d.c] = @ \cup {w}]
      /\ ~ok => served' = served
  BY DEF onconnection
<1>5. served \in [Conns -> SUBSET Workers]
  BY <1>0, BaseFields
<1> HIDE DEF ok, m
<1>6. q \in Seq(UpMsg)
  BY <1>3
<1>7. /\ up'[w] = up[w] \o q /\ \A v \in Workers : v # w => up'[v] = up[v]
      /\ down'[w] = Tail(down[w]) /\ \A v \in Workers : v # w => down'[v] = down[v]
  BY <1>0, TellSame, TakeSame
<1>8. \A M : (Has(q, M) <=> m \in M) /\ Once(q, M)
  BY HasOne
<1>9. Head(down[w]) = d
  OBVIOUS
<1> HIDE DEF d, q
<1>10. CASE d.c # c
  <2>1. QuietDown(c)
    BY <1>0, <1>9, <1>10, DownSkips
  <2>2. ~Has(q, Of(c)) /\ ~Has(q, Back(c))
    BY <1>3, <1>8, <1>10 DEF Of, Back
  <2>3. Same(up[w], up'[w], Of(c)) /\ Same(up[w], up'[w], Back(c))
    BY <1>0, <1>6, <1>7, <2>2, SameTold
  <2>4. QuietUp(c)
    BY <1>7, <2>3, SameIs DEF QuietUp
  <2>5. QuietHandles(c)
    BY <1>0, HandlesStill
  <2>6. served'[c] = served[c]
    BY <1>4, <1>5, <1>10
  <2> QED BY <1>0, <2>1, <2>4, <2>5, <2>6, QuietSound, LeftStays
<1>11. CASE d.c = c
  <2>1. d \in Of(c) /\ m \in Of(c) /\ (m \in Back(c) <=> ~ok)
    BY <1>1, <1>3, <1>11 DEF Of, Back
  <2>2. Has(down[w], Of(c))
    BY <1>0, <1>9, <2>1, HasTail
  <2>3. /\ NoQueue(c) /\ NoUp(c) /\ \A v \in Workers : v # w => ~Has(down[v], Of(c))
        /\ served[c] = {} /\ c \in seen /\ Once(down[w], Of(c))
    BY <2>2, WasSent
  <2>4. NoDown(c)'
    <3>1. ~Has(down'[w], Of(c))
      BY <1>0, <1>7, <1>9, <2>1, <2>3, HasTail
    <3> QED BY <1>7, <2>3, <3>1 DEF NoDown
  <2>5. NoQueue(c)'
    BY <1>0, <2>3 DEF NoQueue
  <2>6. ~Has(up[w], Of(c)) /\ ~Has(up[w], Back(c)) /\ Once(up[w], Of(c))
    BY <2>3, BackOf, LacksOnce DEF NoUp
  <2>7. Has(up'[w], Of(c)) /\ Once(up'[w], Of(c))
    BY <1>0, <1>6, <1>7, <1>8, <2>1, <2>6, HasCat
  <2>8. Has(up'[w], Back(c)) => m \in Back(c)
    BY <1>0, <1>6, <1>7, <1>8, <2>6, HasCat
  <2>9. served'[c] \subseteq {w} /\ (~ok => served'[c] = {})
    BY <1>2, <1>4, <1>5, <1>11, <2>3
  <2>10. \A v \in Workers : v # w => ~Has(up'[v], Of(c))
    BY <1>7, <2>3 DEF NoUp
  <2>11. c \in seen'
    BY <1>0, <2>3
  <2>12. Has(up'[w], Back(c)) => served'[c] = {}
    BY <2>1, <2>8, <2>9
  <2> QED BY <2>4, <2>5, <2>7, <2>9, <2>10, <2>11, <2>12, SettleUp
<1> QED BY <1>10, <1>11

-----------------------------------------------------------------------------
Flow == Tracked /\ AllForked /\ Kinds /\ \A c \in Conns : Sound(c)

LEMMA InitFlow == Init => Flow
<1> SUFFICES ASSUME Init PROVE Flow
  OBVIOUS
<1>1. Tracked
  BY InitTracked
<1>2. hs = <<>> /\ DOMAIN hs = {} /\ seen = {} /\ open = {}
  BY DEF Init
<1>3. \A w \in Workers : up[w] = <<>> /\ down[w] = <<>>
  BY DEF Init
<1>4. AllForked /\ Kinds
  BY <1>2 DEF AllForked, Kinds
<1>5. ASSUME NEW c \in Conns PROVE Sound(c)
  <2>1. served[c] = {}
    BY DEF Init
  <2>2. \A M : ~Has(<<>>, M) /\ Once(<<>>, M)
    BY DEF Has, Once
  <2>3. NoQueue(c) /\ NoDown(c) /\ NoUp(c)
    BY <1>2, <1>3, <2>2 DEF NoQueue, NoDown, NoUp
  <2>4. (\A h : ~Queues(c, h)) /\ (\A w : ~Goes(c, w)) /\ (\A w : ~Returns(c, w) /\ ~SentBack(c, w))
    BY <2>3, Nowhere
  <2>5. Lone(c)
    BY <2>4 DEF Lone
  <2>6. Tidy(c)
    BY <1>2, <1>3, <2>2 DEF Tidy
  <2>7. ~Somewhere(c) /\ ~Unaccepted(c)
    BY <2>4 DEF Somewhere, Unaccepted
  <2> QED BY <1>2, <2>1, <2>5, <2>6, <2>7 DEF Sound
<1> QED BY <1>1, <1>4, <1>5 DEF Flow

LEMMA StutterFlow ==
  ASSUME Flow, Tracked', UNCHANGED vars
  PROVE  Flow'
<1>1. AllForked' /\ Kinds'
  BY DEF Flow, AllForked, Kinds, Forked, vars
<1>2. ASSUME NEW c \in Conns PROVE Sound(c)'
  <2>1. Sound(c)
    BY DEF Flow
  <2>2. QuietUp(c) /\ QuietDown(c) /\ QuietHandles(c)
    BY UpStill, DownStill, HandlesStill DEF vars
  <2>3. LeftWith(c) => LeftWith(c)'
    BY DEF LeftWith, Forked, vars
  <2>4. served' = served /\ seen' = seen /\ sent' = sent /\ open' = open
    BY DEF vars
  <2> QED BY <2>1, <2>2, <2>3, <2>4, QuietSound
<1> QED BY <1>1, <1>2 DEF Flow

LEMMA querySound ==
  ASSUME Flow, Next, NEW w \in Workers, queryServer(w), NEW c \in Conns
  PROVE  Sound(c)'
<1>1. PICK G : JoinBound(w, G) \/ JoinBinding(w, G) \/ Opens(w, G) \/ OpenFails(w, G) \/ OpenBinds(w, G)
  BY queryCases
<1>2. Tracked /\ Kinds /\ \A d \in Conns : Sound(d)
  BY DEF Flow
<1>3. CASE JoinBound(w, G)
  BY <1>2, <1>3, joinSound
<1>4. CASE JoinBinding(w, G) \/ Opens(w, G) \/ OpenFails(w, G) \/ OpenBinds(w, G)
  BY <1>2, <1>4, queryQuiet
<1> QED BY <1>1, <1>3, <1>4

LEMMA NextSound ==
  ASSUME Flow, Next, NEW c \in Conns
  PROVE  Sound(c)'
<1>0. Tracked /\ AllForked /\ Sound(c)
  BY DEF Flow
<1>1. ASSUME NEW w \in Workers, fork(w) PROVE Sound(c)'
  BY <1>0, <1>1, forkSound
<1>2. ASSUME NEW w \in Workers, close(w) \/ disconnectEvent(w) \/ exitEvent(w) \/ primaryDisconnect(w)
      PROVE  Sound(c)'
  BY <1>0, <1>2, removeSound
<1>3. ASSUME NEW w \in Workers,
             online(w) \/ listening(w) \/ queryServerIgnored(w) \/ silentDisconnect(w) \/ exitedAfterDisconnect(w)
      PROVE  Sound(c)'
  BY <1>0, <1>3, heardSound
<1>4. ASSUME NEW w \in Workers, queryServer(w) PROVE Sound(c)'
  BY <1>4, querySound
<1>5. ASSUME NEW w \in Workers, ackNewconn(w) PROVE Sound(c)'
  BY <1>0, <1>5, ackSound
<1>6. ASSUME NEW w \in Workers, onconnection(w) PROVE Sound(c)'
  BY <1>0, <1>6, onconnectionSound
<1>7. ASSUME NEW w \in Workers,
             \/ reply(w) \/ disconnectMessage(w) \/ ackExited(w) \/ waitingDone(w) \/ orphaned(w) \/ exit(w)
             \/ listen(w) \/ closeServer(w) \/ workerDisconnect(w) \/ workerDestroy(w) \/ crash(w)
             \/ \E x \in Conns : endConn(w, x)
      PROVE  Sound(c)'
  BY <1>0, <1>7, workerSound
<1>8. ASSUME NEW h \in DOMAIN hs, Bind(h) PROVE Sound(c)'
  BY <1>0, <1>8, bindSound
<1>9. ASSUME NEW d \in Conns, connection(d) PROVE Sound(c)'
  BY <1>0, <1>9, connectionSound
<1>10. ASSUME NEW w \in Workers, Hear(w) PROVE Sound(c)'
  BY <1>2, <1>3, <1>4, <1>5, <1>10 DEF Hear
<1>11. ASSUME NEW w \in Workers, Get(w) PROVE Sound(c)'
  BY <1>6, <1>7, <1>11 DEF Get
<1> QED BY <1>1, <1>2, <1>7, <1>8, <1>9, <1>10, <1>11 DEF Next

LEMMA NextFlow == Flow /\ [Next]_vars => Flow'
<1> SUFFICES ASSUME Flow, [Next]_vars PROVE Flow'
  OBVIOUS
<1>1. Tracked'
  BY NextTracked DEF Flow
<1>2. CASE Next
  <2>1. AllForked' /\ Kinds'
    BY <1>2, NextForked, NextKinds DEF Flow
  <2>2. \A c \in Conns : Sound(c)'
    BY <1>2, NextSound
  <2> QED BY <1>1, <2>1, <2>2 DEF Flow
<1>3. CASE UNCHANGED vars
  BY <1>1, <1>3, StutterFlow
<1> QED BY <1>2, <1>3

LEMMA FlowHolds == Spec => []Flow
<1>1. Init => Flow
  BY InitFlow
<1>2. Flow /\ [Next]_vars => Flow'
  BY NextFlow
<1> QED BY <1>1, <1>2, PTL DEF Spec

LEMMA FlowAccounted == Flow => ConnsAccounted
<1> SUFFICES ASSUME Flow PROVE ConnsAccounted
  OBVIOUS
<1>0. Base /\ \A c \in Conns : Sound(c)
  BY DEF Flow, Tracked
<1>1. ServedOnce
  <2>1. ASSUME NEW c \in Conns PROVE Cardinality(served[c]) <= 1
    <3>1. \A v, w \in served[c] : v = w
      BY <1>0 DEF Sound
    <3>2. CASE served[c] = {}
      BY <3>2, FS_EmptySet
    <3>3. ASSUME NEW x \in served[c] PROVE Cardinality(served[c]) <= 1
      <4>1. served[c] = {x}
        BY <3>1, <3>3
      <4>2. Cardinality({x}) = 1
        BY FS_Singleton
      <4> QED BY <4>1, <4>2
    <3> QED BY <3>2, <3>3
  <2> QED BY <2>1 DEF ServedOnce
<1>2. NothingLost
  <2>1. ASSUME NEW c \in open PROVE Queued(c) \/ Underway(c) \/ ~proc[sent[c]].connected
    <3>1. c \in Conns /\ Sound(c)
      BY <1>0, BaseFields
    <3>2. Somewhere(c) \/ LeftWith(c)
      BY <2>1, <3>1 DEF Sound
    <3>3. ASSUME NEW h, Queues(c, h) PROVE Queued(c)
      <4>1. h \in DOMAIN hs /\ hs[h].conns \in Seq(Conns) /\ In(hs[h].conns, c)
        BY <1>0, <3>3, BaseFields, HandleFields DEF Queues, Fit, Has, In
      <4>2. c \in ToSet(hs[h].conns)
        BY <4>1, InIs
      <4> QED BY <4>1, <4>2 DEF Queued
    <3>4. ASSUME NEW w, Goes(c, w) PROVE Underway(c)
      <4>1. w \in Workers /\ \E i \in 1 .. Len(down[w]) : down[w][i].c = c
        BY <3>4 DEF Goes, Has, Of
      <4>2. PICK i \in 1 .. Len(down[w]) : down[w][i].c = c
        BY <4>1
      <4>3. down[w][i] \in ToSet(down[w])
        <5>1. down[w] \in Seq(DownMsg)
          BY <1>0, <4>1, BaseFields
        <5>2. i \in DOMAIN down[w]
          BY <4>2, <5>1
        <5> QED BY <5>2, InSet
      <4> QED BY <4>1, <4>2, <4>3 DEF Underway
    <3>5. ASSUME NEW w, Returns(c, w) PROVE Underway(c)
      <4>1. w \in Workers /\ \E i \in 1 .. Len(up[w]) : up[w][i].c = c
        BY <3>5 DEF Returns, Has, Of
      <4>2. PICK i \in 1 .. Len(up[w]) : up[w][i].c = c
        BY <4>1
      <4>3. up[w][i] \in ToSet(up[w])
        <5>1. up[w] \in Seq(UpMsg)
          BY <1>0, <4>1, BaseFields
        <5>2. i \in DOMAIN up[w]
          BY <4>2, <5>1
        <5> QED BY <5>2, InSet
      <4> QED BY <4>1, <4>2, <4>3 DEF Underway
    <3>6. Somewhere(c) => Queued(c) \/ Underway(c)
      BY <3>3, <3>4, <3>5 DEF Somewhere
    <3> QED BY <3>2, <3>6 DEF LeftWith
  <2> QED BY <2>1 DEF NothingLost
<1> QED BY <1>1, <1>2 DEF ConnsAccounted

(* A connection is accepted by one worker at most; one that the primary has accepted and *)
(* not closed waits in a handle or is under way to a worker or back, unless the worker   *)
(* it was sent to has left: through refusals, late answers and the death of workers.     *)
THEOREM ConnsAccountedHolds == Spec => []ConnsAccounted
<1>1. Flow => ConnsAccounted
  BY FlowAccounted
<1> QED BY <1>1, FlowHolds, PTL
=============================================================================
