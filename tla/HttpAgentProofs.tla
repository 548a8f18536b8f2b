--------------------------- MODULE HttpAgentProofs ---------------------------
(***************************************************************************)
(* Proofs about the connection pool of the HTTP client.                    *)
(*                                                                         *)
(* The handlers of the agent are functions that call each other, and so    *)
(* are the proofs laid out: for each handler a lemma says which fields it  *)
(* changes, and another that it takes a sound agent to a sound one.  In    *)
(* the middle of a handler the agent is sound but for the sockets that the *)
(* handler has in hand (X) and those it has uncounted (k); between two     *)
(* events there are none, which is the inductive invariant Inv.            *)
(*                                                                         *)
(* The limits are about steps, so each handler has a third lemma, which    *)
(* compares the sizes of the pools before and after it.                    *)
(***************************************************************************)
EXTENDS HttpAgent, SequenceTheorems, FiniteSetTheorems, WellFoundedInduction, TLAPS

(* A set of naturals that is not empty has a least element. *)
LEMMA LeastNat ==
  ASSUME NEW T \in SUBSET Nat, T # {}
  PROVE  \E n \in T : \A m \in T : n <= m
<1> DEFINE R == OpToRel(<, Nat)
<1>1. IsWellFoundedOn(R, Nat)
  BY NatLessThanWellFounded
<1>3. \A x, y \in Nat : y < x => <<y, x>> \in R
  BY DEF OpToRel
<1> HIDE DEF R
<1>2. \E x \in T : \A y \in T : ~ (<<y, x>> \in R)
  BY <1>1, WFMin
<1>4. PICK x \in T : \A y \in T : ~ (<<y, x>> \in R)
  BY <1>2, Zenon
<1>5. x \in Nat /\ \A y \in T : y \in Nat
  OBVIOUS
<1>6. \A y \in T : ~(y < x)
  BY <1>3, <1>4, <1>5, Zenon
<1> QED BY <1>5, <1>6

(* q without its element i. *)
Without(w, q, i) ==
  Len(w) = Len(q) - 1 /\ \A j \in 1 .. Len(q) - 1 : w[j] = IF j < i THEN q[j] ELSE q[j + 1]

(* removeFirst of a sequence that has e: one element e is left out. *)
LEMMA RemoveFirstIs ==
  ASSUME NEW S, NEW q \in Seq(S), NEW e, NEW k \in 1 .. Len(q), q[k] = e
  PROVE  /\ RemoveFirst(q, e) \in Seq(S)
         /\ \E i \in 1 .. Len(q) : q[i] = e /\ Without(RemoveFirst(q, e), q, i)
<1> DEFINE I == {i \in 1 .. Len(q) : q[i] = e}
<1>1. I \in SUBSET Nat /\ I # {}
  OBVIOUS
<1>2. \E n \in I : \A m \in I : n <= m
  <2> HIDE DEF I
  <2> QED BY <1>1, LeastNat
<1>3. Min(I) \in I
  BY <1>2 DEF Min
<1>4. RemoveFirst(q, e) = SubSeq(q, 1, Min(I) - 1) \o SubSeq(q, Min(I) + 1, Len(q))
  BY <1>1 DEF RemoveFirst, RemoveAt, SelectInSeq
<1> DEFINE i == Min(I)
<1>5. i \in 1 .. Len(q) /\ q[i] = e
  BY <1>3
<1> HIDE DEF i, I
<1>6. /\ SubSeq(q, 1, i - 1) \in Seq(S) /\ Len(SubSeq(q, 1, i - 1)) = i - 1
      /\ SubSeq(q, i + 1, Len(q)) \in Seq(S) /\ Len(SubSeq(q, i + 1, Len(q))) = Len(q) - i
      /\ \A j \in 1 .. i - 1 : SubSeq(q, 1, i - 1)[j] = q[j]
      /\ \A j \in 1 .. Len(q) - i : SubSeq(q, i + 1, Len(q))[j] = q[i + j]
  BY <1>5
<1>7. RemoveFirst(q, e) = SubSeq(q, 1, i - 1) \o SubSeq(q, i + 1, Len(q))
  BY <1>4 DEF i
<1> DEFINE a == SubSeq(q, 1, i - 1)
           b == SubSeq(q, i + 1, Len(q))
<1> HIDE DEF a, b
<1>8. /\ a \in Seq(S) /\ Len(a) = i - 1 /\ b \in Seq(S) /\ Len(b) = Len(q) - i
      /\ \A j \in 1 .. i - 1 : a[j] = q[j]
      /\ \A j \in 1 .. Len(q) - i : b[j] = q[i + j]
      /\ RemoveFirst(q, e) = a \o b
  BY <1>6, <1>7 DEF a, b
<1>9. /\ a \o b \in Seq(S) /\ Len(a \o b) = Len(a) + Len(b)
      /\ \A j \in 1 .. Len(a) + Len(b) : (a \o b)[j] = IF j <= Len(a) THEN a[j] ELSE b[j - Len(a)]
  BY <1>8, ConcatProperties, Zenon
<1>10. /\ Len(a \o b) = Len(q) - 1
       /\ \A j \in 1 .. Len(q) - 1 : (a \o b)[j] = IF j < i THEN q[j] ELSE q[j + 1]
  BY <1>5, <1>8, <1>9
<1> QED BY <1>5, <1>8, <1>9, <1>10 DEF Without

(* Membership in a sequence, and a sequence without repetition. *)
In(q, t) == \E i \in 1 .. Len(q) : q[i] = t
Distinct(q) == \A i, j \in 1 .. Len(q) : q[i] = q[j] => i = j

(* Of a sequence without repetition it leaves out e, and only e. *)
LEMMA RemoveFirstSet ==
  ASSUME NEW S, NEW q \in Seq(S), NEW e, Distinct(q), NEW y, y = RemoveFirst(q, e)
  PROVE  /\ y \in Seq(S) /\ Distinct(y)
         /\ \A p : In(y, p) <=> In(q, p) /\ p # e
         /\ Len(y) = IF In(q, e) THEN Len(q) - 1 ELSE Len(q)
<1>1. CASE ~In(q, e)
  <2>1. y = q
    BY <1>1 DEF RemoveFirst, In
  <2> QED BY <1>1, <2>1 DEF In
<1>2. CASE In(q, e)
  <2>1. PICK k \in 1 .. Len(q) : q[k] = e
    BY <1>2 DEF In
  <2>2. y \in Seq(S) /\ \E j \in 1 .. Len(q) : q[j] = e /\ Without(y, q, j)
    BY <2>1, RemoveFirstIs
  <2>3. PICK j \in 1 .. Len(q) : q[j] = e /\ Without(y, q, j)
    BY <2>2
  <2>4. /\ Len(y) = Len(q) - 1 /\ Len(q) \in Nat /\ j \in 1 .. Len(q) /\ q[j] = e
        /\ \A m \in 1 .. Len(q) - 1 : y[m] = IF m < j THEN q[m] ELSE q[m + 1]
    BY <2>3 DEF Without
  <2>5. \A m, n \in 1 .. Len(q) : q[m] = q[n] => m = n
    BY DEF Distinct
  <2>6. ASSUME NEW p, p # e, NEW m \in 1 .. Len(q), q[m] = p
        PROVE  \E n \in 1 .. Len(y) : y[n] = p
    <3>1. CASE m < j
      BY <2>4, <2>6, <3>1
    <3>2. CASE ~(m < j)
      <4>1. m # j
        BY <2>4, <2>6
      <4>2. m - 1 \in 1 .. Len(y) /\ ~(m - 1 < j)
        BY <2>4, <3>2, <4>1
      <4>3. y[m - 1] = q[(m - 1) + 1]
        BY <2>4, <4>2
      <4> QED BY <2>4, <2>6, <4>2, <4>3
    <3> QED BY <3>1, <3>2
  <2>7. ASSUME NEW p, NEW m \in 1 .. Len(y), y[m] = p
        PROVE  p # e /\ \E n \in 1 .. Len(q) : q[n] = p
    <3>1. CASE m < j
      BY <2>4, <2>5, <2>7, <3>1
    <3>2. CASE ~(m < j)
      BY <2>4, <2>5, <2>7, <3>2
    <3> QED BY <3>1, <3>2
  <2>8. \A m, n \in 1 .. Len(y) : y[m] = y[n] => m = n
    BY <2>4, <2>5
  <2>9. Distinct(y)
    BY <2>8 DEF Distinct
  <2>10. ASSUME NEW p PROVE In(y, p) <=> In(q, p) /\ p # e
    BY <2>6, <2>7 DEF In
  <2> QED BY <1>2, <2>2, <2>4, <2>9, <2>10
<1> QED BY <1>1, <1>2

(* What push() makes of an array. *)
Appended(w, q, e) ==
  /\ Len(w) = Len(q) + 1
  /\ \A t : In(w, t) <=> In(q, t) \/ t = e
  /\ Distinct(q) /\ ~In(q, e) => Distinct(w)

(* push() puts e in the array, once when it was not there. *)
LEMMA AppendIn ==
  ASSUME NEW S, NEW q \in Seq(S), NEW e \in S, NEW w, w = Append(q, e)
  PROVE  w \in Seq(S) /\ Appended(w, q, e)
<1> DEFINE n == Len(q)
<1>1. /\ w \in Seq(S) /\ Len(w) = n + 1 /\ n \in Nat
      /\ \A i \in 1 .. n : w[i] = q[i]
      /\ w[n + 1] = e
  BY AppendProperties
<1>2. \A t : In(q, t) <=> \E i \in 1 .. n : q[i] = t
  BY DEF In
<1>3. Distinct(q) <=> \A i, j \in 1 .. n : q[i] = q[j] => i = j
  BY DEF Distinct
<1> HIDE DEF n
<1>4. \A i : i \in 1 .. n + 1 <=> i \in 1 .. n \/ i = n + 1
  BY <1>1
<1>5. ASSUME NEW t PROVE In(w, t) <=> In(q, t) \/ t = e
  <2>1. In(w, t) <=> \E i \in 1 .. n + 1 : w[i] = t
    BY <1>1 DEF In
  <2> QED BY <1>1, <1>2, <1>4, <2>1
<1>6. ASSUME Distinct(q), ~In(q, e) PROVE Distinct(w)
  <2>1. SUFFICES ASSUME NEW i \in 1 .. n + 1, NEW j \in 1 .. n + 1, w[i] = w[j] PROVE i = j
    BY <1>1 DEF Distinct
  <2>2. \A m \in 1 .. n : q[m] # e
    BY <1>2, <1>6
  <2> QED BY <1>1, <1>3, <1>4, <1>6, <2>1, <2>2
<1> QED BY <1>1, <1>5, <1>6 DEF n, Appended

(* The sockets whose 'close' has not come, and the types of the agent. *)
Used(G) == {s \in Sockets : G.sock[s] # "none"}
TickRec == [t : {"onSocket", "free"}, r : Reqs, s : Sockets \cup {None}]
SockState == {"none", "open", "ended", "destroyed"}

AgentRec ==
  [requests : [Origins -> Seq(Reqs)], keys : Seq(Origins), options : SUBSET Reqs,
   sockets : [Origins -> SUBSET Sockets], free : [Origins -> Seq(Sockets)], total : Int,
   sock : [Sockets -> SockState], origin : [Sockets -> Origins \cup {None}],
   message : [Sockets -> Reqs \cup {None}], waiter : [Sockets -> Reqs \cup {None}],
   attached : SUBSET Sockets, ticks : Seq(TickRec), creating : [Tunnels -> Nat]]

(* totalSocketCount, when k sockets have been uncounted and are not yet gone. *)
Counted(G, k) == G.total + k = Cardinality(Used(G))

(* A socket of freeSockets, and one that a tick is to give to a request. *)
InFree(G, s) == \E o \in Origins : In(G.free[o], s)
InTick(G, s) == \E i \in 1 .. Len(G.ticks) : G.ticks[i].s = s

(* The keys of this.requests are the origins whose queue is not empty. *)
KeysOK(G) ==
  /\ \A o \in Origins : G.requests[o] # <<>> <=> In(G.keys, o)
  /\ Distinct(G.keys)

(* this.sockets and this.freeSockets: a socket is in one of them and of its own *)
(* origin, but for those of X, which a handler has taken out and will put back. *)
(* An origin where a request waits has no free socket.                          *)
PoolsOK(G, X) ==
  /\ \A s \in Sockets : G.sock[s] # "none" => G.origin[s] \in Origins
  /\ \A o \in Origins : \A s \in G.sockets[o] : G.origin[s] = o /\ G.sock[s] # "none"
  /\ \A o \in Origins : \A i \in 1 .. Len(G.free[o]) :
       /\ G.origin[G.free[o][i]] = o /\ G.sock[G.free[o][i]] # "none"
       /\ G.free[o][i] \notin G.sockets[o]
  /\ \A o \in Origins : Distinct(G.free[o])
  /\ \A s \in Sockets \ X :
       G.sock[s] \in {"open", "ended"} => s \in G.sockets[G.origin[s]] \/ InFree(G, s)
  /\ \A o \in Origins : G.requests[o] # <<>> => G.free[o] = <<>>

(* A socket has one user: a tick, or a request whose listeners are attached. *)
UsersOK(G) ==
  /\ \A i \in 1 .. Len(G.ticks) : G.ticks[i].s # None =>
       G.sock[G.ticks[i].s] # "none" /\ ~InFree(G, G.ticks[i].s) /\ G.ticks[i].s \notin G.attached
  /\ \A i, j \in 1 .. Len(G.ticks) : G.ticks[i].s = G.ticks[j].s /\ G.ticks[i].s # None => i = j
  /\ \A i \in 1 .. Len(G.ticks) : G.ticks[i].t = "free" => G.ticks[i].s # None
  /\ \A s \in G.attached : G.sock[s] # "none" /\ ~InFree(G, s) /\ G.message[s] # None

(* The sockets that a handler has taken out of the pools. *)
Between(G, X) ==
  \A x \in X : /\ x \in Sockets /\ G.sock[x] # "none" /\ ~InFree(G, x) /\ ~InTick(G, x)
              /\ \A o \in Origins : x \notin G.sockets[o]

(* The agent in the middle of a handler that has the sockets X in hand and has *)
(* uncounted k of them.  Between two events X is empty and k is 0.             *)
Sound(G, X, k) ==
  G \in AgentRec /\ Counted(G, k) /\ KeysOK(G) /\ PoolsOK(G, X) /\ UsersOK(G) /\ Between(G, X)

(* A socket that a handler may give to a request. *)
InHand(G, s) ==
  s \in Sockets /\ G.sock[s] # "none" /\ ~InFree(G, s) /\ ~InTick(G, s) /\ s \notin G.attached

(* The types of the fields of the agent. *)
LEMMA AgentFields ==
  ASSUME NEW G \in AgentRec
  PROVE  /\ G.requests \in [Origins -> Seq(Reqs)] /\ G.keys \in Seq(Origins) /\ G.options \in SUBSET Reqs
         /\ G.sockets \in [Origins -> SUBSET Sockets] /\ G.free \in [Origins -> Seq(Sockets)]
         /\ G.total \in Int /\ G.sock \in [Sockets -> SockState]
         /\ G.origin \in [Sockets -> Origins \cup {None}] /\ G.message \in [Sockets -> Reqs \cup {None}]
         /\ G.waiter \in [Sockets -> Reqs \cup {None}] /\ G.attached \in SUBSET Sockets
         /\ G.ticks \in Seq(TickRec) /\ G.creating \in [Tunnels -> Nat]
BY DEF AgentRec

(* The types of a tick. *)
LEMMA TicksTyped ==
  ASSUME NEW G \in AgentRec, NEW i \in 1 .. Len(G.ticks)
  PROVE  /\ G.ticks[i] \in TickRec /\ G.ticks[i].t \in {"onSocket", "free"}
         /\ G.ticks[i].r \in Reqs /\ G.ticks[i].s \in Sockets \cup {None}
<1>1. G.ticks \in Seq(TickRec)
  BY AgentFields
<1>2. G.ticks[i] \in TickRec
  BY <1>1
<1> QED BY <1>2 DEF TickRec

(* What setRequestSocket() changes. *)
AfterSet(G, r, s, H) ==
  /\ H \in AgentRec
  /\ H.ticks = Append(G.ticks, [t |-> "onSocket", r |-> r, s |-> s])
  /\ H.requests = G.requests /\ H.keys = G.keys /\ H.options = G.options
  /\ H.sockets = G.sockets /\ H.free = G.free /\ H.total = G.total /\ H.sock = G.sock
  /\ H.origin = G.origin /\ H.message = G.message /\ H.waiter = G.waiter
  /\ H.attached = G.attached /\ H.creating = G.creating

(* setRequestSocket() adds a tick and nothing else. *)
LEMMA setRequestSocketFields ==
  ASSUME NEW G \in AgentRec, NEW r \in Reqs, NEW s \in Sockets \cup {None},
         NEW H, H = setRequestSocket(G, r, s)
  PROVE  AfterSet(G, r, s, H)
<1> DEFINE e == [t |-> "onSocket", r |-> r, s |-> s]
<1>1. e \in TickRec
  BY DEF TickRec
<1>2. H = [G EXCEPT !.ticks = Append(@, e)]
  BY DEF setRequestSocket
<1> HIDE DEF e
<1>3. Append(G.ticks, e) \in Seq(TickRec)
  BY <1>1, AgentFields
<1>4. /\ H \in AgentRec
      /\ H.ticks = Append(G.ticks, e)
      /\ H.requests = G.requests /\ H.keys = G.keys /\ H.options = G.options
      /\ H.sockets = G.sockets /\ H.free = G.free /\ H.total = G.total /\ H.sock = G.sock
      /\ H.origin = G.origin /\ H.message = G.message /\ H.waiter = G.waiter
      /\ H.attached = G.attached /\ H.creating = G.creating
  BY <1>2, <1>3 DEF AgentRec
<1> QED BY <1>4 DEF e, AfterSet

(* A tick more: it has no socket, or one that nobody else has. *)
LEMMA TickSound ==
  ASSUME NEW G, NEW X, NEW k, Sound(G, X, k), NEW e \in TickRec,
         e.s = None \/ InHand(G, e.s), e.s \notin X, e.t = "free" => e.s # None,
         NEW H \in AgentRec, H.ticks = Append(G.ticks, e),
         H.requests = G.requests, H.keys = G.keys, H.sockets = G.sockets, H.free = G.free,
         H.total = G.total, H.sock = G.sock, H.origin = G.origin, H.message = G.message,
         H.attached = G.attached
  PROVE  Sound(H, X, k)
<1> USE AgentAssumption
<1>1. G \in AgentRec
  BY DEF Sound
<1>2. /\ H \in AgentRec
      /\ H.ticks = Append(G.ticks, e)
      /\ H.requests = G.requests /\ H.keys = G.keys /\ H.sockets = G.sockets /\ H.free = G.free
      /\ H.total = G.total /\ H.sock = G.sock /\ H.origin = G.origin /\ H.message = G.message
      /\ H.attached = G.attached
  OBVIOUS
<1> DEFINE n == Len(G.ticks)
<1>3. /\ Len(H.ticks) = n + 1 /\ n \in Nat
      /\ \A i \in 1 .. n : H.ticks[i] = G.ticks[i]
      /\ H.ticks[n + 1] = e
  <2>1. G.ticks \in Seq(TickRec)
    BY <1>1, AgentFields
  <2> QED BY <1>2, <2>1, AppendProperties
<1> HIDE DEF n
<1> DEFINE s == e.s
<1>4. \A t : InFree(H, t) <=> InFree(G, t)
  BY <1>2 DEF InFree
<1>5. Counted(H, k) /\ KeysOK(H) /\ PoolsOK(H, X)
  <2>1. Sound(G, X, k) => Counted(G, k) /\ KeysOK(G) /\ PoolsOK(G, X)
    BY DEF Sound
  <2> QED BY <1>2, <1>4, <2>1 DEF Counted, KeysOK, PoolsOK, Used
<1>6. UsersOK(H)
  <2>1. UsersOK(G)
    BY DEF Sound
  <2>2. \A i \in 1 .. n + 1 : i \in 1 .. n \/ i = n + 1
    BY <1>3
  <2>3. \A i \in 1 .. n : H.ticks[i].s = s => s = None
    BY <1>3 DEF InHand, InTick, n
  <2>4. ASSUME NEW i \in 1 .. n + 1, H.ticks[i].s # None
        PROVE  H.sock[H.ticks[i].s] # "none" /\ ~InFree(H, H.ticks[i].s) /\ H.ticks[i].s \notin H.attached
    <3>1. CASE i \in 1 .. n
      BY <1>2, <1>3, <1>4, <2>1, <2>4, <3>1 DEF UsersOK, n
    <3>2. CASE i = n + 1
      BY <1>2, <1>3, <1>4, <2>4, <3>2 DEF InHand
    <3> QED BY <2>2, <3>1, <3>2
  <2>5. ASSUME NEW i \in 1 .. n + 1, NEW j \in 1 .. n + 1, H.ticks[i].s = H.ticks[j].s, H.ticks[i].s # None
        PROVE  i = j
    <3>1. CASE i \in 1 .. n /\ j \in 1 .. n
      BY <1>3, <2>1, <2>5, <3>1 DEF UsersOK, n
    <3> QED BY <1>3, <2>2, <2>3, <2>5, <3>1
  <2>6. \A i \in 1 .. n + 1 : H.ticks[i].t = "free" => H.ticks[i].s # None
    BY <1>3, <2>1, <2>2 DEF UsersOK, n
  <2>7. \A t \in H.attached : H.sock[t] # "none" /\ ~InFree(H, t) /\ H.message[t] # None
    BY <1>2, <1>4, <2>1 DEF UsersOK
  <2> QED BY <1>3, <2>4, <2>5, <2>6, <2>7 DEF UsersOK
<1>7. Between(H, X)
  <2>1. Between(G, X)
    BY DEF Sound
  <2>2. ASSUME NEW x \in X, InTick(G, x) \/ ~InTick(G, x), ~InTick(G, x)
        PROVE  ~InTick(H, x)
    BY <1>3, <2>2 DEF InTick, n
  <2> QED BY <1>2, <1>4, <2>1, <2>2 DEF Between
<1> QED BY <1>2, <1>5, <1>6, <1>7 DEF Sound

(* A socket in hand is given to a request. *)
LEMMA setRequestSocketSound ==
  ASSUME NEW G, NEW X, NEW k, Sound(G, X, k), NEW r \in Reqs, NEW s, s = None \/ InHand(G, s), s \notin X,
         NEW H, H = setRequestSocket(G, r, s)
  PROVE  Sound(H, X, k)
<1>1. G \in AgentRec /\ s \in Sockets \cup {None}
  BY DEF Sound, InHand
<1>2. AfterSet(G, r, s, H)
  BY <1>1, setRequestSocketFields
<1> DEFINE e == [t |-> "onSocket", r |-> r, s |-> s]
<1>3. e \in TickRec /\ e.s = s /\ e.t = "onSocket"
  BY <1>1 DEF TickRec
<1>4. /\ H \in AgentRec /\ H.ticks = Append(G.ticks, e)
      /\ H.requests = G.requests /\ H.keys = G.keys /\ H.sockets = G.sockets /\ H.free = G.free
      /\ H.total = G.total /\ H.sock = G.sock /\ H.origin = G.origin /\ H.message = G.message
      /\ H.attached = G.attached
  BY <1>2 DEF AfterSet
<1> HIDE DEF e
<1>5. (e.s = None \/ InHand(G, e.s)) /\ e.s \notin X /\ (e.t = "free" => e.s # None)
  BY <1>3
<1> QED BY <1>3, <1>4, <1>5, TickSound

(* A step that makes sockets end or be destroyed, and moves none. *)
LEMMA SockOnly ==
  ASSUME NEW G, NEW X, NEW k, Sound(G, X, k), NEW H \in AgentRec,
         H.requests = G.requests, H.keys = G.keys, H.sockets = G.sockets, H.free = G.free,
         H.total = G.total, H.origin = G.origin, H.message = G.message, H.attached = G.attached,
         H.ticks = G.ticks,
         \A t \in Sockets : /\ H.sock[t] = "none" <=> G.sock[t] = "none"
                            /\ H.sock[t] \in {"open", "ended"} => G.sock[t] \in {"open", "ended"}
  PROVE  Sound(H, X, k)
<1>1. /\ G \in AgentRec /\ Counted(G, k) /\ KeysOK(G) /\ PoolsOK(G, X) /\ UsersOK(G)
      /\ Between(G, X)
  BY DEF Sound
<1>2. \A t : (InFree(H, t) <=> InFree(G, t)) /\ (InTick(H, t) <=> InTick(G, t))
  BY DEF InFree, InTick
<1>3. Used(H) = Used(G)
  BY DEF Used
<1>4. Counted(H, k) /\ KeysOK(H)
  BY <1>1, <1>3 DEF Counted, KeysOK
<1>5. G.free \in [Origins -> Seq(Sockets)] /\ G.sockets \in [Origins -> SUBSET Sockets] /\ G.attached \in SUBSET Sockets
  BY <1>1, AgentFields
<1>6. \A o \in Origins : \A i \in 1 .. Len(G.free[o]) : G.free[o][i] \in Sockets
  BY <1>5
<1>7. PoolsOK(H, X)
  <2>1. PoolsOK(G, X)
    BY <1>1
  <2>2. ASSUME NEW s \in Sockets \ X, H.sock[s] \in {"open", "ended"}
        PROVE  s \in H.sockets[H.origin[s]] \/ InFree(H, s)
    <3>1. G.sock[s] \in {"open", "ended"}
      BY <2>2
    <3>2. s \in G.sockets[G.origin[s]] \/ InFree(G, s)
      BY <2>1, <3>1 DEF PoolsOK
    <3> QED BY <1>2, <3>2
  <2>3. ASSUME NEW o \in Origins, NEW i \in 1 .. Len(H.free[o])
        PROVE  /\ H.origin[H.free[o][i]] = o /\ H.sock[H.free[o][i]] # "none"
               /\ H.free[o][i] \notin H.sockets[o]
    <3>1. i \in 1 .. Len(G.free[o])
      BY <2>3
    <3>2. /\ G.origin[G.free[o][i]] = o /\ G.sock[G.free[o][i]] # "none"
          /\ G.free[o][i] \notin G.sockets[o] /\ G.free[o][i] \in Sockets
      BY <1>6, <2>1, <3>1 DEF PoolsOK
    <3>3. H.sock[G.free[o][i]] # "none"
      BY <3>2
    <3> QED BY <3>2, <3>3
  <2>4. ASSUME NEW o \in Origins, NEW s \in H.sockets[o]
        PROVE  H.origin[s] = o /\ H.sock[s] # "none"
    <3>1. s \in Sockets /\ G.origin[s] = o /\ G.sock[s] # "none"
      BY <1>5, <2>1 DEF PoolsOK
    <3> QED BY <3>1
  <2>5. /\ \A s \in Sockets : H.sock[s] # "none" => H.origin[s] \in Origins
        /\ \A o \in Origins : Distinct(H.free[o])
        /\ \A o \in Origins : H.requests[o] # <<>> => H.free[o] = <<>>
    BY <2>1 DEF PoolsOK
  <2> QED BY <2>2, <2>3, <2>4, <2>5 DEF PoolsOK
<1>8. UsersOK(H)
  BY <1>1, <1>2, <1>5, TicksTyped DEF UsersOK
<1>9. Between(H, X)
  BY <1>1, <1>2 DEF Between
<1> QED BY <1>4, <1>7, <1>8, <1>9 DEF Sound

(* What socket.destroy() changes. *)
AfterDestroy(G, s, H) ==
  /\ H \in AgentRec
  /\ H.sock = [G.sock EXCEPT ![s] = IF @ = "none" THEN @ ELSE "destroyed"]
  /\ H.requests = G.requests /\ H.keys = G.keys /\ H.options = G.options
  /\ H.sockets = G.sockets /\ H.free = G.free /\ H.total = G.total
  /\ H.origin = G.origin /\ H.message = G.message /\ H.waiter = G.waiter
  /\ H.attached = G.attached /\ H.ticks = G.ticks /\ H.creating = G.creating

(* socket.destroy() changes the state of the socket and nothing else. *)
LEMMA destroySocketFields ==
  ASSUME NEW G \in AgentRec, NEW s \in Sockets, NEW H, H = destroySocket(G, s)
  PROVE  AfterDestroy(G, s, H)
BY DEF AfterDestroy, AgentRec, destroySocket, SockState

(* A socket is destroyed where it is. *)
LEMMA destroySocketSound ==
  ASSUME NEW G, NEW X, NEW k, Sound(G, X, k), NEW s \in Sockets, NEW H, H = destroySocket(G, s)
  PROVE  Sound(H, X, k)
<1>1. G \in AgentRec
  BY DEF Sound
<1>2. /\ H \in AgentRec
      /\ H.sock = [G.sock EXCEPT ![s] = IF @ = "none" THEN @ ELSE "destroyed"]
      /\ H.requests = G.requests /\ H.keys = G.keys
      /\ H.sockets = G.sockets /\ H.free = G.free /\ H.total = G.total
      /\ H.origin = G.origin /\ H.message = G.message /\ H.attached = G.attached /\ H.ticks = G.ticks
  <2>1. AfterDestroy(G, s, H)
    BY <1>1, destroySocketFields
  <2> QED BY <2>1 DEF AfterDestroy
<1>3. G.sock \in [Sockets -> SockState]
  BY <1>1, AgentFields
<1>4. \A t \in Sockets : /\ H.sock[t] = "none" <=> G.sock[t] = "none"
                         /\ H.sock[t] \in {"open", "ended"} => G.sock[t] \in {"open", "ended"}
  BY <1>2, <1>3
<1> QED BY <1>2, <1>4, SockOnly

(* What taking the first request of a queue changes. *)
AfterShift(G, o, H) ==
  /\ H \in AgentRec
  /\ H.requests = [G.requests EXCEPT ![o] = Tail(@)]
  /\ H.keys = IF Len(G.requests[o]) = 1 THEN RemoveFirst(G.keys, o) ELSE G.keys
  /\ H.options = G.options /\ H.sock = G.sock
  /\ H.sockets = G.sockets /\ H.free = G.free /\ H.total = G.total
  /\ H.origin = G.origin /\ H.message = G.message /\ H.waiter = G.waiter
  /\ H.attached = G.attached /\ H.ticks = G.ticks /\ H.creating = G.creating

(* The first request leaves the queue, and the key goes with the last one. *)
LEMMA ShiftedFields ==
  ASSUME NEW G \in AgentRec, NEW o \in Origins, G.requests[o] # <<>>, KeysOK(G),
         NEW H, H = Shifted(G, o)
  PROVE  AfterShift(G, o, H)
<1> DEFINE q == [G.requests EXCEPT ![o] = Tail(@)]
           ks == IF Len(G.requests[o]) = 1 THEN RemoveFirst(G.keys, o) ELSE G.keys
<1>1. G.requests \in [Origins -> Seq(Reqs)] /\ G.keys \in Seq(Origins)
  BY AgentFields
<1>2. G.requests[o] \in Seq(Reqs) /\ Tail(G.requests[o]) \in Seq(Reqs)
  BY <1>1, HeadTailProperties
<1>3. q \in [Origins -> Seq(Reqs)]
  BY <1>1, <1>2
<1>4. ks \in Seq(Origins)
  <2>1. Distinct(G.keys)
    BY DEF KeysOK
  <2>2. RemoveFirst(G.keys, o) \in Seq(Origins)
    BY <1>1, <2>1, RemoveFirstSet
  <2> QED BY <1>1, <2>2
<1>5. H = [G EXCEPT !.requests = q, !.keys = ks]
  BY DEF Shifted
<1> HIDE DEF q, ks
<1>6. /\ H \in AgentRec /\ H.requests = q /\ H.keys = ks
      /\ H.options = G.options /\ H.sock = G.sock
      /\ H.sockets = G.sockets /\ H.free = G.free /\ H.total = G.total
      /\ H.origin = G.origin /\ H.message = G.message /\ H.waiter = G.waiter
      /\ H.attached = G.attached /\ H.ticks = G.ticks /\ H.creating = G.creating
  BY <1>3, <1>4, <1>5 DEF AgentRec
<1> QED BY <1>6 DEF q, ks, AfterShift

(* The first request leaves the queue. *)
LEMMA ShiftedSound ==
  ASSUME NEW G, NEW X, NEW k, Sound(G, X, k), NEW o \in Origins, G.requests[o] # <<>>,
         NEW H, H = Shifted(G, o)
  PROVE  Sound(H, X, k) /\ Head(G.requests[o]) \in Reqs
<1>1. /\ G \in AgentRec /\ Counted(G, k) /\ KeysOK(G) /\ PoolsOK(G, X) /\ UsersOK(G)
      /\ Between(G, X)
  BY DEF Sound
<1>2. /\ H \in AgentRec
      /\ H.requests = [G.requests EXCEPT ![o] = Tail(@)]
      /\ H.keys = IF Len(G.requests[o]) = 1 THEN RemoveFirst(G.keys, o) ELSE G.keys
      /\ H.sock = G.sock /\ H.sockets = G.sockets /\ H.free = G.free /\ H.total = G.total
      /\ H.origin = G.origin /\ H.message = G.message
      /\ H.attached = G.attached /\ H.ticks = G.ticks
  <2>1. AfterShift(G, o, H)
    BY <1>1, ShiftedFields
  <2> QED BY <2>1 DEF AfterShift
<1>3. G.requests \in [Origins -> Seq(Reqs)] /\ G.keys \in Seq(Origins) /\ G.requests[o] \in Seq(Reqs)
  BY <1>1, AgentFields
<1>4. /\ Head(G.requests[o]) \in Reqs /\ Len(Tail(G.requests[o])) = Len(G.requests[o]) - 1
      /\ Tail(G.requests[o]) \in Seq(Reqs)
  BY <1>3, HeadTailProperties
<1>5. \A t : (InFree(H, t) <=> InFree(G, t)) /\ (InTick(H, t) <=> InTick(G, t))
  BY <1>2 DEF InFree, InTick
<1>6. \A p \in Origins : H.requests[p] # <<>> <=> G.requests[p] # <<>> /\ ~(p = o /\ Len(G.requests[o]) = 1)
  <2>1. \A p \in Origins : p # o => H.requests[p] = G.requests[p]
    BY <1>2, <1>3
  <2>2. H.requests[o] = Tail(G.requests[o])
    BY <1>2, <1>3
  <2>3. Tail(G.requests[o]) = <<>> <=> Len(G.requests[o]) = 1
    <3> DEFINE q == G.requests[o]
               w == Tail(q)
    <3>1. q \in Seq(Reqs) /\ w \in Seq(Reqs) /\ Len(w) = Len(q) - 1
      BY <1>3, <1>4
    <3> HIDE DEF q, w
    <3>2. w = <<>> <=> Len(q) = 1
      BY <3>1, EmptySeq
    <3> QED BY <3>2 DEF q, w
  <2> QED BY <2>1, <2>2, <2>3
<1>7. KeysOK(H)
  <2>1. CASE Len(G.requests[o]) # 1
    BY <1>1, <1>2, <1>6, <2>1 DEF KeysOK
  <2>2. CASE Len(G.requests[o]) = 1
    <3> DEFINE y == RemoveFirst(G.keys, o)
    <3>1. Distinct(G.keys) /\ \A p \in Origins : G.requests[p] # <<>> <=> In(G.keys, p)
      BY <1>1 DEF KeysOK
    <3>2. Distinct(y) /\ \A p : In(y, p) <=> In(G.keys, p) /\ p # o
      BY <1>3, <3>1, RemoveFirstSet
    <3>3. H.keys = y
      BY <1>2, <2>2
    <3> QED BY <1>6, <2>2, <3>1, <3>2, <3>3 DEF KeysOK
  <2> QED BY <2>1, <2>2
<1>8. Counted(H, k)
  BY <1>1, <1>2 DEF Counted, Used
<1>9. PoolsOK(H, X)
  BY <1>1, <1>2, <1>5, <1>6 DEF PoolsOK
<1>10. UsersOK(H) /\ Between(H, X)
  BY <1>1, <1>2, <1>5 DEF UsersOK, Between
<1> QED BY <1>2, <1>4, <1>7, <1>8, <1>9, <1>10 DEF Sound

(* What making a socket leaves as it was. *)
Keeps(G, H) ==
  /\ H.free = G.free /\ H.attached = G.attached /\ H.waiter = G.waiter
  /\ \A t \in Sockets : G.sock[t] # "none" =>
       H.sock[t] = G.sock[t] /\ H.origin[t] = G.origin[t] /\ H.message[t] = G.message[t]
  /\ \A o \in Origins : G.requests[o] = <<>> => H.requests[o] = <<>>

(* What 'free' of a socket that no pool takes leaves as it was. *)
AfterFree(G, s, H) ==
  /\ H \in AgentRec
  /\ H.sockets = G.sockets /\ H.free = G.free /\ H.total = G.total /\ H.origin = G.origin
  /\ H.message = G.message /\ H.waiter = G.waiter /\ H.attached = G.attached
  /\ H.creating = G.creating /\ H.options = G.options
  /\ \A t \in Sockets \ {s} : H.sock[t] = G.sock[t]
  /\ \A o \in Origins : G.requests[o] = <<>> => H.requests[o] = <<>>

(* 'free' of such a socket changes the queue, the ticks and the socket. *)
LEMMA FreeToQueueFields ==
  ASSUME NEW G, NEW X, NEW k, Sound(G, X, k), NEW s, InHand(G, s), NEW H, H = FreeToQueue(G, s)
  PROVE  AfterFree(G, s, H)
<1> USE AgentAssumption
<1>1. /\ G \in AgentRec /\ s \in Sockets /\ G.origin[s] \in Origins /\ KeysOK(G)
  BY DEF Sound, InHand, PoolsOK
<1> DEFINE o == G.origin[s]
<1>2. G.requests \in [Origins -> Seq(Reqs)] /\ G.sock \in [Sockets -> SockState]
  BY <1>1, AgentFields
<1>3. CASE ~Writable(G, s) \/ TakenBy(G, s) = <<>>
  <2>1. H = destroySocket(G, s)
    BY <1>3 DEF FreeToQueue
  <2>2. /\ H \in AgentRec
        /\ H.sock = [G.sock EXCEPT ![s] = IF @ = "none" THEN @ ELSE "destroyed"]
        /\ H.requests = G.requests
        /\ H.sockets = G.sockets /\ H.free = G.free /\ H.total = G.total /\ H.origin = G.origin
        /\ H.message = G.message /\ H.waiter = G.waiter /\ H.attached = G.attached
        /\ H.creating = G.creating /\ H.options = G.options
    <3>1. AfterDestroy(G, s, H)
      BY <1>1, <2>1, destroySocketFields
    <3> QED BY <3>1 DEF AfterDestroy
  <2>3. \A t \in Sockets \ {s} : H.sock[t] = G.sock[t]
    BY <1>2, <2>2
  <2> QED BY <2>2, <2>3 DEF AfterFree
<1>4. CASE ~(~Writable(G, s) \/ TakenBy(G, s) = <<>>)
  <2> DEFINE S == Shifted(G, o)
             r == Head(G.requests[o])
  <2>1. G.requests[o] # <<>> /\ H = setRequestSocket(S, r, s)
    BY <1>4 DEF FreeToQueue, TakenBy
  <2>2. r \in Reqs
    BY <1>1, <1>2, <2>1, HeadTailProperties
  <2>6. S = Shifted(G, o) /\ o \in Origins /\ s \in Sockets \cup {None}
    BY <1>1
  <2> HIDE DEF r, S, o
  <2>3. /\ S \in AgentRec
        /\ S.requests = [G.requests EXCEPT ![o] = Tail(@)]
        /\ S.options = G.options /\ S.sock = G.sock
        /\ S.sockets = G.sockets /\ S.free = G.free /\ S.total = G.total
        /\ S.origin = G.origin /\ S.message = G.message /\ S.waiter = G.waiter
        /\ S.attached = G.attached /\ S.creating = G.creating
    <3>1. AfterShift(G, o, S)
      BY <1>1, <2>1, <2>6, ShiftedFields
    <3> QED BY <3>1 DEF AfterShift
  <2>4. /\ H \in AgentRec
        /\ H.requests = S.requests /\ H.options = S.options /\ H.sock = S.sock
        /\ H.sockets = S.sockets /\ H.free = S.free /\ H.total = S.total
        /\ H.origin = S.origin /\ H.message = S.message /\ H.waiter = S.waiter
        /\ H.attached = S.attached /\ H.creating = S.creating
    <3>1. AfterSet(S, r, s, H)
      BY <2>1, <2>2, <2>3, <2>6, setRequestSocketFields
    <3> QED BY <3>1 DEF AfterSet
  <2>5. ASSUME NEW p \in Origins, G.requests[p] = <<>> PROVE H.requests[p] = <<>>
    <3>1. CASE p = o
      BY <2>1, <2>5, <3>1
    <3>2. CASE p # o
      BY <1>2, <2>3, <2>4, <2>5, <3>2
    <3> QED BY <3>1, <3>2
  <2> QED BY <2>3, <2>4, <2>5 DEF AfterFree
<1> QED BY <1>3, <1>4

(* 'free' of a socket that no pool takes: the next request has it, or it dies. *)
LEMMA FreeToQueueSound ==
  ASSUME NEW G, NEW X, NEW k, Sound(G, X, k), NEW s, InHand(G, s), s \notin X,
         NEW H, H = FreeToQueue(G, s)
  PROVE  Sound(H, X, k)
<1>1. /\ G \in AgentRec /\ s \in Sockets /\ G.origin[s] \in Origins /\ KeysOK(G)
  BY DEF Sound, InHand, PoolsOK
<1> DEFINE o == G.origin[s]
<1>2. CASE ~Writable(G, s) \/ TakenBy(G, s) = <<>>
  <2>1. H = destroySocket(G, s)
    BY <1>2 DEF FreeToQueue
  <2> QED BY <1>1, <2>1, destroySocketSound
<1>3. CASE ~(~Writable(G, s) \/ TakenBy(G, s) = <<>>)
  <2> DEFINE S == Shifted(G, o)
             r == Head(G.requests[o])
  <2>1. G.requests[o] # <<>> /\ H = setRequestSocket(S, r, s)
    BY <1>3 DEF FreeToQueue, TakenBy
  <2>2. Sound(S, X, k) /\ r \in Reqs
    BY <1>1, <2>1, ShiftedSound
  <2>5. S = Shifted(G, o) /\ o \in Origins
    BY <1>1
  <2> HIDE DEF S, r, o
  <2>3. S.free = G.free /\ S.ticks = G.ticks /\ S.attached = G.attached /\ S.sock = G.sock
    <3>1. AfterShift(G, o, S)
      BY <1>1, <2>1, <2>5, ShiftedFields
    <3> QED BY <3>1 DEF AfterShift
  <2>4. InHand(S, s)
    BY <2>3 DEF InHand, InFree, InTick
  <2> QED BY <2>1, <2>2, <2>4, setRequestSocketSound
<1> QED BY <1>2, <1>3

(* What oncreate() changes. *)
AfterOncreate(G, o, s, H) ==
  /\ H \in AgentRec
  /\ H.sockets = [G.sockets EXCEPT ![o] = @ \cup {s}] /\ H.total = G.total + 1
  /\ H.sock = [G.sock EXCEPT ![s] = "open"]
  /\ H.origin = [G.origin EXCEPT ![s] = o]
  /\ H.message = [G.message EXCEPT ![s] = None]
  /\ H.requests = G.requests /\ H.keys = G.keys /\ H.options = G.options
  /\ H.free = G.free /\ H.ticks = G.ticks /\ H.waiter = G.waiter
  /\ H.attached = G.attached /\ H.creating = G.creating

(* oncreate() puts the socket in this.sockets and counts it. *)
LEMMA OncreateFields ==
  ASSUME NEW G \in AgentRec, NEW s \in Sockets, NEW o \in Origins, NEW H, H = Oncreate(G, o, s)
  PROVE  AfterOncreate(G, o, s, H)
<1> DEFINE a == [G.sockets EXCEPT ![o] = @ \cup {s}]
           b == [G.sock EXCEPT ![s] = "open"]
           c == [G.origin EXCEPT ![s] = o]
           d == [G.message EXCEPT ![s] = None]
           n == G.total + 1
<1>1. /\ a \in [Origins -> SUBSET Sockets] /\ b \in [Sockets -> SockState]
      /\ c \in [Sockets -> Origins \cup {None}] /\ d \in [Sockets -> Reqs \cup {None}] /\ n \in Int
  BY AgentFields DEF SockState
<1>2. H = [G EXCEPT !.sockets = a, !.total = n, !.sock = b, !.origin = c, !.message = d]
  BY DEF Oncreate
<1> HIDE DEF a, b, c, d, n
<1>3. /\ H \in AgentRec
      /\ H.sockets = a /\ H.total = n /\ H.sock = b /\ H.origin = c /\ H.message = d
      /\ H.requests = G.requests /\ H.keys = G.keys /\ H.options = G.options
      /\ H.free = G.free /\ H.ticks = G.ticks /\ H.waiter = G.waiter
      /\ H.attached = G.attached /\ H.creating = G.creating
  BY <1>1, <1>2 DEF AgentRec
<1> QED BY <1>3 DEF a, b, c, d, n, AfterOncreate

(* There are finitely many sockets. *)
LEMMA UsedFinite ==
  ASSUME NEW G
  PROVE  IsFiniteSet(Used(G)) /\ Cardinality(Used(G)) \in Nat
<1>1. IsFiniteSet(Sockets)
  BY AgentAssumption, FS_Interval DEF Sockets
<1>2. Used(G) \in SUBSET Sockets
  BY DEF Used
<1> QED BY <1>1, <1>2, FS_Subset, FS_CardinalityType

(* A new socket is counted once, and is in hand. *)
LEMMA OncreateSound ==
  ASSUME NEW G, NEW X, NEW k \in Int, Sound(G, X, k), NEW s \in Sockets, G.sock[s] = "none",
         NEW o \in Origins, NEW H, H = Oncreate(G, o, s)
  PROVE  Sound(H, X, k) /\ InHand(H, s) /\ s \notin X
<1> USE AgentAssumption
<1>1. /\ G \in AgentRec /\ Counted(G, k) /\ KeysOK(G) /\ PoolsOK(G, X) /\ UsersOK(G)
      /\ Between(G, X)
  BY DEF Sound
<1>2. /\ H \in AgentRec
      /\ H.sockets = [G.sockets EXCEPT ![o] = @ \cup {s}] /\ H.total = G.total + 1
      /\ H.sock = [G.sock EXCEPT ![s] = "open"]
      /\ H.origin = [G.origin EXCEPT ![s] = o]
      /\ H.message = [G.message EXCEPT ![s] = None]
      /\ H.requests = G.requests /\ H.keys = G.keys
      /\ H.free = G.free /\ H.ticks = G.ticks /\ H.attached = G.attached
  <2>1. AfterOncreate(G, o, s, H)
    BY <1>1, OncreateFields
  <2> QED BY <2>1 DEF AfterOncreate
<1>3. /\ G.sockets \in [Origins -> SUBSET Sockets] /\ G.free \in [Origins -> Seq(Sockets)]
      /\ G.sock \in [Sockets -> SockState] /\ G.attached \in SUBSET Sockets
      /\ G.origin \in [Sockets -> Origins \cup {None}] /\ G.message \in [Sockets -> Reqs \cup {None}]
      /\ G.total \in Int
  BY <1>1, AgentFields
<1>4. /\ H.sock[s] = "open" /\ H.origin[s] = o
      /\ \A t \in Sockets : t # s => H.sock[t] = G.sock[t] /\ H.origin[t] = G.origin[t] /\ H.message[t] = G.message[t]
      /\ \A p \in Origins, t \in Sockets : t \in H.sockets[p] <=> t \in G.sockets[p] \/ (t = s /\ p = o)
      /\ \A p \in Origins : H.sockets[p] \in SUBSET Sockets
  BY <1>2, <1>3
<1>5. \A t : (InFree(H, t) <=> InFree(G, t)) /\ (InTick(H, t) <=> InTick(G, t))
  BY <1>2 DEF InFree, InTick
<1>6. /\ ~InFree(G, s) /\ ~InTick(G, s) /\ s \notin G.attached /\ s \notin X
      /\ \A p \in Origins : s \notin G.sockets[p]
  <2>1. ~InFree(G, s)
    BY <1>1 DEF PoolsOK, InFree, In
  <2>2. ~InTick(G, s)
    BY <1>1 DEF UsersOK, InTick
  <2>3. s \notin G.attached
    BY <1>1 DEF UsersOK
  <2>4. s \notin X
    BY <1>1 DEF Between
  <2>5. \A p \in Origins : s \notin G.sockets[p]
    BY <1>1 DEF PoolsOK
  <2> QED BY <2>1, <2>2, <2>3, <2>4, <2>5
<1>7. InHand(H, s)
  BY <1>2, <1>4, <1>5, <1>6 DEF InHand
<1>8. Counted(H, k)
  <2>1. Used(H) = Used(G) \cup {s} /\ s \notin Used(G)
    BY <1>4 DEF Used
  <2>2. Cardinality(Used(H)) = Cardinality(Used(G)) + 1 /\ Cardinality(Used(G)) \in Nat
    BY <2>1, UsedFinite, FS_AddElement
  <2> QED BY <1>1, <1>2, <1>3, <2>2 DEF Counted
<1>9. KeysOK(H)
  BY <1>1, <1>2 DEF KeysOK
<1>10. PoolsOK(H, X)
  <2>1. \A t \in Sockets : H.sock[t] # "none" => H.origin[t] \in Origins
    BY <1>1, <1>4 DEF PoolsOK
  <2>2. ASSUME NEW p \in Origins, NEW t \in H.sockets[p]
        PROVE  H.origin[t] = p /\ H.sock[t] # "none"
    <3>1. t \in Sockets
      BY <1>4
    <3>2. CASE t = s
      BY <1>4, <1>6, <3>2
    <3>3. CASE t # s
      <4>1. t \in G.sockets[p]
        BY <1>4, <3>1, <3>3
      <4>2. G.origin[t] = p /\ G.sock[t] # "none"
        BY <1>1, <4>1 DEF PoolsOK
      <4> QED BY <1>4, <3>1, <3>3, <4>2
    <3> QED BY <3>2, <3>3
  <2>3. ASSUME NEW p \in Origins, NEW i \in 1 .. Len(H.free[p])
        PROVE  /\ H.origin[H.free[p][i]] = p /\ H.sock[H.free[p][i]] # "none"
               /\ H.free[p][i] \notin H.sockets[p]
    <3> DEFINE t == G.free[p][i]
    <3>1. t = H.free[p][i] /\ i \in 1 .. Len(G.free[p])
      BY <1>2
    <3>2. t \in Sockets
      BY <1>3, <3>1
    <3>3. G.origin[t] = p /\ G.sock[t] # "none" /\ t \notin G.sockets[p]
      BY <1>1, <3>1 DEF PoolsOK
    <3>4. t # s
      BY <3>3
    <3> QED BY <1>4, <3>1, <3>2, <3>3, <3>4
  <2>4. \A p \in Origins : Distinct(H.free[p])
    BY <1>1, <1>2 DEF PoolsOK
  <2>5. ASSUME NEW t \in Sockets \ X, H.sock[t] \in {"open", "ended"}
        PROVE  t \in H.sockets[H.origin[t]] \/ InFree(H, t)
    <3>1. CASE t = s
      BY <1>4, <3>1
    <3>2. CASE t # s
      <4>1. /\ G.sock[t] \in {"open", "ended"} /\ H.origin[t] = G.origin[t]
        BY <1>4, <2>5, <3>2
      <4>2. G.origin[t] \in Origins /\ (t \in G.sockets[G.origin[t]] \/ InFree(G, t))
        BY <1>1, <4>1 DEF PoolsOK
      <4> QED BY <1>4, <1>5, <4>1, <4>2
    <3> QED BY <3>1, <3>2
  <2>6. \A p \in Origins : H.requests[p] # <<>> => H.free[p] = <<>>
    BY <1>1, <1>2 DEF PoolsOK
  <2> QED BY <2>1, <2>2, <2>3, <2>4, <2>5, <2>6 DEF PoolsOK
<1>11. UsersOK(H)
  <2>1. ASSUME NEW i \in 1 .. Len(H.ticks), H.ticks[i].s # None
        PROVE  H.sock[H.ticks[i].s] # "none" /\ ~InFree(H, H.ticks[i].s) /\ H.ticks[i].s \notin H.attached
    <3> DEFINE t == G.ticks[i].s
    <3>1. /\ i \in 1 .. Len(G.ticks) /\ t = H.ticks[i].s /\ t # None
      BY <1>2, <2>1
    <3>2. t \in Sockets
      BY <1>1, <3>1, TicksTyped
    <3>3. G.sock[t] # "none" /\ ~InFree(G, t) /\ t \notin G.attached
      BY <1>1, <3>1 DEF UsersOK
    <3> HIDE DEF t
    <3>4. H.sock[t] # "none" /\ ~InFree(H, t) /\ t \notin H.attached
      BY <1>2, <1>4, <1>5, <3>2, <3>3
    <3> QED BY <3>1, <3>4
  <2>2. /\ \A i, j \in 1 .. Len(H.ticks) : H.ticks[i].s = H.ticks[j].s /\ H.ticks[i].s # None => i = j
        /\ \A i \in 1 .. Len(H.ticks) : H.ticks[i].t = "free" => H.ticks[i].s # None
    BY <1>1, <1>2 DEF UsersOK
  <2>3. ASSUME NEW t \in H.attached
        PROVE  H.sock[t] # "none" /\ ~InFree(H, t) /\ H.message[t] # None
    <3>1. t \in Sockets /\ t # s /\ G.sock[t] # "none" /\ ~InFree(G, t) /\ G.message[t] # None
      BY <1>1, <1>2, <1>3, <1>6 DEF UsersOK
    <3> QED BY <1>4, <1>5, <3>1
  <2> QED BY <2>1, <2>2, <2>3 DEF UsersOK
<1>12. Between(H, X)
  <2>1. ASSUME NEW x \in X
        PROVE  /\ x \in Sockets /\ H.sock[x] # "none" /\ ~InFree(H, x) /\ ~InTick(H, x)
               /\ \A p \in Origins : x \notin H.sockets[p]
    <3>1. /\ x \in Sockets /\ G.sock[x] # "none" /\ ~InFree(G, x) /\ ~InTick(G, x)
          /\ \A p \in Origins : x \notin G.sockets[p]
      BY <1>1 DEF Between
    <3> QED BY <1>4, <1>5, <1>6, <3>1
  <2> QED BY <2>1 DEF Between
<1> QED BY <1>2, <1>6, <1>7, <1>8, <1>9, <1>10, <1>11, <1>12 DEF Sound

(* The agent is as sound when only the tunnels and the waiters change. *)
LEMMA SameSound ==
  ASSUME NEW G, NEW X, NEW k, Sound(G, X, k), NEW H \in AgentRec,
         H.requests = G.requests, H.keys = G.keys, H.sockets = G.sockets, H.free = G.free,
         H.total = G.total, H.origin = G.origin, H.message = G.message, H.attached = G.attached,
         H.ticks = G.ticks, H.sock = G.sock
  PROVE  Sound(H, X, k)
<1>1. \A t \in Sockets : /\ H.sock[t] = "none" <=> G.sock[t] = "none"
                         /\ H.sock[t] \in {"open", "ended"} => G.sock[t] \in {"open", "ended"}
  OBVIOUS
<1> QED BY <1>1, SockOnly

(* The callback of createSocket(): the request has the socket, or 'free'. *)
LEMMA ThenSound ==
  ASSUME NEW G, NEW X, NEW k, Sound(G, X, k), NEW s, InHand(G, s), s \notin X,
         NEW by, NEW r \in Reqs, NEW H, H = Then(G, by, r, s)
  PROVE  Sound(H, X, k) /\ AfterFree(G, s, H)
<1> USE AgentAssumption
<1>1. CASE by = "addRequest"
  <2>1. H = setRequestSocket(G, r, s) /\ G \in AgentRec /\ s \in Sockets \cup {None}
    BY <1>1 DEF Then, Sound, InHand
  <2>2. AfterSet(G, r, s, H)
    BY <2>1, setRequestSocketFields
  <2>3. AfterFree(G, s, H)
    BY <2>2 DEF AfterSet, AfterFree
  <2> QED BY <2>1, <2>3, setRequestSocketSound
<1>2. CASE by # "addRequest"
  <2>1. H = FreeToQueue(G, s)
    BY <1>2 DEF Then
  <2> QED BY <2>1, FreeToQueueFields, FreeToQueueSound
<1> QED BY <1>1, <1>2

(* A socket is made, and its callback called. *)
LEMMA MakeSound ==
  ASSUME NEW G, NEW X, NEW k \in Int, Sound(G, X, k), NEW s \in Sockets, G.sock[s] = "none",
         NEW by, NEW r \in Reqs, NEW o \in Origins, NEW H, H = Then(Oncreate(G, o, s), by, r, s)
  PROVE  /\ Sound(H, X, k) /\ Keeps(G, H) /\ H.total = G.total + 1 /\ H.creating = G.creating
         /\ H.sockets = [G.sockets EXCEPT ![o] = @ \cup {s}]
<1>1. SUFFICES ASSUME NEW F, F = Oncreate(G, o, s), H = Then(F, by, r, s)
               PROVE  /\ Sound(H, X, k) /\ Keeps(G, H) /\ H.total = G.total + 1 /\ H.creating = G.creating
                      /\ H.sockets = [G.sockets EXCEPT ![o] = @ \cup {s}]
  OBVIOUS
<1>2. G \in AgentRec
  BY DEF Sound
<1>3. Sound(F, X, k) /\ InHand(F, s) /\ s \notin X
  BY <1>1, OncreateSound
<1>4. AfterOncreate(G, o, s, F)
  BY <1>1, <1>2, OncreateFields
<1>5. Sound(H, X, k) /\ AfterFree(F, s, H)
  BY <1>1, <1>3, ThenSound
<1>6. Keeps(G, H)
  <2>1. /\ H.free = G.free /\ H.attached = G.attached /\ H.waiter = G.waiter
        /\ H.origin = F.origin /\ H.message = F.message /\ F.requests = G.requests
        /\ F.sock = [G.sock EXCEPT ![s] = "open"]
        /\ F.origin = [G.origin EXCEPT ![s] = o]
        /\ F.message = [G.message EXCEPT ![s] = None]
        /\ \A t \in Sockets \ {s} : H.sock[t] = F.sock[t]
        /\ \A p \in Origins : F.requests[p] = <<>> => H.requests[p] = <<>>
    BY <1>4, <1>5 DEF AfterOncreate, AfterFree
  <2>2. /\ G.sock \in [Sockets -> SockState] /\ G.origin \in [Sockets -> Origins \cup {None}]
        /\ G.message \in [Sockets -> Reqs \cup {None}]
    BY <1>2, AgentFields
  <2>3. ASSUME NEW t \in Sockets, G.sock[t] # "none"
        PROVE  H.sock[t] = G.sock[t] /\ H.origin[t] = G.origin[t] /\ H.message[t] = G.message[t]
    <3>1. t # s
      BY <2>3
    <3> QED BY <2>1, <2>2, <3>1
  <2> QED BY <2>1, <2>3 DEF Keeps
<1>7. /\ H.total = G.total + 1 /\ H.creating = G.creating
      /\ H.sockets = [G.sockets EXCEPT ![o] = @ \cup {s}]
  BY <1>4, <1>5 DEF AfterOncreate, AfterFree
<1> QED BY <1>5, <1>6, <1>7

(* The bound on the number of sockets is not reached. *)
HasRoom(G) == \E s \in Sockets : G.sock[s] = "none"

(* Then there is a number for a new one. *)
LEMMA NewSocketIs ==
  ASSUME NEW G, HasRoom(G)
  PROVE  NewSocket(G) \in Sockets /\ G.sock[NewSocket(G)] = "none"
BY DEF NewSocket, HasRoom

(* What createSocket() makes of the agent: a socket, or one that is to come. *)
Created(G, o, H) ==
  /\ Keeps(G, H)
  /\ \/ opt.tunnel /\ H.total = G.total /\ H.sockets = G.sockets
     \/ /\ ~opt.tunnel /\ H.total = G.total + 1 /\ H.creating = G.creating
        /\ \E s \in Sockets : G.sock[s] = "none" /\ H.sockets = [G.sockets EXCEPT ![o] = @ \cup {s}]

(* createSocket() makes a socket now, or has a tunnel made. *)
LEMMA createSocketSound ==
  ASSUME NEW G, NEW X, NEW k \in Int, Sound(G, X, k), HasRoom(G),
         NEW by \in {"addRequest", "removeSocket"}, NEW r \in Reqs, NEW o \in Origins,
         NEW H, H = createSocket(G, by, r, o)
  PROVE  Sound(H, X, k) /\ Created(G, o, H)
<1>1. G \in AgentRec
  BY DEF Sound
<1>2. CASE opt.tunnel
  <2> DEFINE m == [by |-> by, r |-> r, o |-> o]
             c == [G.creating EXCEPT ![m] = @ + 1]
  <2>1. c \in [Tunnels -> Nat]
    <3>1. m \in Tunnels /\ G.creating \in [Tunnels -> Nat]
      BY <1>1, AgentFields DEF Tunnels
    <3>2. G.creating[m] + 1 \in Nat
      BY <3>1
    <3> QED BY <3>1, <3>2, Zenon
  <2>2. H = [G EXCEPT !.creating = c]
    BY <1>2 DEF createSocket
  <2> HIDE DEF c
  <2>3. /\ H \in AgentRec
        /\ H.requests = G.requests /\ H.keys = G.keys /\ H.sockets = G.sockets /\ H.free = G.free
        /\ H.total = G.total /\ H.origin = G.origin /\ H.message = G.message /\ H.attached = G.attached
        /\ H.ticks = G.ticks /\ H.sock = G.sock /\ H.waiter = G.waiter
    BY <1>1, <2>1, <2>2 DEF AgentRec
  <2>4. Sound(H, X, k)
    BY <2>3, SameSound
  <2>5. Keeps(G, H)
    BY <2>3 DEF Keeps
  <2> QED BY <1>2, <2>3, <2>4, <2>5 DEF Created
<1>3. CASE ~opt.tunnel
  <2>1. PICK s \in Sockets : s = NewSocket(G) /\ G.sock[s] = "none"
    BY NewSocketIs
  <2>2. H = Then(Oncreate(G, o, s), by, r, s)
    BY <1>3, <2>1 DEF createSocket
  <2>3. /\ Sound(H, X, k) /\ Keeps(G, H) /\ H.total = G.total + 1 /\ H.creating = G.creating
        /\ H.sockets = [G.sockets EXCEPT ![o] = @ \cup {s}]
    BY <2>1, <2>2, MakeSound
  <2> QED BY <1>3, <2>1, <2>3 DEF Created
<1> QED BY <1>2, <1>3

(* A free socket is its origin's, and is not used. *)
LEMMA Injected ==
  ASSUME NEW G, NEW X, NEW k, Sound(G, X, k)
  PROVE  \A o \in Origins : \A t : In(G.free[o], t) =>
           t \in Sockets /\ G.origin[t] = o /\ G.sock[t] # "none" /\ t \notin G.sockets[o]
<1>1. G.free \in [Origins -> Seq(Sockets)]
  BY AgentFields DEF Sound
<1> SUFFICES ASSUME NEW o \in Origins, NEW i \in 1 .. Len(G.free[o])
             PROVE  /\ G.free[o][i] \in Sockets /\ G.origin[G.free[o][i]] = o
                    /\ G.sock[G.free[o][i]] # "none" /\ G.free[o][i] \notin G.sockets[o]
  BY DEF In
<1>2. G.free[o][i] \in Sockets
  BY <1>1
<1>3. PoolsOK(G, X)
  BY DEF Sound
<1> QED BY <1>2, <1>3 DEF PoolsOK

(* What the first half of removeSocket() changes. *)
AfterLeft(G, s, o, H) ==
  /\ H \in AgentRec
  /\ H.sockets = [G.sockets EXCEPT ![o] = @ \ {s}]
  /\ \A p \in Origins : p # o => H.free[p] = G.free[p]
  /\ Distinct(H.free[o])
  /\ \A t : In(H.free[o], t) <=> In(G.free[o], t) /\ (Writable(G, s) \/ t # s)
  /\ Len(H.free[o]) = IF ~Writable(G, s) /\ In(G.free[o], s) THEN Len(G.free[o]) - 1 ELSE Len(G.free[o])
  /\ H.requests = G.requests /\ H.keys = G.keys /\ H.options = G.options
  /\ H.total = G.total /\ H.sock = G.sock /\ H.origin = G.origin /\ H.message = G.message
  /\ H.waiter = G.waiter /\ H.attached = G.attached /\ H.ticks = G.ticks /\ H.creating = G.creating

(* The socket leaves this.sockets, and freeSockets when it is not writable. *)
LEMMA LeftFields ==
  ASSUME NEW G, NEW X, NEW k, Sound(G, X, k), NEW s \in Sockets, NEW o \in Origins, NEW H, H = Left(G, s, o)
  PROVE  AfterLeft(G, s, o, H)
<1> DEFINE a == [G.sockets EXCEPT ![o] = @ \ {s}]
           q == IF Writable(G, s) THEN G.free[o] ELSE RemoveFirst(G.free[o], s)
           f == [G.free EXCEPT ![o] = q]
<1>1. /\ G \in AgentRec /\ G.sockets \in [Origins -> SUBSET Sockets]
      /\ G.free \in [Origins -> Seq(Sockets)] /\ Distinct(G.free[o])
  BY AgentFields DEF Sound, PoolsOK
<1>2. G.free[o] \in Seq(Sockets)
  BY <1>1
<1>3. /\ q \in Seq(Sockets) /\ Distinct(q)
      /\ \A t : In(q, t) <=> In(G.free[o], t) /\ (Writable(G, s) \/ t # s)
      /\ Len(q) = IF ~Writable(G, s) /\ In(G.free[o], s) THEN Len(G.free[o]) - 1 ELSE Len(G.free[o])
  <2>1. CASE Writable(G, s)
    BY <1>1, <1>2, <2>1
  <2>2. CASE ~Writable(G, s)
    BY <1>1, <1>2, <2>2, RemoveFirstSet
  <2> QED BY <2>1, <2>2
<1>4. a \in [Origins -> SUBSET Sockets]
  BY <1>1
<1>5. H = [G EXCEPT !.sockets = a, !.free = f]
  BY DEF Left
<1> HIDE DEF q
<1>6. f \in [Origins -> Seq(Sockets)] /\ f[o] = q /\ \A p \in Origins : p # o => f[p] = G.free[p]
  BY <1>1, <1>3
<1> HIDE DEF a, f
<1>7. /\ H \in AgentRec /\ H.sockets = a /\ H.free = f
      /\ H.requests = G.requests /\ H.keys = G.keys /\ H.options = G.options
      /\ H.total = G.total /\ H.sock = G.sock /\ H.origin = G.origin /\ H.message = G.message
      /\ H.waiter = G.waiter /\ H.attached = G.attached /\ H.ticks = G.ticks /\ H.creating = G.creating
  BY <1>1, <1>4, <1>5, <1>6 DEF AgentRec
<1>8. H.sockets = [G.sockets EXCEPT ![o] = @ \ {s}]
  BY <1>7 DEF a
<1> QED BY <1>3, <1>6, <1>7, <1>8 DEF AfterLeft

(* A socket that leaves the pools is in the hands of removeSocket(). *)
LEMMA LeftSound ==
  ASSUME NEW G, NEW k, Sound(G, {}, k), NEW s \in Sockets, G.sock[s] # "none", NEW o, o = G.origin[s],
         ~InTick(G, s), Writable(G, s) => ~InFree(G, s), NEW H, H = Left(G, s, o)
  PROVE  Sound(H, {s}, k)
<1> USE AgentAssumption
<1>1. /\ G \in AgentRec /\ Counted(G, k) /\ KeysOK(G) /\ PoolsOK(G, {}) /\ UsersOK(G)
  BY DEF Sound
<1>2. o \in Origins
  BY <1>1 DEF PoolsOK
<1>3. AfterLeft(G, s, o, H)
  BY <1>2, LeftFields
<1>4. /\ H \in AgentRec
      /\ H.sockets = [G.sockets EXCEPT ![o] = @ \ {s}]
      /\ H.requests = G.requests /\ H.keys = G.keys
      /\ H.total = G.total /\ H.sock = G.sock /\ H.origin = G.origin /\ H.message = G.message
      /\ H.attached = G.attached /\ H.ticks = G.ticks
  BY <1>3 DEF AfterLeft
<1>5. /\ G.sockets \in [Origins -> SUBSET Sockets] /\ G.free \in [Origins -> Seq(Sockets)]
      /\ H.free \in [Origins -> Seq(Sockets)] /\ G.attached \in SUBSET Sockets
  BY <1>1, <1>4, AgentFields
<1>6. \A p \in Origins : \A t : In(H.free[p], t) => In(G.free[p], t)
  BY <1>3 DEF AfterLeft
<1>7. ~InFree(H, s)
  <2>1. SUFFICES ASSUME NEW p \in Origins, In(H.free[p], s) PROVE FALSE
    BY DEF InFree
  <2>2. In(G.free[p], s)
    BY <1>6, <2>1
  <2>3. p = o
    BY <2>2, Injected
  <2> QED BY <1>3, <2>1, <2>2, <2>3 DEF AfterLeft, InFree
<1>8. \A t \in Sockets : t # s => (InFree(H, t) <=> InFree(G, t))
  <2>1. \A p \in Origins, t \in Sockets : t # s => (In(H.free[p], t) <=> In(G.free[p], t))
    BY <1>3 DEF AfterLeft
  <2> QED BY <2>1 DEF InFree
<1>9. \A t : InTick(H, t) <=> InTick(G, t)
  BY <1>4 DEF InTick
<1>10. \A p \in Origins, t \in Sockets : t \in H.sockets[p] <=> t \in G.sockets[p] /\ ~(t = s /\ p = o)
  BY <1>4, <1>5
<1>11. \A p \in Origins : s \notin H.sockets[p]
  BY <1>1, <1>10 DEF PoolsOK
<1>12. Counted(H, k) /\ KeysOK(H)
  BY <1>1, <1>4 DEF Counted, KeysOK, Used
<1>13. PoolsOK(H, {s})
  <2>1. \A t \in Sockets : H.sock[t] # "none" => H.origin[t] \in Origins
    BY <1>1, <1>4 DEF PoolsOK
  <2>2. ASSUME NEW p \in Origins, NEW t \in H.sockets[p]
        PROVE  H.origin[t] = p /\ H.sock[t] # "none"
    <3>1. t \in G.sockets[p]
      BY <1>4, <1>5
    <3>2. G.origin[t] = p /\ G.sock[t] # "none"
      BY <1>1, <3>1 DEF PoolsOK
    <3> QED BY <1>4, <3>2
  <2>3. ASSUME NEW p \in Origins, NEW i \in 1 .. Len(H.free[p])
        PROVE  /\ H.origin[H.free[p][i]] = p /\ H.sock[H.free[p][i]] # "none"
               /\ H.free[p][i] \notin H.sockets[p]
    <3> DEFINE t == H.free[p][i]
    <3>1. In(H.free[p], t)
      BY DEF In
    <3> HIDE DEF t
    <3>2. t \in Sockets /\ G.origin[t] = p /\ G.sock[t] # "none" /\ t \notin G.sockets[p]
      BY <1>6, <3>1, Injected
    <3>3. H.origin[t] = p /\ H.sock[t] # "none" /\ t \notin H.sockets[p]
      BY <1>4, <1>10, <3>2
    <3> QED BY <3>3 DEF t
  <2>4. \A p \in Origins : Distinct(H.free[p])
    <3>1. \A p \in Origins : Distinct(G.free[p])
      BY <1>1 DEF PoolsOK
    <3> QED BY <1>3, <3>1 DEF AfterLeft
  <2>5. ASSUME NEW t \in Sockets \ {s}, H.sock[t] \in {"open", "ended"}
        PROVE  t \in H.sockets[H.origin[t]] \/ InFree(H, t)
    <3>1. G.sock[t] \in {"open", "ended"} /\ G.origin[t] = H.origin[t]
      BY <1>4, <2>5
    <3>2. G.origin[t] \in Origins /\ (t \in G.sockets[G.origin[t]] \/ InFree(G, t))
      BY <1>1, <3>1 DEF PoolsOK
    <3> QED BY <1>8, <1>10, <3>1, <3>2
  <2>6. ASSUME NEW p \in Origins, H.requests[p] # <<>>
        PROVE  H.free[p] = <<>>
    <3>1. G.free[p] = <<>> /\ H.free[p] \in Seq(Sockets)
      BY <1>1, <1>4, <1>5, <2>6 DEF PoolsOK
    <3>2. CASE p = o
      <4>1. ~In(G.free[o], s) /\ Len(G.free[o]) = 0
        BY <3>1, <3>2 DEF In
      <4>2. Len(H.free[p]) = 0
        BY <1>3, <3>2, <4>1 DEF AfterLeft
      <4> QED BY <3>1, <4>2, EmptySeq
    <3>3. CASE p # o
      BY <1>3, <3>1, <3>3 DEF AfterLeft
    <3> QED BY <3>2, <3>3
  <2> QED BY <2>1, <2>2, <2>3, <2>4, <2>5, <2>6 DEF PoolsOK
<1>14. UsersOK(H)
  <2>1. ASSUME NEW i \in 1 .. Len(H.ticks), H.ticks[i].s # None
        PROVE  H.sock[H.ticks[i].s] # "none" /\ ~InFree(H, H.ticks[i].s) /\ H.ticks[i].s \notin H.attached
    <3> DEFINE t == G.ticks[i].s
    <3>1. /\ i \in 1 .. Len(G.ticks) /\ t = H.ticks[i].s /\ t # None
      BY <1>4, <2>1
    <3>2. t \in Sockets
      BY <1>1, <3>1, TicksTyped
    <3>3. G.sock[t] # "none" /\ ~InFree(G, t) /\ t \notin G.attached
      BY <1>1, <3>1 DEF UsersOK
    <3> HIDE DEF t
    <3>4. H.sock[t] # "none" /\ ~InFree(H, t) /\ t \notin H.attached
      BY <1>4, <1>7, <1>8, <3>2, <3>3
    <3> QED BY <3>1, <3>4
  <2>2. /\ \A i, j \in 1 .. Len(H.ticks) : H.ticks[i].s = H.ticks[j].s /\ H.ticks[i].s # None => i = j
        /\ \A i \in 1 .. Len(H.ticks) : H.ticks[i].t = "free" => H.ticks[i].s # None
    BY <1>1, <1>4 DEF UsersOK
  <2>3. ASSUME NEW t \in H.attached
        PROVE  H.sock[t] # "none" /\ ~InFree(H, t) /\ H.message[t] # None
    <3>1. t \in Sockets /\ G.sock[t] # "none" /\ ~InFree(G, t) /\ G.message[t] # None
      BY <1>1, <1>4, <1>5 DEF UsersOK
    <3> QED BY <1>4, <1>7, <1>8, <3>1
  <2> QED BY <2>1, <2>2, <2>3 DEF UsersOK
<1>15. Between(H, {s})
  BY <1>4, <1>7, <1>9, <1>11 DEF Between
<1> QED BY <1>4, <1>12, <1>13, <1>14, <1>15 DEF Sound

(* What removeSocket() makes of the agent. *)
Removed(G, s, o, H) ==
  \E L \in AgentRec : \E p \in Origins :
    /\ AfterLeft(G, s, o, L)
    /\ \/ H = L
       \/ Created(L, p, H) /\ L.requests[p] # <<>> /\ (p # o => L.sockets[p] = {} /\ L.requests[o] = <<>>)

(* removeSocket() keeps the pools sound but for the socket that left, and may *)
(* make one for a request that waits.                                         *)
LEMMA removeSocketSound ==
  ASSUME NEW G, NEW k \in Int, Sound(G, {}, k), HasRoom(G),
         NEW s \in Sockets, G.sock[s] # "none", ~InTick(G, s), Writable(G, s) => ~InFree(G, s),
         NEW H, H = removeSocket(G, s)
  PROVE  Sound(H, {s}, k) /\ Removed(G, s, G.origin[s], H)
<1> DEFINE o == G.origin[s]
<1>1. o \in Origins
  BY DEF Sound, PoolsOK
<1>2. PICK L : L = Left(G, s, o)
  OBVIOUS
<1>3. Sound(L, {s}, k) /\ AfterLeft(G, s, o, L)
  BY <1>1, <1>2, LeftSound, LeftFields
<1>4. L \in AgentRec /\ L.sock = G.sock /\ L.requests \in [Origins -> Seq(Reqs)]
  BY <1>3, AgentFields DEF AfterLeft
<1>5. HasRoom(L)
  BY <1>4 DEF HasRoom
<1>6. ASSUME NEW p \in Origins, L.requests[p] # <<>>, p # o => L.sockets[p] = {} /\ L.requests[o] = <<>>,
             H = LET r == Head(L.requests[p]) IN
                 createSocket([L EXCEPT !.options = @ \ {r}], "removeSocket", r, p)
      PROVE  Sound(H, {s}, k) /\ Removed(G, s, o, H)
  <2> DEFINE r == Head(L.requests[p])
             c == L.options \ {r}
             M == [L EXCEPT !.options = c]
  <2>1. r \in Reqs
    BY <1>4, <1>6, HeadTailProperties
  <2>2. c \in SUBSET Reqs
    BY <1>4, AgentFields
  <2>3. H = createSocket(M, "removeSocket", r, p)
    BY <1>6
  <2> HIDE DEF c, r
  <2>4. M = [L EXCEPT !.options = c]
    OBVIOUS
  <2> HIDE DEF M
  <2>5. /\ M \in AgentRec
        /\ M.requests = L.requests /\ M.keys = L.keys /\ M.sockets = L.sockets /\ M.free = L.free
        /\ M.total = L.total /\ M.origin = L.origin /\ M.message = L.message /\ M.attached = L.attached
        /\ M.ticks = L.ticks /\ M.sock = L.sock /\ M.waiter = L.waiter /\ M.creating = L.creating
    BY <1>4, <2>2, <2>4 DEF AgentRec
  <2>6. Sound(M, {s}, k)
    BY <1>3, <2>5, SameSound
  <2>7. HasRoom(M)
    BY <1>5, <2>5 DEF HasRoom
  <2>8. Sound(H, {s}, k) /\ Created(M, p, H)
    BY <2>1, <2>3, <2>6, <2>7, createSocketSound
  <2>9. Created(L, p, H)
    BY <2>5, <2>8 DEF Created, Keeps
  <2> QED BY <1>3, <1>4, <1>6, <2>8, <2>9 DEF Removed
<1>7. CASE L.requests[o] # <<>>
  BY <1>1, <1>2, <1>6, <1>7 DEF removeSocket
<1>8. CASE L.requests[o] = <<>> /\ OtherOrigin(L)
  <2> DEFINE p == Head(L.keys)
  <2>1. L.keys # <<>> /\ L.sockets[p] = {}
    BY <1>8 DEF OtherOrigin
  <2>2. L.keys \in Seq(Origins)
    BY <1>4, AgentFields
  <2>3. p \in Origins /\ In(L.keys, p)
    <3>1. p = L.keys[1] /\ 1 \in 1 .. Len(L.keys)
      BY <2>1, <2>2
    <3> QED BY <2>2, <3>1 DEF In
  <2>4. L.requests[p] # <<>>
    BY <1>3, <2>3 DEF Sound, KeysOK
  <2>5. H = LET r == Head(L.requests[p]) IN
            createSocket([L EXCEPT !.options = @ \ {r}], "removeSocket", r, p)
    BY <1>2, <1>8 DEF removeSocket
  <2> QED BY <1>6, <1>8, <2>1, <2>3, <2>4, <2>5
<1>9. CASE L.requests[o] = <<>> /\ ~OtherOrigin(L)
  <2>1. H = L
    BY <1>2, <1>9 DEF removeSocket
  <2> QED BY <1>1, <1>3, <1>4, <2>1 DEF Removed
<1> QED BY <1>7, <1>8, <1>9

(* What removeSocket() leaves of the socket itself. *)
LEMMA RemovedKeeps ==
  ASSUME NEW G \in AgentRec, NEW s \in Sockets, G.sock[s] # "none", NEW o \in Origins, NEW H, Removed(G, s, o, H)
  PROVE  /\ H.sock[s] = G.sock[s] /\ H.origin[s] = G.origin[s] /\ H.attached = G.attached
         /\ \A p \in Origins : G.requests[p] = <<>> => H.requests[p] = <<>>
<1>1. PICK L \in AgentRec, p \in Origins : AfterLeft(G, s, o, L) /\ (H = L \/ Created(L, p, H))
  BY DEF Removed
<1>2. L.sock = G.sock /\ L.origin = G.origin /\ L.attached = G.attached /\ L.requests = G.requests
  BY <1>1 DEF AfterLeft
<1>3. CASE H = L
  BY <1>2, <1>3
<1>4. CASE Created(L, p, H)
  <2>1. Keeps(L, H)
    BY <1>4 DEF Created
  <2> QED BY <1>2, <2>1 DEF Keeps
<1> QED BY <1>1, <1>3, <1>4

(* 'free' of a socket that is kept. *)
KeepVia(G, s, M, R, H) ==
  LET o == G.origin[s] IN
  /\ M.sock = G.sock /\ M.sockets = G.sockets /\ M.free = G.free /\ M.total = G.total
  /\ M.requests = G.requests /\ M.origin = G.origin /\ M.creating = G.creating
  /\ Sound(M, {}, 0) /\ G.requests[o] = <<>> /\ H.creating = R.creating
  /\ Sound(R, {s}, 0) /\ Removed(M, s, o, R) /\ R.sock[s] = G.sock[s] /\ R.requests[o] = <<>>
  /\ H.sockets = R.sockets /\ H.total = R.total /\ H.free = [R.free EXCEPT ![o] = Append(@, s)]
  /\ H.sock = R.sock
AfterKeep(G, s, H) == \E M \in AgentRec, R \in AgentRec : KeepVia(G, s, M, R, H)

(* 'free' of a socket, whatever becomes of it. *)
LEMMA FreeSound ==
  ASSUME NEW G, Sound(G, {}, 0), HasRoom(G), NEW s, InHand(G, s), NEW H, H = Free(G, s)
  PROVE  /\ Sound(H, {}, 0)
         /\ AfterFree(G, s, H) \/ (Writable(G, s) /\ Keepable(G, s) /\ AfterKeep(G, s, H))
<1> USE AgentAssumption
<1> DEFINE o == G.origin[s]
<1>1. /\ G \in AgentRec /\ s \in Sockets /\ o \in Origins /\ G.sock[s] # "none"
  BY DEF Sound, InHand, PoolsOK
<1>2. CASE ~(Writable(G, s) /\ TakenBy(G, s) = <<>> /\ Keepable(G, s))
  <2>1. H = FreeToQueue(G, s)
    BY <1>2 DEF Free
  <2> QED BY <2>1, FreeToQueueFields, FreeToQueueSound
<1>3. CASE Writable(G, s) /\ TakenBy(G, s) = <<>> /\ Keepable(G, s)
  <2> DEFINE m == [G.message EXCEPT ![s] = None]
             M == [G EXCEPT !.message = m]
             R == removeSocket(M, s)
             f == [R.free EXCEPT ![o] = Append(@, s)]
  <2>1. m \in [Sockets -> Reqs \cup {None}] /\ \A t \in Sockets : t # s => m[t] = G.message[t]
    BY <1>1, AgentFields
  <2>2. H = [R EXCEPT !.free = f]
    BY <1>3 DEF Free
  <2>3. M = [G EXCEPT !.message = m] /\ R = removeSocket(M, s) /\ f = [R.free EXCEPT ![o] = Append(@, s)]
    OBVIOUS
  <2> HIDE DEF m, M, R, f
  <2>4. /\ M \in AgentRec /\ M.message = m
        /\ M.requests = G.requests /\ M.keys = G.keys /\ M.sockets = G.sockets /\ M.free = G.free
        /\ M.total = G.total /\ M.origin = G.origin /\ M.attached = G.attached
        /\ M.ticks = G.ticks /\ M.sock = G.sock /\ M.creating = G.creating
    BY <1>1, <2>1, <2>3 DEF AgentRec
  <2>5. \A t : (InFree(M, t) <=> InFree(G, t)) /\ (InTick(M, t) <=> InTick(G, t))
    BY <2>4 DEF InFree, InTick
  <2>6. Sound(M, {}, 0)
    <3>1. /\ Counted(G, 0) /\ KeysOK(G) /\ PoolsOK(G, {}) /\ UsersOK(G)
      BY DEF Sound
    <3>2. Counted(M, 0) /\ KeysOK(M) /\ PoolsOK(M, {})
      BY <2>4, <2>5, <3>1 DEF Counted, KeysOK, PoolsOK, Used
    <3>3. \A t \in M.attached : M.sock[t] # "none" /\ ~InFree(M, t) /\ M.message[t] # None
      <4>1. G.attached \in SUBSET Sockets /\ s \notin G.attached
        BY <1>1, AgentFields DEF InHand
      <4>2. \A t \in G.attached : t \in Sockets /\ t # s /\ G.sock[t] # "none" /\ ~InFree(G, t) /\ G.message[t] # None
        BY <3>1, <4>1 DEF UsersOK
      <4> QED BY <2>1, <2>4, <2>5, <4>2
    <3>4. UsersOK(M)
      BY <2>4, <2>5, <3>1, <3>3 DEF UsersOK
    <3> QED BY <2>4, <3>2, <3>4 DEF Sound, Between
  <2>7. HasRoom(M) /\ M.sock[s] # "none" /\ ~InTick(M, s) /\ ~InFree(M, s)
    BY <1>1, <2>4, <2>5 DEF HasRoom, InHand
  <2>8. Sound(R, {s}, 0) /\ Removed(M, s, o, R)
    <3>1. Sound(R, {s}, 0) /\ Removed(M, s, M.origin[s], R)
      <4>1. 0 \in Int /\ (Writable(M, s) => ~InFree(M, s)) /\ s \in Sockets /\ R = removeSocket(M, s)
        BY <1>1, <2>3, <2>7
      <4> QED BY <2>6, <2>7, <4>1, removeSocketSound, Zenon
    <3> QED BY <2>4, <3>1
  <2>9. /\ R.sock[s] = "open" /\ R.origin[s] = o /\ R.attached = G.attached
        /\ R.requests[o] = <<>>
    <3>1. G.sock[s] = "open" /\ G.requests[o] = <<>>
      BY <1>3 DEF Writable, TakenBy
    <3>2. /\ R.sock[s] = M.sock[s] /\ R.origin[s] = M.origin[s] /\ R.attached = M.attached
          /\ \A p \in Origins : M.requests[p] = <<>> => R.requests[p] = <<>>
      BY <1>1, <2>4, <2>7, <2>8, RemovedKeeps
    <3> QED BY <1>1, <2>4, <3>1, <3>2
  <2>10. /\ R \in AgentRec /\ Counted(R, 0) /\ KeysOK(R) /\ PoolsOK(R, {s}) /\ UsersOK(R)
         /\ ~InFree(R, s) /\ ~InTick(R, s) /\ (\A p \in Origins : s \notin R.sockets[p])
    BY <2>8 DEF Sound, Between
  <2>11. /\ R.free \in [Origins -> Seq(Sockets)] /\ R.free[o] \in Seq(Sockets)
         /\ R.attached \in SUBSET Sockets /\ R.sockets \in [Origins -> SUBSET Sockets]
    BY <1>1, <2>10, AgentFields
  <2> DEFINE w == Append(R.free[o], s)
  <2>12. /\ w \in Seq(Sockets)
         /\ \A t : In(w, t) <=> In(R.free[o], t) \/ t = s
         /\ Distinct(R.free[o]) /\ ~In(R.free[o], s) => Distinct(w)
    <3>1. w = Append(R.free[o], s)
      OBVIOUS
    <3> HIDE DEF w, o
    <3>2. s \in Sockets /\ R.free[o] \in Seq(Sockets)
      BY <1>1, <2>11
    <3> DEFINE q == R.free[o]
    <3> HIDE DEF q
    <3>3. q \in Seq(Sockets) /\ w = Append(q, s)
      BY <3>1, <3>2 DEF q
    <3>4. w \in Seq(Sockets) /\ Appended(w, q, s)
      BY <3>2, <3>3, AppendIn
    <3> QED BY <3>4 DEF q, Appended
  <2>13. f \in [Origins -> Seq(Sockets)] /\ f[o] = w /\ \A p \in Origins : p # o => f[p] = R.free[p]
    BY <1>1, <2>3, <2>11, <2>12
  <2> HIDE DEF w
  <2>14. /\ H \in AgentRec /\ H.free = f
         /\ H.requests = R.requests /\ H.keys = R.keys /\ H.sockets = R.sockets
         /\ H.total = R.total /\ H.origin = R.origin /\ H.message = R.message /\ H.attached = R.attached
         /\ H.ticks = R.ticks /\ H.sock = R.sock /\ H.creating = R.creating
    BY <2>2, <2>10, <2>13 DEF AgentRec
  <2>15. \A p \in Origins : \A t : In(H.free[p], t) <=> In(R.free[p], t) \/ (p = o /\ t = s)
    BY <2>12, <2>13, <2>14
  <2>16. \A t : InFree(H, t) <=> InFree(R, t) \/ t = s
    BY <1>1, <2>15 DEF InFree
  <2>17. Distinct(w)
    <3>1. Distinct(R.free[o]) /\ ~In(R.free[o], s)
      BY <1>1, <2>10 DEF PoolsOK, InFree
    <3> QED BY <2>12, <3>1
  <2>18. PoolsOK(H, {})
    <3>1. \A t \in Sockets : H.sock[t] # "none" => H.origin[t] \in Origins
      BY <2>10, <2>14 DEF PoolsOK
    <3>2. \A p \in Origins : \A t \in H.sockets[p] : H.origin[t] = p /\ H.sock[t] # "none"
      BY <2>10, <2>14 DEF PoolsOK
    <3>3. ASSUME NEW p \in Origins, NEW i \in 1 .. Len(H.free[p])
          PROVE  /\ H.origin[H.free[p][i]] = p /\ H.sock[H.free[p][i]] # "none"
                 /\ H.free[p][i] \notin H.sockets[p]
      <4> DEFINE t == H.free[p][i]
      <4>1. In(H.free[p], t)
        BY DEF In
      <4> HIDE DEF t
      <4>2. In(R.free[p], t) \/ (p = o /\ t = s)
        BY <2>15, <4>1
      <4>3. H.origin[t] = p /\ H.sock[t] # "none" /\ t \notin H.sockets[p]
        BY <1>1, <2>8, <2>9, <2>10, <2>14, <4>2, Injected
      <4> QED BY <4>3 DEF t
    <3>4. \A p \in Origins : Distinct(H.free[p])
      BY <2>10, <2>13, <2>14, <2>17 DEF PoolsOK
    <3>5. ASSUME NEW t \in Sockets, H.sock[t] \in {"open", "ended"}
          PROVE  t \in H.sockets[H.origin[t]] \/ InFree(H, t)
      <4>1. CASE t = s
        BY <2>16, <4>1
      <4>2. CASE t # s
        <5>1. t \in R.sockets[R.origin[t]] \/ InFree(R, t)
          BY <2>10, <2>14, <3>5, <4>2 DEF PoolsOK
        <5> QED BY <2>14, <2>16, <5>1
      <4> QED BY <4>1, <4>2
    <3>6. ASSUME NEW p \in Origins, H.requests[p] # <<>>
          PROVE  H.free[p] = <<>>
      <4>1. p # o
        BY <2>9, <2>14, <3>6
      <4> QED BY <2>10, <2>13, <2>14, <3>6, <4>1 DEF PoolsOK
    <3> QED BY <3>1, <3>2, <3>3, <3>4, <3>5, <3>6 DEF PoolsOK
  <2>19. UsersOK(H)
    <3>1. ASSUME NEW i \in 1 .. Len(H.ticks), H.ticks[i].s # None
          PROVE  H.sock[H.ticks[i].s] # "none" /\ ~InFree(H, H.ticks[i].s) /\ H.ticks[i].s \notin H.attached
      <4>1. /\ R.sock[R.ticks[i].s] # "none" /\ ~InFree(R, R.ticks[i].s) /\ R.ticks[i].s \notin R.attached
            /\ R.ticks[i].s # s
        BY <2>10, <2>14, <3>1 DEF UsersOK, InTick
      <4> QED BY <2>14, <2>16, <4>1
    <3>2. /\ \A i, j \in 1 .. Len(H.ticks) : H.ticks[i].s = H.ticks[j].s /\ H.ticks[i].s # None => i = j
          /\ \A i \in 1 .. Len(H.ticks) : H.ticks[i].t = "free" => H.ticks[i].s # None
      BY <2>10, <2>14 DEF UsersOK
    <3>3. ASSUME NEW t \in H.attached
          PROVE  H.sock[t] # "none" /\ ~InFree(H, t) /\ H.message[t] # None
      <4>1. R.sock[t] # "none" /\ ~InFree(R, t) /\ R.message[t] # None /\ t # s
        BY <2>9, <2>10, <2>14, <3>3 DEF UsersOK, InHand
      <4> QED BY <2>14, <2>16, <4>1
    <3> QED BY <3>1, <3>2, <3>3 DEF UsersOK
  <2>20. Counted(H, 0) /\ KeysOK(H)
    BY <2>10, <2>14 DEF Counted, KeysOK, Used
  <2>21. AfterKeep(G, s, H)
    <3>1. KeepVia(G, s, M, R, H)
      BY <2>3, <2>4, <2>6, <2>8, <2>9, <2>14, <1>3 DEF KeepVia, Writable, TakenBy
    <3> QED BY <2>4, <2>10, <3>1 DEF AfterKeep
  <2> QED BY <1>3, <2>14, <2>18, <2>19, <2>20, <2>21 DEF Sound, Between
<1> QED BY <1>2, <1>3

(* onRemove() and onClose(). *)
GoneVia(G, s, P, R, H) ==
  /\ P.total = G.total - 1 /\ P.sock = G.sock /\ P.sockets = G.sockets /\ P.free = G.free
  /\ P.requests = G.requests /\ P.origin = G.origin /\ P.creating = G.creating
  /\ Sound(P, {}, 1) /\ H.creating = R.creating
  /\ Removed(P, s, G.origin[s], R)
  /\ H.sockets = R.sockets /\ H.total = R.total /\ H.free = R.free
  /\ H.sock = [R.sock EXCEPT ![s] = "none"]
AfterGone(G, s, H) == \E P \in AgentRec, R \in AgentRec : GoneVia(G, s, P, R, H)

(* The socket is uncounted, leaves the pools and is forgotten. *)
LEMMA GoneSound ==
  ASSUME NEW G, Sound(G, {}, 0), HasRoom(G), NEW s \in Sockets, G.sock[s] # "none", ~InTick(G, s),
         Writable(G, s) => ~InFree(G, s), NEW H, H = Gone(G, s)
  PROVE  Sound(H, {}, 0) /\ AfterGone(G, s, H)
<1> USE AgentAssumption
<1> DEFINE o == G.origin[s]
<1>1. /\ G \in AgentRec /\ o \in Origins /\ Counted(G, 0) /\ KeysOK(G) /\ PoolsOK(G, {}) /\ UsersOK(G)
  BY DEF Sound, PoolsOK
<1> DEFINE P == [G EXCEPT !.total = @ - 1]
           R == removeSocket(P, s)
           a == [R.sock EXCEPT ![s] = "none"]
           b == [R.origin EXCEPT ![s] = None]
           c == [R.message EXCEPT ![s] = None]
           d == [R.waiter EXCEPT ![s] = None]
           e == R.attached \ {s}
<1>2. H = [R EXCEPT !.sock = a, !.origin = b, !.message = c, !.waiter = d, !.attached = e]
  BY DEF Gone
<1>3. P = [G EXCEPT !.total = @ - 1] /\ R = removeSocket(P, s)
  OBVIOUS
<1>4. a = [R.sock EXCEPT ![s] = "none"] /\ b = [R.origin EXCEPT ![s] = None]
      /\ c = [R.message EXCEPT ![s] = None] /\ d = [R.waiter EXCEPT ![s] = None] /\ e = R.attached \ {s}
  OBVIOUS
<1> HIDE DEF P, R, a, b, c, d, e
<1>5. G.total \in Int
  BY <1>1, AgentFields
<1>6. /\ P \in AgentRec /\ P.total = G.total - 1
      /\ P.requests = G.requests /\ P.keys = G.keys /\ P.sockets = G.sockets /\ P.free = G.free
      /\ P.origin = G.origin /\ P.message = G.message /\ P.attached = G.attached
      /\ P.ticks = G.ticks /\ P.sock = G.sock /\ P.creating = G.creating
  <2> DEFINE n == G.total - 1
  <2>1. n \in Int /\ P = [G EXCEPT !.total = n]
    BY <1>3, <1>5
  <2> HIDE DEF n
  <2>2. /\ P \in AgentRec /\ P.total = n
        /\ P.requests = G.requests /\ P.keys = G.keys /\ P.sockets = G.sockets /\ P.free = G.free
        /\ P.origin = G.origin /\ P.message = G.message /\ P.attached = G.attached
        /\ P.ticks = G.ticks /\ P.sock = G.sock /\ P.creating = G.creating
    BY <1>1, <2>1 DEF AgentRec
  <2> QED BY <2>2 DEF n
<1>7. \A t : (InFree(P, t) <=> InFree(G, t)) /\ (InTick(P, t) <=> InTick(G, t))
  BY <1>6 DEF InFree, InTick
<1>8. Sound(P, {}, 1)
  <2>1. Counted(P, 1)
    BY <1>1, <1>5, <1>6 DEF Counted, Used
  <2>2. KeysOK(P) /\ PoolsOK(P, {})
    BY <1>1, <1>6, <1>7 DEF KeysOK, PoolsOK
  <2>3. UsersOK(P)
    BY <1>1, <1>6, <1>7 DEF UsersOK
  <2> QED BY <1>6, <2>1, <2>2, <2>3 DEF Sound, Between
<1>9. HasRoom(P) /\ P.sock[s] # "none" /\ ~InTick(P, s) /\ (Writable(P, s) => ~InFree(P, s))
  BY <1>6, <1>7 DEF HasRoom, Writable
<1>10. Sound(R, {s}, 1) /\ Removed(P, s, o, R)
  <2>1. Sound(R, {s}, 1) /\ Removed(P, s, P.origin[s], R)
    <3>1. 1 \in Int /\ s \in Sockets /\ R = removeSocket(P, s)
      BY <1>3
    <3> QED BY <1>8, <1>9, <3>1, removeSocketSound, Zenon
  <2> QED BY <1>6, <2>1
<1>11. /\ R \in AgentRec /\ Counted(R, 1) /\ KeysOK(R) /\ PoolsOK(R, {s}) /\ UsersOK(R)
       /\ ~InFree(R, s) /\ ~InTick(R, s) /\ R.sock[s] # "none" /\ (\A p \in Origins : s \notin R.sockets[p])
  BY <1>10 DEF Sound, Between
<1>12. /\ R.sock \in [Sockets -> SockState] /\ R.origin \in [Sockets -> Origins \cup {None}]
       /\ R.message \in [Sockets -> Reqs \cup {None}] /\ R.waiter \in [Sockets -> Reqs \cup {None}]
       /\ R.attached \in SUBSET Sockets /\ R.sockets \in [Origins -> SUBSET Sockets] /\ R.total \in Int
       /\ R.free \in [Origins -> Seq(Sockets)]
  BY <1>11, AgentFields
<1>13. /\ a \in [Sockets -> SockState] /\ b \in [Sockets -> Origins \cup {None}]
       /\ c \in [Sockets -> Reqs \cup {None}] /\ d \in [Sockets -> Reqs \cup {None}] /\ e \in SUBSET Sockets
  BY <1>4, <1>12 DEF SockState
<1>14. /\ H \in AgentRec /\ H.sock = a /\ H.origin = b /\ H.message = c /\ H.attached = e
       /\ H.requests = R.requests /\ H.keys = R.keys /\ H.sockets = R.sockets /\ H.free = R.free
       /\ H.total = R.total /\ H.ticks = R.ticks /\ H.creating = R.creating
  BY <1>2, <1>11, <1>13 DEF AgentRec
<1>15. /\ H.sock[s] = "none" /\ H.attached = R.attached \ {s}
       /\ \A t \in Sockets : t # s => H.sock[t] = R.sock[t] /\ H.origin[t] = R.origin[t] /\ H.message[t] = R.message[t]
  BY <1>4, <1>12, <1>14
<1>16. \A t : (InFree(H, t) <=> InFree(R, t)) /\ (InTick(H, t) <=> InTick(R, t))
  BY <1>14 DEF InFree, InTick
<1>17. Counted(H, 0)
  <2>1. Used(H) = Used(R) \ {s} /\ s \in Used(R)
    BY <1>11, <1>15 DEF Used
  <2>2. Cardinality(Used(H)) = Cardinality(Used(R)) - 1 /\ Cardinality(Used(R)) \in Nat
    BY <2>1, UsedFinite, FS_RemoveElement
  <2> QED BY <1>11, <1>12, <1>14, <2>2 DEF Counted
<1>18. KeysOK(H)
  BY <1>11, <1>14 DEF KeysOK
<1>19. PoolsOK(H, {})
  <2>1. ASSUME NEW t \in Sockets, H.sock[t] # "none" PROVE t # s /\ H.origin[t] \in Origins
    BY <1>11, <1>15, <2>1 DEF PoolsOK
  <2>2. ASSUME NEW p \in Origins, NEW t \in H.sockets[p]
        PROVE  H.origin[t] = p /\ H.sock[t] # "none"
    <3>1. t \in Sockets /\ t # s
      BY <1>11, <1>12, <1>14
    <3>2. R.origin[t] = p /\ R.sock[t] # "none"
      BY <1>11, <1>14 DEF PoolsOK
    <3> QED BY <1>15, <3>1, <3>2
  <2>3. ASSUME NEW p \in Origins, NEW i \in 1 .. Len(H.free[p])
        PROVE  /\ H.origin[H.free[p][i]] = p /\ H.sock[H.free[p][i]] # "none"
               /\ H.free[p][i] \notin H.sockets[p]
    <3> DEFINE t == H.free[p][i]
    <3>1. In(R.free[p], t)
      BY <1>14 DEF In
    <3> HIDE DEF t
    <3>2. t \in Sockets /\ R.origin[t] = p /\ R.sock[t] # "none" /\ t \notin R.sockets[p]
      BY <1>10, <3>1, Injected
    <3>3. t # s
      BY <1>11, <3>1 DEF InFree
    <3>4. H.origin[t] = p /\ H.sock[t] # "none" /\ t \notin H.sockets[p]
      BY <1>14, <1>15, <3>2, <3>3
    <3> QED BY <3>4 DEF t
  <2>4. \A p \in Origins : Distinct(H.free[p])
    BY <1>11, <1>14 DEF PoolsOK
  <2>5. ASSUME NEW t \in Sockets, H.sock[t] \in {"open", "ended"}
        PROVE  t \in H.sockets[H.origin[t]] \/ InFree(H, t)
    <3>1. t # s
      BY <1>15, <2>5
    <3>2. H.sock[t] = R.sock[t] /\ H.origin[t] = R.origin[t]
      BY <1>15, <3>1
    <3>3. t \in R.sockets[R.origin[t]] \/ InFree(R, t)
      BY <1>11, <2>5, <3>1, <3>2 DEF PoolsOK
    <3> QED BY <1>14, <1>16, <3>2, <3>3
  <2>6. \A p \in Origins : H.requests[p] # <<>> => H.free[p] = <<>>
    BY <1>11, <1>14 DEF PoolsOK
  <2> QED BY <2>1, <2>2, <2>3, <2>4, <2>5, <2>6 DEF PoolsOK
<1>20. UsersOK(H)
  <2>1. ASSUME NEW i \in 1 .. Len(H.ticks), H.ticks[i].s # None
        PROVE  H.sock[H.ticks[i].s] # "none" /\ ~InFree(H, H.ticks[i].s) /\ H.ticks[i].s \notin H.attached
    <3> DEFINE t == R.ticks[i].s
    <3>1. /\ i \in 1 .. Len(R.ticks) /\ t = H.ticks[i].s /\ t # None
      BY <1>14, <2>1
    <3>2. t \in Sockets /\ t # s
      BY <1>11, <3>1, TicksTyped DEF InTick
    <3>3. R.sock[t] # "none" /\ ~InFree(R, t) /\ t \notin R.attached
      BY <1>11, <3>1 DEF UsersOK
    <3> HIDE DEF t
    <3>4. H.sock[t] # "none" /\ ~InFree(H, t) /\ t \notin H.attached
      BY <1>15, <1>16, <3>2, <3>3
    <3> QED BY <3>1, <3>4
  <2>2. /\ \A i, j \in 1 .. Len(H.ticks) : H.ticks[i].s = H.ticks[j].s /\ H.ticks[i].s # None => i = j
        /\ \A i \in 1 .. Len(H.ticks) : H.ticks[i].t = "free" => H.ticks[i].s # None
    BY <1>11, <1>14 DEF UsersOK
  <2>3. ASSUME NEW t \in H.attached
        PROVE  H.sock[t] # "none" /\ ~InFree(H, t) /\ H.message[t] # None
    <3>1. t \in Sockets /\ t # s /\ R.sock[t] # "none" /\ ~InFree(R, t) /\ R.message[t] # None
      BY <1>11, <1>12, <1>15 DEF UsersOK
    <3> QED BY <1>15, <1>16, <3>1
  <2> QED BY <2>1, <2>2, <2>3 DEF UsersOK
<1>21. AfterGone(G, s, H)
  <2>1. GoneVia(G, s, P, R, H)
    BY <1>4, <1>6, <1>8, <1>10, <1>14 DEF GoneVia
  <2> QED BY <1>6, <1>11, <2>1 DEF AfterGone
<1> QED BY <1>14, <1>17, <1>18, <1>19, <1>20, <1>21 DEF Sound, Between

-----------------------------------------------------------------------------

(* The free sockets after the destroyed ones at the head: a part of the pool, *)
(* and only destroyed sockets are left out.                                   *)
LEMMA SkipIs ==
  ASSUME NEW G, NEW q \in Seq(Sockets), Distinct(q), NEW f, f = Skip(G, q)
  PROVE  /\ f \in Seq(Sockets) /\ Distinct(f) /\ Len(f) <= Len(q)
         /\ \A t : In(f, t) => In(q, t)
         /\ \A t : In(q, t) => In(f, t) \/ G.sock[t] = "destroyed"
<1> DEFINE D == {i \in DOMAIN q : \A j \in 1 .. i : G.sock[q[j]] = "destroyed"}
           n == Len(q)
           T == (1 .. n + 1) \ D
<1>1. DOMAIN q = 1 .. n /\ n \in Nat
  OBVIOUS
<1>2. n + 1 \in T /\ T \in SUBSET Nat
  BY <1>1
<1>3. PICK l \in T : \A m \in T : l <= m
  <2>1. T # {} /\ T \in SUBSET Nat
    BY <1>2
  <2> HIDE DEF T
  <2> QED BY <2>1, LeastNat
<1>4. l \in 1 .. n + 1 /\ l \notin D /\ \A m \in 1 .. n + 1 : m < l => m \in D
  BY <1>1, <1>3
<1>5. D = 1 .. l - 1
  <2>1. \A m \in 1 .. l - 1 : m \in D
    BY <1>1, <1>4
  <2>2. ASSUME NEW m \in D, ~(m < l) PROVE FALSE
    <3>1. l \in DOMAIN q /\ \A j \in 1 .. l : j \in 1 .. m
      BY <1>1, <1>4, <2>2
    <3>2. \A j \in 1 .. l : G.sock[q[j]] = "destroyed"
      BY <2>2, <3>1
    <3> QED BY <1>4, <3>1, <3>2
  <2>3. D \subseteq 1 .. n
    BY <1>1
  <2> QED BY <1>1, <1>4, <2>1, <2>2, <2>3
<1>6. \A j \in 1 .. l - 1 : G.sock[q[j]] = "destroyed"
  BY <1>1, <1>4, <1>5
<1> DEFINE c == Cardinality(D)
<1>7. c = l - 1
  <2>1. l - 1 \in Int /\ 1 \in Int /\ l \in Nat /\ l > 0
    BY <1>1, <1>4
  <2> HIDE DEF D, T
  <2>2. Cardinality(1 .. l - 1) = IF 1 > l - 1 THEN 0 ELSE (l - 1) - 1 + 1
    BY <2>1, FS_Interval
  <2> QED BY <1>5, <2>1, <2>2
<1>8. f = SubSeq(q, c + 1, n)
  BY DEF Skip
<1> HIDE DEF D, T, c
<1>9. f = SubSeq(q, l, n)
  BY <1>1, <1>4, <1>7, <1>8
<1>10. \A i \in l .. n : q[i] \in Sockets
  BY <1>1, <1>4
<1>11. /\ f \in Seq(Sockets) /\ Len(f) = n - l + 1
       /\ \A i \in 1 .. n - l + 1 : f[i] = q[l + i - 1]
  <2> HIDE DEF n
  <2>1. l \in Int /\ n \in Int
    BY <1>1, <1>4
  <2>2. /\ SubSeq(q, l, n) \in Seq(Sockets)
        /\ Len(SubSeq(q, l, n)) = IF l <= n THEN n - l + 1 ELSE 0
        /\ \A i \in 1 .. n - l + 1 : SubSeq(q, l, n)[i] = q[l + i - 1]
    BY <1>10, <2>1, SubSeqProperties
  <2> QED BY <1>1, <1>4, <1>9, <2>2
<1>12. ASSUME NEW m \in l .. n PROVE f[m - l + 1] = q[m] /\ m - l + 1 \in 1 .. Len(f)
  <2> HIDE DEF n
  <2>1. l \in Nat /\ m \in Nat /\ l <= m /\ m <= n
    BY <1>1, <1>4
  <2>2. m - l + 1 \in 1 .. n - l + 1 /\ l + (m - l + 1) - 1 = m
    BY <1>1, <2>1
  <2>3. f[m - l + 1] = q[l + (m - l + 1) - 1]
    BY <1>11, <2>2
  <2> QED BY <1>11, <2>2, <2>3
<1>13. \A i \in 1 .. Len(f) : f[i] = q[l + i - 1] /\ l + i - 1 \in 1 .. n
  BY <1>1, <1>4, <1>11
<1>14. \A t : In(f, t) => In(q, t)
  BY <1>13 DEF In
<1>15. ASSUME NEW t, In(q, t), ~In(f, t) PROVE G.sock[t] = "destroyed"
  <2>1. PICK m \in 1 .. n : q[m] = t
    BY <1>15 DEF In
  <2>2. ~(m \in l .. n)
    BY <1>12, <1>15, <2>1 DEF In
  <2>3. m \in 1 .. l - 1
    BY <1>1, <1>4, <2>2
  <2> QED BY <1>6, <2>1, <2>3
<1>16. Distinct(f)
  <2>1. \A a, b \in 1 .. n : q[a] = q[b] => a = b
    BY DEF Distinct
  <2> SUFFICES ASSUME NEW i \in 1 .. Len(f), NEW j \in 1 .. Len(f), f[i] = f[j] PROVE i = j
    BY DEF Distinct
  <2>2. q[l + i - 1] = q[l + j - 1] /\ l + i - 1 \in 1 .. n /\ l + j - 1 \in 1 .. n
    BY <1>13
  <2>3. l + i - 1 = l + j - 1
    BY <2>1, <2>2
  <2>4. l \in Int /\ i \in Int /\ j \in Int
    BY <1>1, <1>4
  <2> QED BY <2>3, <2>4
<1> QED BY <1>1, <1>4, <1>11, <1>14, <1>15, <1>16

(* The socket that scheduling chooses, and the others. *)
LEMMA RestIs ==
  ASSUME NEW q \in Seq(Sockets), Distinct(q), q # <<>>, NEW f, f = Rest(q), NEW c, c = Chosen(q)
  PROVE  /\ f \in Seq(Sockets) /\ Distinct(f) /\ c \in Sockets /\ In(q, c) /\ Len(f) = Len(q) - 1
         /\ \A t : In(f, t) <=> In(q, t) /\ t # c
<1> DEFINE n == Len(q)
<1>1. n \in Nat /\ n > 0 /\ \A i \in 1 .. n : q[i] \in Sockets
  BY EmptySeq
<1>2. \A i, j \in 1 .. n : q[i] = q[j] => i = j
  BY DEF Distinct
<1>3. CASE opt.scheduling = "fifo"
  <2>1. f = Tail(q) /\ c = q[1]
    BY <1>3 DEF Rest, Chosen
  <2>2. f \in Seq(Sockets) /\ Len(f) = n - 1 /\ \A i \in 1 .. n - 1 : f[i] = q[i + 1]
    BY <2>1, HeadTailProperties
  <2> HIDE DEF n
  <2>3. \A i \in 1 .. n : i = 1 \/ (i - 1 \in 1 .. n - 1 /\ f[i - 1] = q[i])
    BY <1>1, <2>2
  <2>4. 1 \in 1 .. n /\ \A i \in 1 .. n - 1 : i + 1 \in 1 .. n /\ i + 1 # 1
    BY <1>1
  <2>5. \A t : In(q, t) <=> \E i \in 1 .. n : q[i] = t
    BY DEF In, n
  <2>6. \A t : In(f, t) <=> \E i \in 1 .. n - 1 : f[i] = t
    BY <2>2 DEF In
  <2>7. ASSUME NEW t PROVE In(f, t) <=> In(q, t) /\ t # c
    BY <1>2, <2>1, <2>2, <2>3, <2>4, <2>5, <2>6
  <2>8. Distinct(f)
    <3> SUFFICES ASSUME NEW i \in 1 .. n - 1, NEW j \in 1 .. n - 1, f[i] = f[j] PROVE i = j
      BY <2>2 DEF Distinct
    <3>1. i + 1 = j + 1
      BY <1>2, <2>2, <2>4
    <3> QED BY <3>1
  <2> QED BY <1>1, <2>1, <2>2, <2>4, <2>5, <2>7, <2>8 DEF n
<1>4. CASE opt.scheduling # "fifo"
  <2>1. f = SubSeq(q, 1, n - 1) /\ c = q[n]
    BY <1>4 DEF Rest, Chosen
  <2>2. f \in Seq(Sockets) /\ Len(f) = n - 1 /\ \A i \in 1 .. n - 1 : f[i] = q[i]
    <3>1. \A i \in 1 .. n - 1 : q[i] \in Sockets
      BY <1>1
    <3> HIDE DEF n
    <3>2. /\ SubSeq(q, 1, n - 1) \in Seq(Sockets)
          /\ Len(SubSeq(q, 1, n - 1)) = IF 1 <= n - 1 THEN (n - 1) - 1 + 1 ELSE 0
          /\ \A i \in 1 .. (n - 1) - 1 + 1 : SubSeq(q, 1, n - 1)[i] = q[1 + i - 1]
      BY <1>1, <3>1, SubSeqProperties
    <3> QED BY <1>1, <2>1, <3>2
  <2> HIDE DEF n
  <2>3. n \in 1 .. n /\ \A i : i \in 1 .. n <=> i \in 1 .. n - 1 \/ i = n
    BY <1>1
  <2>4. \A i \in 1 .. n - 1 : i # n
    BY <1>1
  <2>5. \A t : In(q, t) <=> \E i \in 1 .. n : q[i] = t
    BY DEF In, n
  <2>6. \A t : In(f, t) <=> \E i \in 1 .. n - 1 : f[i] = t
    BY <2>2 DEF In
  <2>7. ASSUME NEW t PROVE In(f, t) <=> In(q, t) /\ t # c
    BY <1>2, <2>1, <2>2, <2>3, <2>4, <2>5, <2>6
  <2>8. Distinct(f)
    <3> SUFFICES ASSUME NEW i \in 1 .. n - 1, NEW j \in 1 .. n - 1, f[i] = f[j] PROVE i = j
      BY <2>2 DEF Distinct
    <3> QED BY <1>2, <2>2, <2>3
  <2> QED BY <1>1, <2>1, <2>2, <2>3, <2>5, <2>7, <2>8 DEF n
<1> QED BY <1>3, <1>4

(* Sockets leave the pool of an origin: destroyed ones, and those of A, which *)
(* are used from now on.                                                      *)
LEMMA TakeSound ==
  ASSUME NEW G, Sound(G, {}, 0), NEW o \in Origins, NEW f \in Seq(Sockets), Distinct(f), NEW A \in SUBSET Sockets,
         \A t : In(f, t) => In(G.free[o], t) /\ t \notin A,
         \A t \in A : In(G.free[o], t),
         \A t : In(G.free[o], t) => In(f, t) \/ t \in A \/ G.sock[t] = "destroyed",
         NEW H \in AgentRec, H.free = [G.free EXCEPT ![o] = f], H.sockets = [G.sockets EXCEPT ![o] = @ \cup A],
         H.requests = G.requests, H.keys = G.keys, H.ticks = G.ticks,
         H.total = G.total, H.sock = G.sock, H.origin = G.origin, H.message = G.message,
         H.attached = G.attached
  PROVE  Sound(H, {}, 0) /\ \A c \in A : InHand(H, c)
<1> USE AgentAssumption
<1>1. /\ G \in AgentRec /\ Counted(G, 0) /\ KeysOK(G) /\ PoolsOK(G, {}) /\ UsersOK(G)
  BY DEF Sound
<1>2. /\ G.free \in [Origins -> Seq(Sockets)] /\ G.sockets \in [Origins -> SUBSET Sockets]
      /\ G.sock \in [Sockets -> SockState] /\ G.attached \in SUBSET Sockets
  BY <1>1, AgentFields
<1>3. H.free[o] = f /\ \A p \in Origins : p # o => H.free[p] = G.free[p]
  BY <1>2
<1>4. \A p \in Origins : \A t : In(H.free[p], t) => In(G.free[p], t) /\ t \notin A
  <2>1. \A p \in Origins : \A t : In(G.free[p], t) => G.origin[t] = p
    BY Injected
  <2> SUFFICES ASSUME NEW p \in Origins, NEW t, In(H.free[p], t) PROVE In(G.free[p], t) /\ t \notin A
    OBVIOUS
  <2>2. CASE p = o
    <3>1. In(f, t)
      BY <1>3, <2>2
    <3> QED BY <2>2, <3>1
  <2>3. CASE p # o
    <3>1. In(G.free[p], t)
      BY <1>3, <2>3
    <3>2. G.origin[t] = p
      BY <2>1, <3>1
    <3>3. ASSUME t \in A PROVE FALSE
      <4>1. In(G.free[o], t)
        BY <3>3
      <4>2. G.origin[t] = o
        BY <2>1, <4>1
      <4> QED BY <2>3, <3>2, <4>2
    <3> QED BY <3>1, <3>3
  <2> QED BY <2>2, <2>3
<1>5. \A t : InFree(H, t) => InFree(G, t) /\ t \notin A
  BY <1>4 DEF InFree
<1>6. \A p \in Origins : \A t : t \in H.sockets[p] <=> t \in G.sockets[p] \/ (p = o /\ t \in A)
  BY <1>2
<1>7. \A t \in A : t \in Sockets /\ G.origin[t] = o /\ G.sock[t] # "none" /\ InFree(G, t)
  BY Injected DEF InFree
<1>8. Counted(H, 0) /\ KeysOK(H)
  BY <1>1 DEF Counted, KeysOK, Used
<1>9. PoolsOK(H, {})
  <2>1. \A t \in Sockets : H.sock[t] # "none" => H.origin[t] \in Origins
    BY <1>1 DEF PoolsOK
  <2>2. ASSUME NEW p \in Origins, NEW t \in H.sockets[p]
        PROVE  H.origin[t] = p /\ H.sock[t] # "none"
    <3>1. CASE t \in G.sockets[p]
      BY <1>1, <3>1 DEF PoolsOK
    <3>2. CASE p = o /\ t \in A
      BY <1>7, <3>2
    <3> QED BY <1>6, <3>1, <3>2
  <2>3. ASSUME NEW p \in Origins, NEW i \in 1 .. Len(H.free[p])
        PROVE  /\ H.origin[H.free[p][i]] = p /\ H.sock[H.free[p][i]] # "none"
               /\ H.free[p][i] \notin H.sockets[p]
    <3> DEFINE t == H.free[p][i]
    <3>1. In(H.free[p], t)
      BY DEF In
    <3> HIDE DEF t
    <3>2. In(G.free[p], t) /\ t \notin A
      BY <1>4, <3>1
    <3>3. G.origin[t] = p /\ G.sock[t] # "none" /\ t \notin G.sockets[p]
      BY <3>2, Injected
    <3> QED BY <1>6, <3>2, <3>3 DEF t
  <2>4. \A p \in Origins : Distinct(H.free[p])
    BY <1>1, <1>3 DEF PoolsOK
  <2>5. ASSUME NEW t \in Sockets, H.sock[t] \in {"open", "ended"}
        PROVE  t \in H.sockets[H.origin[t]] \/ InFree(H, t)
    <3>1. G.sock[t] # "destroyed" /\ G.origin[t] \in Origins
      BY <1>1, <2>5 DEF PoolsOK
    <3>2. t \in G.sockets[G.origin[t]] \/ InFree(G, t)
      BY <1>1, <2>5 DEF PoolsOK
    <3>3. CASE t \in G.sockets[G.origin[t]]
      BY <1>6, <3>1, <3>3
    <3>4. CASE InFree(G, t)
      <4>1. PICK p \in Origins : In(G.free[p], t)
        BY <3>4 DEF InFree
      <4>2. G.origin[t] = p
        BY <4>1, Injected
      <4>3. CASE p # o
        BY <1>3, <4>1, <4>3 DEF InFree
      <4>4. CASE p = o
        <5>1. In(f, t) \/ t \in A
          BY <3>1, <4>1, <4>4
        <5> QED BY <1>3, <1>6, <4>2, <4>4, <5>1 DEF InFree
      <4> QED BY <4>3, <4>4
    <3> QED BY <3>2, <3>3, <3>4
  <2>6. ASSUME NEW p \in Origins, H.requests[p] # <<>>
        PROVE  H.free[p] = <<>>
    <3>1. G.free[p] = <<>>
      BY <1>1, <2>6 DEF PoolsOK
    <3>2. \A t : ~In(H.free[p], t)
      <4>1. \A t : ~In(G.free[p], t)
        BY <3>1 DEF In
      <4> QED BY <1>4, <4>1
    <3>3. H.free[p] \in Seq(Sockets)
      BY <1>2
    <3> DEFINE w == H.free[p]
    <3> HIDE DEF w
    <3>4. w \in Seq(Sockets) /\ \A t : ~In(w, t)
      BY <3>2, <3>3 DEF w
    <3>5. ~(1 \in 1 .. Len(w))
      BY <3>4 DEF In
    <3>6. w = <<>>
      BY <3>4, <3>5, EmptySeq
    <3> QED BY <3>6 DEF w
  <2> QED BY <2>1, <2>2, <2>3, <2>4, <2>5, <2>6 DEF PoolsOK
<1>10. UsersOK(H)
  <2>1. ASSUME NEW i \in 1 .. Len(H.ticks), H.ticks[i].s # None
        PROVE  H.sock[H.ticks[i].s] # "none" /\ ~InFree(H, H.ticks[i].s) /\ H.ticks[i].s \notin H.attached
    BY <1>1, <1>5, <2>1 DEF UsersOK
  <2>2. \A t \in H.attached : H.sock[t] # "none" /\ ~InFree(H, t) /\ H.message[t] # None
    BY <1>1, <1>5 DEF UsersOK
  <2> QED BY <1>1, <2>1, <2>2 DEF UsersOK
<1>11. ASSUME NEW c \in A PROVE InHand(H, c)
  <2>1. c \in Sockets /\ InFree(G, c) /\ H.sock[c] # "none" /\ ~InFree(H, c)
    BY <1>5, <1>7
  <2>2. c # None /\ ~InTick(G, c) /\ c \notin G.attached
    BY <1>1, <2>1 DEF UsersOK, InTick
  <2> QED BY <2>1, <2>2 DEF InHand, InTick
<1> QED BY <1>8, <1>9, <1>10, <1>11 DEF Sound, Between

(* A request waits for an origin that has no free socket. *)
LEMMA EnqueuedSound ==
  ASSUME NEW G, Sound(G, {}, 0), NEW o \in Origins, G.free[o] = <<>>, NEW r \in Reqs,
         NEW H, H = Enqueued(G, r, o)
  PROVE  /\ Sound(H, {}, 0) /\ H.sockets = G.sockets /\ H.total = G.total /\ H.free = G.free /\ H.sock = G.sock
         /\ H.creating = G.creating
<1> DEFINE q == Append(G.requests[o], r)
           a == [G.requests EXCEPT ![o] = q]
           b == G.options \cup {r}
           c == IF G.requests[o] = <<>> THEN Append(G.keys, o) ELSE G.keys
<1>1. /\ G \in AgentRec /\ Counted(G, 0) /\ KeysOK(G) /\ PoolsOK(G, {}) /\ UsersOK(G)
  BY DEF Sound
<1>2. /\ G.requests \in [Origins -> Seq(Reqs)] /\ G.requests[o] \in Seq(Reqs)
      /\ G.options \in SUBSET Reqs /\ G.keys \in Seq(Origins)
  BY <1>1, AgentFields
<1>3. q \in Seq(Reqs) /\ q # <<>>
  BY <1>2, AppendProperties
<1>4. /\ a \in [Origins -> Seq(Reqs)] /\ \A p \in Origins : a[p] # <<>> <=> G.requests[p] # <<>> \/ p = o
  <2> HIDE DEF q
  <2> QED BY <1>2, <1>3
<1>5. b \in SUBSET Reqs
  BY <1>2
<1>6. Distinct(G.keys) /\ \A p \in Origins : G.requests[p] # <<>> <=> In(G.keys, p)
  BY <1>1 DEF KeysOK
<1>7. c \in Seq(Origins) /\ Distinct(c) /\ \A p \in Origins : In(c, p) <=> In(G.keys, p) \/ p = o
  <2>1. CASE G.requests[o] = <<>>
    <3> DEFINE w == Append(G.keys, o)
    <3>1. w \in Seq(Origins) /\ Appended(w, G.keys, o)
      BY <1>2, AppendIn
    <3> HIDE DEF w
    <3>2. Distinct(w) /\ \A p \in Origins : In(w, p) <=> In(G.keys, p) \/ p = o
      BY <1>6, <2>1, <3>1 DEF Appended
    <3> QED BY <2>1, <3>1, <3>2 DEF w
  <2>2. CASE G.requests[o] # <<>>
    BY <1>2, <1>6, <2>2
  <2> QED BY <2>1, <2>2
<1>8. H = [G EXCEPT !.requests = a, !.options = b, !.keys = c]
  BY DEF Enqueued
<1> HIDE DEF q, a, b, c
<1>9. /\ H \in AgentRec /\ H.requests = a /\ H.keys = c /\ H.sockets = G.sockets /\ H.free = G.free
      /\ H.total = G.total /\ H.sock = G.sock /\ H.origin = G.origin /\ H.message = G.message
      /\ H.attached = G.attached /\ H.ticks = G.ticks /\ H.creating = G.creating
  BY <1>1, <1>4, <1>5, <1>7, <1>8 DEF AgentRec
<1>10. \A t : (InFree(H, t) <=> InFree(G, t)) /\ (InTick(H, t) <=> InTick(G, t))
  BY <1>9 DEF InFree, InTick
<1>11. Counted(H, 0)
  BY <1>1, <1>9 DEF Counted, Used
<1>12. KeysOK(H)
  BY <1>4, <1>6, <1>7, <1>9 DEF KeysOK
<1>13. PoolsOK(H, {})
  BY <1>1, <1>4, <1>9, <1>10 DEF PoolsOK
<1>14. UsersOK(H)
  BY <1>1, <1>9, <1>10 DEF UsersOK
<1> QED BY <1>9, <1>11, <1>12, <1>13, <1>14 DEF Sound, Between

(* The first tick is taken: its socket is in hand. *)
LEMMA TickedSound ==
  ASSUME NEW G, Sound(G, {}, 0), G.ticks # <<>>, NEW H, H = [G EXCEPT !.ticks = Tail(@)], NEW e, e = Head(G.ticks)
  PROVE  /\ Sound(H, {}, 0) /\ e \in TickRec /\ (e.s # None => InHand(H, e.s)) /\ (e.t = "free" => e.s # None)
         /\ H.sock = G.sock /\ H.sockets = G.sockets /\ H.free = G.free /\ H.total = G.total /\ H.origin = G.origin
         /\ H.creating = G.creating
<1>1. /\ G \in AgentRec /\ Counted(G, 0) /\ KeysOK(G) /\ PoolsOK(G, {}) /\ UsersOK(G)
  BY DEF Sound
<1> DEFINE w == Tail(G.ticks)
           n == Len(G.ticks)
<1>2. G.ticks \in Seq(TickRec)
  BY <1>1, AgentFields
<1>3. /\ w \in Seq(TickRec) /\ Len(w) = n - 1 /\ n \in Nat /\ n > 0 /\ e \in TickRec /\ e = G.ticks[1]
      /\ \A i \in 1 .. n - 1 : w[i] = G.ticks[i + 1]
  BY <1>2, HeadTailProperties, EmptySeq
<1>4. H = [G EXCEPT !.ticks = w]
  OBVIOUS
<1> HIDE DEF w, n
<1>5. /\ H \in AgentRec /\ H.ticks = w
      /\ H.requests = G.requests /\ H.keys = G.keys /\ H.sockets = G.sockets /\ H.free = G.free
      /\ H.total = G.total /\ H.sock = G.sock /\ H.origin = G.origin /\ H.message = G.message
      /\ H.attached = G.attached /\ H.creating = G.creating
  BY <1>1, <1>3, <1>4 DEF AgentRec
<1>6. \A t : InFree(H, t) <=> InFree(G, t)
  BY <1>5 DEF InFree
<1>7. Counted(H, 0) /\ KeysOK(H) /\ PoolsOK(H, {})
  BY <1>1, <1>5, <1>6 DEF Counted, KeysOK, PoolsOK, Used
<1>8. \A i \in 1 .. n - 1 : i + 1 \in 1 .. n /\ i + 1 # 1 /\ H.ticks[i] = G.ticks[i + 1]
  BY <1>3, <1>5
<1>9. /\ \A i \in 1 .. n : G.ticks[i].s # None =>
            G.sock[G.ticks[i].s] # "none" /\ ~InFree(G, G.ticks[i].s) /\ G.ticks[i].s \notin G.attached
      /\ \A i, j \in 1 .. n : G.ticks[i].s = G.ticks[j].s /\ G.ticks[i].s # None => i = j
      /\ \A i \in 1 .. n : G.ticks[i].t = "free" => G.ticks[i].s # None
      /\ \A t \in G.attached : G.sock[t] # "none" /\ ~InFree(G, t) /\ G.message[t] # None
  BY <1>1 DEF UsersOK, n
<1>10. UsersOK(H)
  <2>1. ASSUME NEW i \in 1 .. n - 1, H.ticks[i].s # None
        PROVE  H.sock[H.ticks[i].s] # "none" /\ ~InFree(H, H.ticks[i].s) /\ H.ticks[i].s \notin H.attached
    <3>1. i + 1 \in 1 .. n /\ H.ticks[i] = G.ticks[i + 1]
      BY <1>8
    <3> DEFINE m == i + 1
    <3>2. m \in 1 .. n /\ H.ticks[i] = G.ticks[m]
      BY <3>1
    <3> HIDE DEF m
    <3>3. G.sock[G.ticks[m].s] # "none" /\ ~InFree(G, G.ticks[m].s) /\ G.ticks[m].s \notin G.attached
      BY <1>9, <2>1, <3>2
    <3> QED BY <1>5, <1>6, <3>2, <3>3
  <2>2. ASSUME NEW i \in 1 .. n - 1, NEW j \in 1 .. n - 1, H.ticks[i].s = H.ticks[j].s, H.ticks[i].s # None
        PROVE  i = j
    <3>1. i + 1 = j + 1
      BY <1>8, <1>9, <2>2
    <3> QED BY <3>1
  <2>3. ASSUME NEW i \in 1 .. n - 1, H.ticks[i].t = "free" PROVE H.ticks[i].s # None
    <3> DEFINE m == i + 1
    <3>1. m \in 1 .. n /\ H.ticks[i] = G.ticks[m]
      BY <1>8
    <3> HIDE DEF m
    <3> QED BY <1>9, <2>3, <3>1
  <2>4. \A t \in H.attached : H.sock[t] # "none" /\ ~InFree(H, t) /\ H.message[t] # None
    BY <1>5, <1>6, <1>9
  <2>5. Len(H.ticks) = n - 1
    BY <1>3, <1>5
  <2> QED BY <2>1, <2>2, <2>3, <2>4, <2>5 DEF UsersOK
<1>11. ASSUME e.s # None PROVE InHand(H, e.s)
  <2>1. 1 \in 1 .. n /\ G.ticks[1].s = e.s
    BY <1>3
  <2>2. e.s \in Sockets
    BY <1>3, <1>11 DEF TickRec
  <2>3. G.sock[e.s] # "none" /\ ~InFree(G, e.s) /\ e.s \notin G.attached
    BY <1>9, <1>11, <2>1
  <2>4. \A i \in 1 .. n - 1 : H.ticks[i].s # e.s
    BY <1>8, <1>9, <1>11, <2>1
  <2>5. ~InTick(H, e.s)
    BY <1>3, <1>5, <2>4 DEF InTick
  <2> QED BY <1>5, <1>6, <2>2, <2>3, <2>5 DEF InHand
<1>12. e.t = "free" => e.s # None
  BY <1>3, <1>9
<1> QED BY <1>3, <1>5, <1>7, <1>10, <1>11, <1>12 DEF Sound, Between

(* The listeners of _http_client.js are put on a socket, or taken off it. *)
LEMMA AttachSound ==
  ASSUME NEW G, Sound(G, {}, 0), NEW s, InHand(G, s), NEW r \in Reqs,
         NEW H \in AgentRec, H.attached = G.attached \cup {s}, H.message = [G.message EXCEPT ![s] = r],
         H.requests = G.requests, H.keys = G.keys, H.sockets = G.sockets, H.free = G.free,
         H.total = G.total, H.origin = G.origin, H.ticks = G.ticks, H.sock = G.sock
  PROVE  Sound(H, {}, 0)
<1> USE AgentAssumption
<1>1. /\ G \in AgentRec /\ Counted(G, 0) /\ KeysOK(G) /\ PoolsOK(G, {}) /\ UsersOK(G)
  BY DEF Sound
<1>2. G.message \in [Sockets -> Reqs \cup {None}] /\ G.attached \in SUBSET Sockets /\ s \in Sockets
  BY <1>1, AgentFields DEF InHand
<1>3. \A t : (InFree(H, t) <=> InFree(G, t)) /\ (InTick(H, t) <=> InTick(G, t))
  BY DEF InFree, InTick
<1>4. Counted(H, 0) /\ KeysOK(H) /\ PoolsOK(H, {})
  BY <1>1, <1>3 DEF Counted, KeysOK, PoolsOK, Used
<1>5. ASSUME NEW t \in H.attached PROVE H.sock[t] # "none" /\ ~InFree(H, t) /\ H.message[t] # None
  <2>1. CASE t = s
    <3>1. G.sock[s] # "none" /\ ~InFree(G, s) /\ r # None
      BY DEF InHand
    <3> QED BY <1>2, <1>3, <2>1, <3>1
  <2>2. CASE t # s
    <3>1. t \in G.attached /\ G.sock[t] # "none" /\ ~InFree(G, t) /\ G.message[t] # None
      BY <1>1, <2>2 DEF UsersOK
    <3> QED BY <1>2, <1>3, <2>2, <3>1
  <2> QED BY <2>1, <2>2
<1>6. ASSUME NEW i \in 1 .. Len(H.ticks), H.ticks[i].s # None
      PROVE  H.sock[H.ticks[i].s] # "none" /\ ~InFree(H, H.ticks[i].s) /\ H.ticks[i].s \notin H.attached
  <2>1. G.ticks[i].s # s
    BY <1>6 DEF InHand, InTick
  <2>2. G.sock[G.ticks[i].s] # "none" /\ ~InFree(G, G.ticks[i].s) /\ G.ticks[i].s \notin G.attached
    BY <1>1, <1>6 DEF UsersOK
  <2> QED BY <1>3, <2>1, <2>2
<1>7. UsersOK(H)
  BY <1>1, <1>5, <1>6 DEF UsersOK
<1> QED BY <1>4, <1>7 DEF Sound, Between

(* The listeners of _http_client.js are taken off: the socket is in hand. *)
LEMMA DetachSound ==
  ASSUME NEW G, Sound(G, {}, 0), NEW s \in G.attached, NEW H, H = Detached(G, s)
  PROVE  /\ Sound(H, {}, 0) /\ InHand(H, s)
         /\ H.sock = G.sock /\ H.sockets = G.sockets /\ H.free = G.free /\ H.total = G.total /\ H.origin = G.origin
         /\ H.message = G.message /\ H.creating = G.creating
<1> USE AgentAssumption
<1>1. /\ G \in AgentRec /\ Counted(G, 0) /\ KeysOK(G) /\ PoolsOK(G, {}) /\ UsersOK(G)
  BY DEF Sound
<1>2. G.attached \in SUBSET Sockets
  BY <1>1, AgentFields
<1> DEFINE a == G.attached \ {s}
<1>3. a \in SUBSET Sockets /\ H = [G EXCEPT !.attached = a]
  BY <1>2 DEF Detached
<1> HIDE DEF a
<1>4. /\ H \in AgentRec /\ H.attached = a
      /\ H.requests = G.requests /\ H.keys = G.keys /\ H.sockets = G.sockets /\ H.free = G.free
      /\ H.total = G.total /\ H.sock = G.sock /\ H.origin = G.origin /\ H.message = G.message
      /\ H.ticks = G.ticks /\ H.creating = G.creating
  BY <1>1, <1>3 DEF AgentRec
<1>5. \A t : (InFree(H, t) <=> InFree(G, t)) /\ (InTick(H, t) <=> InTick(G, t))
  BY <1>4 DEF InFree, InTick
<1>6. Counted(H, 0) /\ KeysOK(H) /\ PoolsOK(H, {})
  BY <1>1, <1>4, <1>5 DEF Counted, KeysOK, PoolsOK, Used
<1>7. UsersOK(H)
  BY <1>1, <1>4, <1>5 DEF UsersOK, a
<1>8. s \in Sockets /\ G.sock[s] # "none" /\ ~InFree(G, s) /\ ~InTick(G, s)
  BY <1>1, <1>2 DEF UsersOK, InTick
<1>9. InHand(H, s)
  BY <1>4, <1>5, <1>8 DEF InHand, a
<1> QED BY <1>4, <1>6, <1>7, <1>9 DEF Sound, Between

-----------------------------------------------------------------------------
(* How many sockets an origin has, and the agent, before a step and after it. *)
SizeOf(G, o) == Cardinality(G.sockets[o]) + Len(G.free[o])
(* The limit of all origins, with the socket that removeSocket() makes while a *)
(* free one is kept.                                                           *)
TotalCap == opt.maxTotalSockets + (IF opt.keepAlive THEN 1 ELSE 0)

(* The 'close' of a socket that addRequest() had dropped from the pool. *)
Dropped(G, o, H) ==
  \E s \in Sockets :
    /\ G.sock[s] = "destroyed" /\ G.origin[s] = o /\ H.sock[s] = "none"
    /\ s \notin G.sockets[o] /\ ~In(G.free[o], s)

(* What a step may do to the sizes: behind no tunnel, no count grows past its *)
(* limit but by the 'close' of a dropped socket.                              *)
Grows(G, H) ==
  ~opt.tunnel /\ G.creating = NoTunnel =>
    /\ H.creating = NoTunnel
    /\ H.total <= G.total \/ H.total <= TotalCap
    /\ \A o \in Origins : SizeOf(H, o) <= SizeOf(G, o) \/ SizeOf(H, o) <= opt.maxSockets \/ Dropped(G, o, H)

(* The sizes are numbers. *)
LEMMA SizeNat ==
  ASSUME NEW G \in AgentRec, NEW o \in Origins
  PROVE  /\ IsFiniteSet(G.sockets[o]) /\ Cardinality(G.sockets[o]) \in Nat /\ Len(G.free[o]) \in Nat
         /\ SizeOf(G, o) = Cardinality(G.sockets[o]) + Len(G.free[o]) /\ SizeOf(G, o) \in Nat
         /\ G.total \in Int
<1> USE AgentAssumption
<1>1. G.sockets[o] \in SUBSET Sockets /\ G.free[o] \in Seq(Sockets) /\ G.total \in Int
  BY AgentFields
<1>2. IsFiniteSet(Sockets)
  BY FS_Interval DEF Sockets
<1>3. IsFiniteSet(G.sockets[o]) /\ Cardinality(G.sockets[o]) \in Nat
  BY <1>1, <1>2, FS_Subset, FS_CardinalityType
<1>4. Len(G.free[o]) \in Nat
  BY <1>1
<1> QED BY <1>1, <1>3, <1>4 DEF SizeOf

(* The limits are numbers. *)
LEMMA CapIs ==
  ASSUME opt \in Options
  PROVE  /\ opt.maxSockets \in Nat /\ opt.maxSockets >= 1 /\ opt.maxTotalSockets \in Nat
         /\ TotalCap \in Nat /\ opt.maxTotalSockets <= TotalCap
         /\ opt.keepAlive => TotalCap = opt.maxTotalSockets + 1
         /\ opt.keepAlive \in BOOLEAN /\ opt.tunnel \in BOOLEAN
<1>1. opt \in [keepAlive : BOOLEAN, scheduling : {"fifo", "lifo"}, tunnel : BOOLEAN,
                maxSockets : Limits, maxTotalSockets : Limits, maxFreeSockets : Limits]
  BY AgentAssumption
<1>2. /\ opt.maxSockets \in Nat \ {0} /\ opt.maxTotalSockets \in Nat \ {0} /\ opt.keepAlive \in BOOLEAN
      /\ opt.tunnel \in BOOLEAN
  BY <1>1 DEF Limits
<1> QED BY <1>2 DEF TotalCap

(* A step that leaves the pools and the count alone. *)
LEMMA SameGrows ==
  ASSUME opt \in Options, NEW G \in AgentRec, NEW H \in AgentRec, H.sockets = G.sockets, H.free = G.free,
         H.total = G.total, H.creating = G.creating
  PROVE  Grows(G, H)
<1>1. \A o \in Origins : SizeOf(H, o) = SizeOf(G, o) /\ SizeOf(G, o) \in Nat
  BY SizeNat DEF SizeOf
<1>2. G.total \in Int
  BY AgentFields
<1> QED BY <1>1, <1>2 DEF Grows

(* A new socket for p, in a pool where there is none. *)
LEMMA CreatedSize ==
  ASSUME ~opt.tunnel, NEW L \in AgentRec, NEW p \in Origins, \A t \in L.sockets[p] : L.sock[t] # "none",
         NEW H \in AgentRec, Created(L, p, H)
  PROVE  /\ H.total = L.total + 1 /\ H.creating = L.creating
         /\ \A q \in Origins : q # p => SizeOf(H, q) = SizeOf(L, q)
         /\ SizeOf(H, p) = SizeOf(L, p) + 1
<1>1. L \in AgentRec /\ L.sockets \in [Origins -> SUBSET Sockets]
  BY AgentFields
<1>2. /\ H.total = L.total + 1 /\ H.creating = L.creating /\ H.free = L.free
      /\ \E s \in Sockets : L.sock[s] = "none" /\ H.sockets = [L.sockets EXCEPT ![p] = @ \cup {s}]
  BY DEF Created, Keeps
<1>3. PICK s \in Sockets : L.sock[s] = "none" /\ H.sockets = [L.sockets EXCEPT ![p] = @ \cup {s}]
  BY <1>2
<1>4. s \notin L.sockets[p]
  BY <1>3
<1>5. H.sockets[p] = L.sockets[p] \cup {s} /\ \A q \in Origins : q # p => H.sockets[q] = L.sockets[q]
  BY <1>1, <1>3
<1>6. Cardinality(H.sockets[p]) = Cardinality(L.sockets[p]) + 1
  BY <1>1, <1>4, <1>5, SizeNat, FS_AddElement
<1>7. \A q \in Origins : q # p => SizeOf(H, q) = SizeOf(L, q)
  BY <1>2, <1>5 DEF SizeOf
<1>8. SizeOf(H, p) = SizeOf(L, p) + 1
  <2>1. Cardinality(L.sockets[p]) \in Nat /\ Len(L.free[p]) \in Nat
    BY SizeNat
  <2> QED BY <1>2, <1>6, <2>1 DEF SizeOf
<1> QED BY <1>2, <1>7, <1>8

(* A socket that leaves its pool makes it smaller. *)
LEMMA LeftSize ==
  ASSUME NEW G, NEW X, NEW k, Sound(G, X, k), NEW s \in Sockets, NEW o \in Origins, NEW L, AfterLeft(G, s, o, L)
  PROVE  /\ \A q \in Origins : q # o => SizeOf(L, q) = SizeOf(G, q)
         /\ SizeOf(L, o) <= SizeOf(G, o)
         /\ s \in G.sockets[o] \/ (~Writable(G, s) /\ In(G.free[o], s)) => SizeOf(L, o) <= SizeOf(G, o) - 1
<1>1. G \in AgentRec /\ L \in AgentRec /\ G.sockets \in [Origins -> SUBSET Sockets]
  BY AgentFields DEF Sound, AfterLeft
<1>2. /\ L.sockets = [G.sockets EXCEPT ![o] = @ \ {s}]
      /\ \A p \in Origins : p # o => L.free[p] = G.free[p]
      /\ Len(L.free[o]) = IF ~Writable(G, s) /\ In(G.free[o], s) THEN Len(G.free[o]) - 1 ELSE Len(G.free[o])
  BY DEF AfterLeft
<1>3. L.sockets[o] = G.sockets[o] \ {s} /\ \A q \in Origins : q # o => L.sockets[q] = G.sockets[q]
  BY <1>1, <1>2
<1>4. \A q \in Origins : q # o => SizeOf(L, q) = SizeOf(G, q)
  BY <1>2, <1>3 DEF SizeOf
<1>5. /\ IsFiniteSet(G.sockets[o]) /\ Cardinality(G.sockets[o]) \in Nat /\ Len(G.free[o]) \in Nat
      /\ SizeOf(G, o) = Cardinality(G.sockets[o]) + Len(G.free[o])
      /\ Cardinality(L.sockets[o]) \in Nat /\ Len(L.free[o]) \in Nat
      /\ SizeOf(L, o) = Cardinality(L.sockets[o]) + Len(L.free[o])
  BY <1>1, SizeNat
<1>6. CASE s \in G.sockets[o]
  <2>1. Cardinality(L.sockets[o]) = Cardinality(G.sockets[o]) - 1
    BY <1>3, <1>5, <1>6, FS_RemoveElement
  <2>2. Len(L.free[o]) <= Len(G.free[o])
    BY <1>2, <1>5
  <2> QED BY <1>4, <1>5, <2>1, <2>2
<1>7. CASE s \notin G.sockets[o]
  <2>1. L.sockets[o] = G.sockets[o]
    BY <1>3, <1>7
  <2>2. Cardinality(L.sockets[o]) = Cardinality(G.sockets[o])
    BY <2>1
  <2> QED BY <1>2, <1>4, <1>5, <1>7, <2>2
<1> QED BY <1>6, <1>7

(* removeSocket() makes a socket in the place of the one that leaves, or for an *)
(* origin that has none.                                                        *)
LEMMA RemovedSize ==
  ASSUME opt \in Options, ~opt.tunnel, NEW G, NEW k, Sound(G, {}, k), NEW s \in Sockets, NEW o \in Origins,
         NEW R \in AgentRec, Removed(G, s, o, R)
  PROVE  /\ R.creating = G.creating /\ R.total <= G.total + 1
         /\ \A q \in Origins : q # o => SizeOf(R, q) <= SizeOf(G, q) \/ SizeOf(R, q) <= opt.maxSockets
         /\ s \in G.sockets[o] \/ (~Writable(G, s) /\ In(G.free[o], s)) =>
              /\ SizeOf(R, o) <= SizeOf(G, o)
              /\ G.requests[o] = <<>> => SizeOf(R, o) <= SizeOf(G, o) - 1
<1>1. G \in AgentRec /\ PoolsOK(G, {}) /\ opt.maxSockets \in Nat /\ opt.maxSockets >= 1
  BY CapIs DEF Sound
<1>2. PICK L \in AgentRec, p \in Origins :
        /\ AfterLeft(G, s, o, L)
        /\ \/ R = L
           \/ Created(L, p, R) /\ L.requests[p] # <<>> /\ (p # o => L.sockets[p] = {} /\ L.requests[o] = <<>>)
  BY DEF Removed
<1>3. /\ \A q \in Origins : q # o => SizeOf(L, q) = SizeOf(G, q)
      /\ SizeOf(L, o) <= SizeOf(G, o)
      /\ s \in G.sockets[o] \/ (~Writable(G, s) /\ In(G.free[o], s)) => SizeOf(L, o) <= SizeOf(G, o) - 1
  BY <1>2, LeftSize
<1>4. L.creating = G.creating /\ L.total = G.total /\ L.requests = G.requests
      /\ \A q \in Origins : q # o => L.free[q] = G.free[q]
  BY <1>2 DEF AfterLeft
<1>5. \A q \in Origins : SizeOf(G, q) \in Nat /\ SizeOf(L, q) \in Nat /\ SizeOf(R, q) \in Nat
  BY <1>1, <1>2, SizeNat
<1>6. G.total \in Int
  BY <1>1, AgentFields
<1>7. CASE R = L
  BY <1>3, <1>4, <1>5, <1>6, <1>7
<1>8. CASE Created(L, p, R) /\ L.requests[p] # <<>> /\ (p # o => L.sockets[p] = {} /\ L.requests[o] = <<>>)
  <2>1. /\ R.total = L.total + 1 /\ R.creating = L.creating
        /\ \A q \in Origins : q # p => SizeOf(R, q) = SizeOf(L, q)
        /\ SizeOf(R, p) = SizeOf(L, p) + 1
    <3>1. \A t \in L.sockets[p] : L.sock[t] # "none"
      <4>1. L.sock = G.sock /\ L.sockets = [G.sockets EXCEPT ![o] = @ \ {s}]
        BY <1>2 DEF AfterLeft
      <4>2. L.sockets[p] \subseteq G.sockets[p]
        BY <1>1, <4>1, AgentFields
      <4> QED BY <1>1, <4>1, <4>2 DEF PoolsOK
    <3> QED BY <1>2, <1>8, <3>1, CreatedSize
  <2>2. CASE p = o
    <3>1. G.requests[o] # <<>>
      BY <1>4, <1>8, <2>2
    <3> QED BY <1>3, <1>4, <1>5, <1>6, <2>1, <2>2, <3>1
  <2>3. CASE p # o
    <3>1. SizeOf(L, p) = 0
      <4>1. G.free[p] = <<>>
        BY <1>1, <1>4, <1>8, <2>3 DEF PoolsOK
      <4>2. L.free[p] = <<>> /\ L.sockets[p] = {}
        BY <1>4, <1>8, <2>3, <4>1
      <4>3. Cardinality(L.sockets[p]) = 0 /\ Len(L.free[p]) = 0
        BY <4>2, FS_EmptySet
      <4> QED BY <4>3 DEF SizeOf
    <3>2. SizeOf(R, p) = 1
      BY <2>1, <3>1
    <3> QED BY <1>1, <1>3, <1>4, <1>5, <1>6, <2>1, <2>3, <3>2
  <2> QED BY <2>2, <2>3
<1> QED BY <1>2, <1>7, <1>8

(* 'free' passes no limit. *)
LEMMA FreeGrows ==
  ASSUME opt \in Options, NEW G, Sound(G, {}, 0), HasRoom(G), NEW s, InHand(G, s), NEW H, H = Free(G, s)
  PROVE  Sound(H, {}, 0) /\ Grows(G, H)
<1>1. /\ Sound(H, {}, 0)
      /\ AfterFree(G, s, H) \/ (Writable(G, s) /\ Keepable(G, s) /\ AfterKeep(G, s, H))
  BY FreeSound
<1>2. G \in AgentRec /\ H \in AgentRec /\ PoolsOK(G, {})
  BY <1>1 DEF Sound
<1>3. CASE AfterFree(G, s, H)
  <2>1. H.sockets = G.sockets /\ H.free = G.free /\ H.total = G.total /\ H.creating = G.creating
    BY <1>3 DEF AfterFree
  <2> QED BY <1>1, <1>2, <2>1, SameGrows
<1>4. CASE Writable(G, s) /\ Keepable(G, s) /\ AfterKeep(G, s, H)
  <2> DEFINE o == G.origin[s]
  <2>1. s \in Sockets /\ G.sock[s] = "open" /\ o \in Origins /\ s \in G.sockets[o]
    BY <1>2, <1>4 DEF Writable, InHand, PoolsOK
  <2>2. opt.keepAlive /\ G.total <= opt.maxTotalSockets
    BY <1>4 DEF Keepable
  <2> HIDE DEF o
  <2>3. PICK M \in AgentRec, R \in AgentRec : KeepVia(G, s, M, R, H)
    BY <1>4 DEF AfterKeep
  <2>4. /\ M.sock = G.sock /\ M.sockets = G.sockets /\ M.free = G.free /\ M.total = G.total
        /\ M.requests = G.requests /\ M.creating = G.creating
        /\ Sound(M, {}, 0) /\ G.requests[o] = <<>> /\ H.creating = R.creating
        /\ Removed(M, s, o, R)
        /\ H.sockets = R.sockets /\ H.total = R.total /\ H.free = [R.free EXCEPT ![o] = Append(@, s)]
    BY <2>3 DEF KeepVia, o
  <2>5. SUFFICES ASSUME ~opt.tunnel, G.creating = NoTunnel PROVE Grows(G, H)
    BY <1>1 DEF Grows
  <2>6. /\ R.creating = M.creating /\ R.total <= M.total + 1
        /\ \A q \in Origins : q # o => SizeOf(R, q) <= SizeOf(M, q) \/ SizeOf(R, q) <= opt.maxSockets
        /\ SizeOf(R, o) <= SizeOf(M, o) - 1
    <3>1. /\ R.creating = M.creating /\ R.total <= M.total + 1
          /\ \A q \in Origins : q # o => SizeOf(R, q) <= SizeOf(M, q) \/ SizeOf(R, q) <= opt.maxSockets
          /\ s \in M.sockets[o] \/ (~Writable(M, s) /\ In(M.free[o], s)) =>
               /\ SizeOf(R, o) <= SizeOf(M, o)
               /\ M.requests[o] = <<>> => SizeOf(R, o) <= SizeOf(M, o) - 1
      BY <2>1, <2>4, <2>5, RemovedSize
    <3>2. s \in M.sockets[o] /\ M.requests[o] = <<>>
      BY <2>1, <2>4
    <3> QED BY <3>1, <3>2
  <2>7. \A q \in Origins : SizeOf(M, q) = SizeOf(G, q)
    BY <2>4 DEF SizeOf
  <2>8. /\ \A q \in Origins : q # o => H.free[q] = R.free[q]
        /\ Len(H.free[o]) = Len(R.free[o]) + 1
    <3>1. R.free \in [Origins -> Seq(Sockets)] /\ R.free[o] \in Seq(Sockets)
      BY <2>1, AgentFields
    <3>2. H.free[o] = Append(R.free[o], s)
      BY <2>1, <2>4, <3>1
    <3> QED BY <2>1, <2>4, <3>1, <3>2, AppendProperties
  <2>9. \A q \in Origins : q # o => SizeOf(H, q) = SizeOf(R, q)
    BY <2>4, <2>8 DEF SizeOf
  <2>10. SizeOf(H, o) = SizeOf(R, o) + 1 /\ SizeOf(R, o) \in Nat /\ SizeOf(M, o) \in Nat
    <3>1. Cardinality(R.sockets[o]) \in Nat /\ Len(R.free[o]) \in Nat /\ SizeOf(R, o) \in Nat /\ SizeOf(M, o) \in Nat
      BY <2>1, SizeNat
    <3> QED BY <2>4, <2>8, <3>1 DEF SizeOf
  <2>11. SizeOf(H, o) <= SizeOf(G, o)
    BY <2>1, <2>6, <2>7, <2>10
  <2>12. H.total <= TotalCap
    <3>1. G.total \in Int /\ R.total \in Int /\ opt.maxTotalSockets \in Nat /\ TotalCap = opt.maxTotalSockets + 1
      BY <1>2, <2>2, CapIs, AgentFields
    <3> QED BY <2>2, <2>4, <2>6, <3>1
  <2> QED BY <2>4, <2>5, <2>6, <2>7, <2>9, <2>11, <2>12 DEF Grows
<1> QED BY <1>1, <1>3, <1>4

(* 'close' and 'agentRemove' pass none but that of a dropped socket's origin. *)
LEMMA GoneGrows ==
  ASSUME opt \in Options, NEW G, Sound(G, {}, 0), HasRoom(G), NEW s \in Sockets, G.sock[s] # "none", ~InTick(G, s),
         Writable(G, s) => ~InFree(G, s), NEW H, H = Gone(G, s)
  PROVE  Sound(H, {}, 0) /\ Grows(G, H)
<1> DEFINE o == G.origin[s]
<1>1. Sound(H, {}, 0) /\ AfterGone(G, s, H)
  BY GoneSound
<1>2. G \in AgentRec /\ H \in AgentRec /\ PoolsOK(G, {}) /\ o \in Origins
  BY <1>1 DEF Sound, PoolsOK
<1>3. s \notin G.sockets[o] /\ ~In(G.free[o], s) => G.sock[s] = "destroyed"
  <2>1. G.sock[s] \in SockState
    BY <1>2, AgentFields
  <2>2. InFree(G, s) => In(G.free[o], s)
    BY Injected DEF InFree
  <2> QED BY <1>2, <2>1, <2>2 DEF PoolsOK, SockState
<1>4. In(G.free[o], s) => ~Writable(G, s)
  BY <1>2 DEF InFree
<1> HIDE DEF o
<1>5. PICK P \in AgentRec, R \in AgentRec : GoneVia(G, s, P, R, H)
  BY <1>1 DEF AfterGone
<1>6. /\ P.total = G.total - 1 /\ P.sock = G.sock /\ P.sockets = G.sockets /\ P.free = G.free
      /\ P.requests = G.requests /\ P.creating = G.creating
      /\ Sound(P, {}, 1) /\ H.creating = R.creating
      /\ Removed(P, s, o, R)
      /\ H.sockets = R.sockets /\ H.total = R.total /\ H.free = R.free
      /\ H.sock = [R.sock EXCEPT ![s] = "none"]
  BY <1>5 DEF GoneVia, o
<1>7. SUFFICES ASSUME ~opt.tunnel, G.creating = NoTunnel PROVE Grows(G, H)
  BY <1>1 DEF Grows
<1>8. /\ R.creating = P.creating /\ R.total <= P.total + 1
      /\ \A q \in Origins : q # o => SizeOf(R, q) <= SizeOf(P, q) \/ SizeOf(R, q) <= opt.maxSockets
      /\ s \in P.sockets[o] \/ (~Writable(P, s) /\ In(P.free[o], s)) => SizeOf(R, o) <= SizeOf(P, o)
  BY <1>2, <1>6, <1>7, RemovedSize
<1>9. \A q \in Origins : SizeOf(P, q) = SizeOf(G, q) /\ SizeOf(H, q) = SizeOf(R, q)
  BY <1>6 DEF SizeOf
<1>10. H.sock[s] = "none"
  <2>1. R.sock \in [Sockets -> SockState]
    BY AgentFields
  <2> QED BY <1>6, <2>1
<1>11. SizeOf(H, o) <= SizeOf(G, o) \/ Dropped(G, o, H)
  <2>1. CASE s \in G.sockets[o] \/ In(G.free[o], s)
    <3>1. s \in P.sockets[o] \/ (~Writable(P, s) /\ In(P.free[o], s))
      BY <1>4, <1>6, <2>1 DEF Writable
    <3> QED BY <1>2, <1>8, <1>9, <3>1
  <2>2. CASE ~(s \in G.sockets[o] \/ In(G.free[o], s))
    BY <1>3, <1>10, <2>2 DEF Dropped, o
  <2> QED BY <2>1, <2>2
<1>12. H.total <= G.total
  <2>1. G.total \in Int /\ R.total \in Int
    BY <1>2, AgentFields
  <2> QED BY <1>6, <1>8, <2>1
<1> QED BY <1>6, <1>7, <1>8, <1>9, <1>11, <1>12 DEF Grows

-----------------------------------------------------------------------------
(* The inductive invariant: the agent is sound between two events. *)
Inv ==
  /\ opt \in Options /\ home \in [Reqs -> Origins] /\ closes \in [Reqs -> Nat]
  /\ req \in [Reqs -> {"idle", "open", "destroyed"}]
  /\ Sound(agent, {}, 0)

(* A new agent is sound. *)
LEMMA InitInv == Init => Inv
<1> SUFFICES ASSUME Init PROVE Inv
  OBVIOUS
<1> USE AgentAssumption DEF Init
<1>1. opt \in Options /\ home \in [Reqs -> Origins] /\ closes \in [Reqs -> Nat]
      /\ req \in [Reqs -> {"idle", "open", "destroyed"}]
  OBVIOUS
<1> DEFINE G == agent
<1>2. /\ G.requests = [o \in Origins |-> <<>>] /\ G.keys = <<>> /\ G.options = {}
      /\ G.sockets = [o \in Origins |-> {}] /\ G.free = [o \in Origins |-> <<>>] /\ G.total = 0
      /\ G.sock = [s \in Sockets |-> "none"] /\ G.origin = [s \in Sockets |-> None]
      /\ G.message = [s \in Sockets |-> None] /\ G.waiter = [s \in Sockets |-> None]
      /\ G.attached = {} /\ G.ticks = <<>> /\ G.creating = NoTunnel
  BY DEF EmptyAgent
<1>3. G \in AgentRec
  BY DEF EmptyAgent, AgentRec, SockState, NoTunnel
<1> HIDE DEF G
<1>4. Counted(G, 0)
  <2>1. Used(G) = {}
    BY <1>2 DEF Used
  <2> QED BY <1>2, <2>1, FS_EmptySet DEF Counted
<1>5. KeysOK(G) /\ PoolsOK(G, {}) /\ UsersOK(G) /\ Between(G, {})
  BY <1>2 DEF KeysOK, PoolsOK, UsersOK, Between, In, Distinct
<1>6. Sound(G, {}, 0)
  BY <1>3, <1>4, <1>5 DEF Sound
<1> QED BY <1>1, <1>6 DEF Inv, G

(* addRequest(): a socket of the pool, a new one, or the queue. *)
TakenIs(A, q, o, r, G, H) ==
  /\ G = [A EXCEPT !.free[o] = Rest(q)]
  /\ H = [setRequestSocket(G, r, Chosen(q)) EXCEPT !.sockets[o] = @ \cup {Chosen(q)}]
MadeIs(A, o, r, G, H) ==
  /\ G = [A EXCEPT !.free[o] = <<>>]
  /\ H = IF UnderLimits(G, o) THEN createSocket(G, "addRequest", r, o) ELSE Enqueued(G, r, o)

(* addRequest() takes a free socket. *)
LEMMA TakenSound ==
  ASSUME opt \in Options, NEW A, Sound(A, {}, 0), NEW r \in Reqs, NEW o \in Origins,
         NEW q \in Seq(Sockets), Distinct(q), Len(q) <= Len(A.free[o]), q # <<>>,
         \A t : In(q, t) => In(A.free[o], t),
         \A t : In(A.free[o], t) => In(q, t) \/ A.sock[t] = "destroyed",
         NEW G, NEW H, TakenIs(A, q, o, r, G, H)
  PROVE  Sound(H, {}, 0) /\ Grows(A, H)
<1> DEFINE f == Rest(q)
           c == Chosen(q)
           x == [A.free EXCEPT ![o] = f]
           y == [A.sockets EXCEPT ![o] = @ \cup {c}]
           F == [G EXCEPT !.sockets = y]
           S == setRequestSocket(G, r, c)
           B == setRequestSocket(F, r, c)
<1>1. /\ f \in Seq(Sockets) /\ Distinct(f) /\ c \in Sockets /\ In(q, c) /\ Len(f) = Len(q) - 1
      /\ \A t : In(f, t) <=> In(q, t) /\ t # c
  BY RestIs
<1>2. A \in AgentRec /\ A.free \in [Origins -> Seq(Sockets)] /\ A.sockets \in [Origins -> SUBSET Sockets]
  BY AgentFields DEF Sound
<1>3. /\ x = [A.free EXCEPT ![o] = f] /\ y = [A.sockets EXCEPT ![o] = @ \cup {c}] /\ G = [A EXCEPT !.free = x]
      /\ F = [G EXCEPT !.sockets = y] /\ S = setRequestSocket(G, r, c) /\ B = setRequestSocket(F, r, c)
      /\ H = [S EXCEPT !.sockets[o] = @ \cup {c}]
  BY DEF TakenIs
<1> HIDE DEF f, c, x, y, F, S, B
<1>4. /\ x \in [Origins -> Seq(Sockets)] /\ y \in [Origins -> SUBSET Sockets]
      /\ x[o] = f /\ y[o] = A.sockets[o] \cup {c}
      /\ \A p \in Origins : p # o => x[p] = A.free[p] /\ y[p] = A.sockets[p]
  BY <1>1, <1>2, <1>3
<1>5. /\ G \in AgentRec /\ G.free = x /\ G.sockets = A.sockets
      /\ G.requests = A.requests /\ G.keys = A.keys /\ G.ticks = A.ticks /\ G.options = A.options
      /\ G.total = A.total /\ G.sock = A.sock /\ G.origin = A.origin /\ G.message = A.message
      /\ G.attached = A.attached /\ G.waiter = A.waiter /\ G.creating = A.creating
  BY <1>2, <1>3, <1>4 DEF AgentRec
<1>6. /\ F \in AgentRec /\ F.free = x /\ F.sockets = y
      /\ F.requests = A.requests /\ F.keys = A.keys /\ F.ticks = A.ticks /\ F.options = A.options
      /\ F.total = A.total /\ F.sock = A.sock /\ F.origin = A.origin /\ F.message = A.message
      /\ F.attached = A.attached /\ F.waiter = A.waiter /\ F.creating = A.creating
  BY <1>3, <1>4, <1>5 DEF AgentRec
<1>7. Sound(F, {}, 0) /\ InHand(F, c)
  <2> DEFINE K == {c}
  <2>1. K \in SUBSET Sockets /\ c \in K /\ \A t : t \in K <=> t = c
    BY <1>1
  <2>2. F.sockets = [A.sockets EXCEPT ![o] = @ \cup K]
    BY <1>3, <1>6
  <2> HIDE DEF K
  <2>3. /\ \A t : In(f, t) => In(A.free[o], t) /\ t \notin K
        /\ \A t \in K : In(A.free[o], t)
        /\ \A t : In(A.free[o], t) => In(f, t) \/ t \in K \/ A.sock[t] = "destroyed"
    BY <1>1, <2>1
  <2>4. F.free = [A.free EXCEPT ![o] = f]
    BY <1>3, <1>6
  <2>5. Sound(F, {}, 0) /\ \A t \in K : InHand(F, t)
    <3>1. /\ Sound(A, {}, 0) /\ o \in Origins /\ f \in Seq(Sockets) /\ Distinct(f) /\ K \in SUBSET Sockets
          /\ F \in AgentRec
      BY <1>1, <1>6, <2>1
    <3>2. /\ F.requests = A.requests /\ F.keys = A.keys /\ F.ticks = A.ticks
          /\ F.total = A.total /\ F.sock = A.sock /\ F.origin = A.origin /\ F.message = A.message
          /\ F.attached = A.attached
      BY <1>6
    <3> QED BY <2>2, <2>3, <2>4, <3>1, <3>2, TakeSound, Zenon
  <2> QED BY <2>1, <2>5
<1>8. Sound(B, {}, 0) /\ AfterSet(F, r, c, B)
  <2>1. c \in Sockets \cup {None} /\ c \notin {}
    BY <1>1
  <2> QED BY <1>3, <1>6, <1>7, <2>1, setRequestSocketSound, setRequestSocketFields
<1>9. AfterSet(G, r, c, S)
  <2>1. c \in Sockets \cup {None}
    BY <1>1
  <2> QED BY <1>3, <1>5, <2>1, setRequestSocketFields
<1>10. S \in AgentRec /\ S.sockets = A.sockets
  BY <1>5, <1>9 DEF AfterSet
<1>11. H = [S EXCEPT !.sockets = y]
  BY <1>3, <1>10
<1>12. /\ H \in AgentRec /\ H.sockets = y /\ H.requests = S.requests /\ H.keys = S.keys /\ H.free = S.free
       /\ H.total = S.total /\ H.origin = S.origin /\ H.message = S.message /\ H.attached = S.attached
       /\ H.ticks = S.ticks /\ H.sock = S.sock /\ H.creating = S.creating
  BY <1>4, <1>10, <1>11 DEF AgentRec
<1>13. /\ H.requests = B.requests /\ H.keys = B.keys /\ H.sockets = B.sockets /\ H.free = B.free
       /\ H.total = B.total /\ H.origin = B.origin /\ H.message = B.message /\ H.attached = B.attached
       /\ H.ticks = B.ticks /\ H.sock = B.sock
  BY <1>5, <1>6, <1>8, <1>9, <1>12 DEF AfterSet
<1>14. Sound(H, {}, 0)
  BY <1>8, <1>12, <1>13, SameSound
<1>15. H.free = x /\ H.total = A.total /\ H.creating = A.creating
  BY <1>5, <1>9, <1>12 DEF AfterSet
<1>16. ASSUME NEW p \in Origins PROVE SizeOf(H, p) <= SizeOf(A, p)
  <2>1. SizeOf(A, p) \in Nat /\ SizeOf(A, p) = Cardinality(A.sockets[p]) + Len(A.free[p])
        /\ SizeOf(H, p) = Cardinality(H.sockets[p]) + Len(H.free[p])
        /\ Cardinality(A.sockets[p]) \in Nat /\ Len(A.free[p]) \in Nat /\ IsFiniteSet(A.sockets[p])
    BY <1>2, <1>12, SizeNat
  <2>2. CASE p # o
    <3>1. H.sockets[p] = A.sockets[p] /\ H.free[p] = A.free[p]
      BY <1>4, <1>12, <1>15, <2>2
    <3> QED BY <2>1, <3>1
  <2>3. CASE p = o
    <3>1. H.sockets[o] = A.sockets[o] \cup {c} /\ H.free[o] = f
      BY <1>4, <1>12, <1>15
    <3>2. c \notin A.sockets[o]
      BY <1>1, Injected
    <3>3. Cardinality(H.sockets[o]) = Cardinality(A.sockets[o]) + 1
      BY <2>1, <2>3, <3>1, <3>2, FS_AddElement
    <3>4. Len(q) \in Nat /\ Len(H.free[o]) = Len(q) - 1
      BY <1>1, <3>1
    <3> QED BY <2>1, <2>3, <3>3, <3>4
  <2> QED BY <2>2, <2>3
<1>17. A.total \in Int
  BY <1>2, AgentFields
<1> QED BY <1>14, <1>15, <1>16, <1>17 DEF Grows

(* addRequest() makes a socket under the limits, or puts the request in the *)
(* queue.  The pool had no socket but destroyed ones, which it drops.       *)
LEMMA MadeSound ==
  ASSUME opt \in Options, NEW A, Sound(A, {}, 0), HasRoom(A), NEW r \in Reqs, NEW o \in Origins,
         \A t : In(A.free[o], t) => A.sock[t] = "destroyed",
         NEW G, NEW H, MadeIs(A, o, r, G, H)
  PROVE  Sound(H, {}, 0) /\ Grows(A, H)
<1> DEFINE f == <<>>
           x == [A.free EXCEPT ![o] = f]
<1>1. A \in AgentRec /\ A.free \in [Origins -> Seq(Sockets)] /\ A.sockets \in [Origins -> SUBSET Sockets]
      /\ A.total \in Int
  BY AgentFields DEF Sound
<1>2. f \in Seq(Sockets) /\ Distinct(f) /\ \A t : ~In(f, t)
  BY DEF Distinct, In
<1>3. x = [A.free EXCEPT ![o] = f] /\ G = [A EXCEPT !.free = x]
  BY DEF MadeIs
<1>4. x \in [Origins -> Seq(Sockets)] /\ x[o] = <<>> /\ \A p \in Origins : p # o => x[p] = A.free[p]
  BY <1>1, <1>2
<1> HIDE DEF x
<1>5. /\ G \in AgentRec /\ G.free = x /\ G.sockets = A.sockets
      /\ G.requests = A.requests /\ G.keys = A.keys /\ G.ticks = A.ticks
      /\ G.total = A.total /\ G.sock = A.sock /\ G.origin = A.origin /\ G.message = A.message
      /\ G.attached = A.attached /\ G.creating = A.creating
  BY <1>1, <1>3, <1>4 DEF AgentRec
<1>6. Sound(G, {}, 0)
  <2> DEFINE K == {}
  <2>1. K \in SUBSET Sockets /\ \A t : t \notin K
    OBVIOUS
  <2>2. G.sockets = [A.sockets EXCEPT ![o] = @ \cup K]
    BY <1>1, <1>5
  <2> HIDE DEF K
  <2>3. /\ \A t : In(f, t) => In(A.free[o], t) /\ t \notin K
        /\ \A t \in K : In(A.free[o], t)
        /\ \A t : In(A.free[o], t) => In(f, t) \/ t \in K \/ A.sock[t] = "destroyed"
    BY <1>2, <2>1
  <2>4. G.free = [A.free EXCEPT ![o] = f]
    BY <1>3, <1>5
  <2> HIDE DEF f
  <2> QED BY <1>2, <1>5, <2>1, <2>2, <2>3, <2>4, TakeSound
<1>7. HasRoom(G) /\ G.free[o] = <<>>
  BY <1>4, <1>5 DEF HasRoom
<1>8. \A p \in Origins : SizeOf(G, p) <= SizeOf(A, p)
  <2> SUFFICES ASSUME NEW p \in Origins PROVE SizeOf(G, p) <= SizeOf(A, p)
    OBVIOUS
  <2>1. SizeOf(A, p) \in Nat /\ SizeOf(A, p) = Cardinality(A.sockets[p]) + Len(A.free[p])
        /\ SizeOf(G, p) = Cardinality(G.sockets[p]) + Len(G.free[p])
        /\ Cardinality(A.sockets[p]) \in Nat /\ Len(A.free[p]) \in Nat
    BY <1>1, <1>5, SizeNat
  <2>2. Len(G.free[p]) <= Len(A.free[p])
    BY <1>4, <1>5, <2>1
  <2>3. G.sockets[p] = A.sockets[p]
    BY <1>5
  <2> QED BY <1>5, <2>1, <2>2, <2>3
<1>9. CASE UnderLimits(G, o)
  <2>1. H = createSocket(G, "addRequest", r, o)
    BY <1>9 DEF MadeIs
  <2>2. Sound(H, {}, 0) /\ Created(G, o, H)
    <3>1. 0 \in Int /\ "addRequest" \in {"addRequest", "removeSocket"}
      OBVIOUS
    <3> QED BY <1>6, <1>7, <2>1, <3>1, createSocketSound, Zenon
  <2>3. SUFFICES ASSUME ~opt.tunnel, A.creating = NoTunnel PROVE Grows(A, H)
    BY <2>2 DEF Grows
  <2>4. H \in AgentRec /\ \A t \in G.sockets[o] : G.sock[t] # "none"
    BY <1>6, <2>2 DEF Sound, PoolsOK
  <2>5. /\ H.total = G.total + 1 /\ H.creating = G.creating
        /\ \A q \in Origins : q # o => SizeOf(H, q) = SizeOf(G, q)
        /\ SizeOf(H, o) = SizeOf(G, o) + 1
    BY <1>5, <2>2, <2>3, <2>4, CreatedSize
  <2>6. SizeOf(H, o) <= opt.maxSockets
    <3>1. /\ SizeOf(G, o) = Cardinality(G.sockets[o]) + Len(G.free[o])
          /\ Cardinality(G.sockets[o]) \in Nat
      BY <1>5, SizeNat
    <3>2. Cardinality(G.sockets[o]) < opt.maxSockets /\ opt.maxSockets \in Nat
      BY <1>9, CapIs DEF UnderLimits
    <3>3. Len(G.free[o]) = 0
      BY <1>7
    <3> QED BY <2>5, <3>1, <3>2, <3>3
  <2>7. H.total <= TotalCap
    <3>1. G.total < opt.maxTotalSockets
      BY <1>9 DEF UnderLimits
    <3> QED BY <1>1, <1>5, <2>5, <3>1, CapIs
  <2> QED BY <1>5, <1>8, <2>3, <2>5, <2>6, <2>7 DEF Grows
<1>10. CASE ~UnderLimits(G, o)
  <2>1. H = Enqueued(G, r, o)
    BY <1>10 DEF MadeIs
  <2>2. /\ Sound(H, {}, 0) /\ H.sockets = G.sockets /\ H.total = G.total /\ H.free = G.free
        /\ H.creating = G.creating
    BY <1>6, <1>7, <2>1, EnqueuedSound
  <2>3. \A p \in Origins : SizeOf(H, p) = SizeOf(G, p)
    BY <2>2 DEF SizeOf
  <2> QED BY <1>1, <1>5, <1>8, <2>2, <2>3 DEF Grows
<1> QED BY <1>9, <1>10

-----------------------------------------------------------------------------
(* The invariant is kept by each action, and no pool grows past its limit but *)
(* by the 'close' of a dropped socket.                                        *)
LEMMA Preserved ==
  ASSUME Inv, opt' = opt, home' = home, closes' \in [Reqs -> Nat],
         req' \in [Reqs -> {"idle", "open", "destroyed"}], Sound(agent', {}, 0)
  PROVE  Inv'
BY DEF Inv

(* What the invariant says of the agent. *)
LEMMA Agent ==
  ASSUME Inv
  PROVE  /\ agent \in AgentRec /\ opt \in Options
         /\ req \in [Reqs -> {"idle", "open", "destroyed"}] /\ closes \in [Reqs -> Nat]
         /\ Sound(agent, {}, 0) /\ (Room => HasRoom(agent))
         /\ \A s \in agent.attached : s \in Sockets /\ agent.message[s] \in Reqs /\ ~InFree(agent, s)
         /\ agent.attached \in SUBSET Sockets /\ agent.sock \in [Sockets -> SockState]
         /\ agent.sockets \in [Origins -> SUBSET Sockets] /\ agent.free \in [Origins -> Seq(Sockets)]
<1>1. /\ agent \in AgentRec /\ opt \in Options /\ Sound(agent, {}, 0) /\ UsersOK(agent)
      /\ req \in [Reqs -> {"idle", "open", "destroyed"}] /\ closes \in [Reqs -> Nat]
  BY DEF Inv, Sound
<1>2. /\ agent.attached \in SUBSET Sockets /\ agent.message \in [Sockets -> Reqs \cup {None}]
      /\ agent.sock \in [Sockets -> SockState]
      /\ agent.sockets \in [Origins -> SUBSET Sockets] /\ agent.free \in [Origins -> Seq(Sockets)]
  BY <1>1, AgentFields
<1>3. \A s \in agent.attached : s \in Sockets /\ agent.message[s] \in Reqs /\ ~InFree(agent, s)
  BY <1>1, <1>2 DEF UsersOK
<1> QED BY <1>1, <1>2, <1>3 DEF Room, HasRoom

(* A request is made. *)
LEMMA addRequestStep ==
  ASSUME Inv, NEW r \in Reqs, addRequest(r)
  PROVE  Inv' /\ Grows(agent, agent')
<1> DEFINE o == home[r]
           q == Skip(agent, agent.free[o])
           G == [agent EXCEPT !.free[o] = IF q = <<>> THEN q ELSE Rest(q)]
<1>1. /\ Room /\ req' = [req EXCEPT ![r] = "open"] /\ opt' = opt /\ home' = home /\ closes' = closes
      /\ agent' = IF q # <<>> THEN [setRequestSocket(G, r, Chosen(q)) EXCEPT !.sockets[o] = @ \cup {Chosen(q)}]
                  ELSE IF UnderLimits(G, o) THEN createSocket(G, "addRequest", r, o)
                  ELSE Enqueued(G, r, o)
  BY DEF addRequest
<1>2. /\ agent \in AgentRec /\ opt \in Options /\ Sound(agent, {}, 0) /\ HasRoom(agent) /\ PoolsOK(agent, {})
  BY <1>1, Agent DEF Sound
<1>3. o \in Origins /\ agent.free[o] \in Seq(Sockets)
  BY <1>2, Agent DEF Inv
<1>4. q = Skip(agent, agent.free[o])
  OBVIOUS
<1>5. G = [agent EXCEPT !.free[o] = IF q = <<>> THEN q ELSE Rest(q)]
  OBVIOUS
<1> HIDE DEF o, q, G
<1>6. Distinct(agent.free[o])
  BY <1>2, <1>3 DEF PoolsOK
<1>7. /\ q \in Seq(Sockets) /\ Distinct(q) /\ Len(q) <= Len(agent.free[o])
      /\ \A t : In(q, t) => In(agent.free[o], t)
      /\ \A t : In(agent.free[o], t) => In(q, t) \/ agent.sock[t] = "destroyed"
  BY <1>3, <1>4, <1>6, SkipIs
<1>8. Sound(agent', {}, 0) /\ Grows(agent, agent')
  <2>1. CASE q # <<>>
    <3>1. TakenIs(agent, q, o, r, G, agent')
      BY <1>1, <1>5, <2>1 DEF TakenIs
    <3> QED BY <1>2, <1>3, <1>7, <2>1, <3>1, TakenSound, Zenon
  <2>2. CASE q = <<>>
    <3>1. MadeIs(agent, o, r, G, agent')
      BY <1>1, <1>5, <2>2 DEF MadeIs
    <3>2. \A t : In(agent.free[o], t) => agent.sock[t] = "destroyed"
      BY <1>7, <2>2 DEF In
    <3> QED BY <1>2, <1>3, <3>1, <3>2, MadeSound, Zenon
  <2> QED BY <2>1, <2>2
<1>9. req' \in [Reqs -> {"idle", "open", "destroyed"}] /\ closes' \in [Reqs -> Nat]
  BY <1>1, Agent
<1> QED BY <1>1, <1>8, <1>9, Preserved

(* A step that only changes the state of sockets. *)
LEMMA SockSound ==
  ASSUME Inv, NEW f \in [Sockets -> SockState], agent' = [agent EXCEPT !.sock = f],
         \A t \in Sockets : /\ f[t] = "none" <=> agent.sock[t] = "none"
                            /\ f[t] \in {"open", "ended"} => agent.sock[t] \in {"open", "ended"}
  PROVE  Sound(agent', {}, 0) /\ Grows(agent, agent')
<1>1. agent \in AgentRec /\ opt \in Options /\ Sound(agent, {}, 0)
  BY Agent
<1>2. /\ agent' \in AgentRec /\ agent'.sock = f
      /\ agent'.requests = agent.requests /\ agent'.keys = agent.keys /\ agent'.sockets = agent.sockets
      /\ agent'.free = agent.free /\ agent'.total = agent.total /\ agent'.origin = agent.origin
      /\ agent'.message = agent.message /\ agent'.attached = agent.attached
      /\ agent'.ticks = agent.ticks /\ agent'.creating = agent.creating
  BY <1>1 DEF AgentRec
<1>3. \A t \in Sockets : /\ agent'.sock[t] = "none" <=> agent.sock[t] = "none"
                         /\ agent'.sock[t] \in {"open", "ended"} => agent.sock[t] \in {"open", "ended"}
  BY <1>2
<1>4. Sound(agent', {}, 0)
  BY <1>1, <1>2, <1>3, SockOnly
<1> QED BY <1>1, <1>2, <1>4, SameGrows

(* request.destroy(): the socket it has is destroyed. *)
LEMMA destroyRequestStep ==
  ASSUME Inv, NEW r \in Reqs, destroyRequest(r)
  PROVE  Inv' /\ Grows(agent, agent')
<1> DEFINE f == [s \in Sockets |-> IF agent.message[s] = r /\ s \in agent.attached
                                  THEN "destroyed" ELSE agent.sock[s]]
<1>1. /\ req' = [req EXCEPT ![r] = "destroyed"] /\ opt' = opt /\ home' = home /\ closes' = closes
      /\ agent' = [agent EXCEPT !.sock = f]
  BY DEF destroyRequest
<1>2. agent.sock \in [Sockets -> SockState] /\ \A s \in agent.attached : agent.sock[s] # "none"
  BY Agent DEF Sound, UsersOK
<1>3. /\ f \in [Sockets -> SockState]
      /\ \A t \in Sockets : /\ f[t] = "none" <=> agent.sock[t] = "none"
                            /\ f[t] \in {"open", "ended"} => agent.sock[t] \in {"open", "ended"}
  BY <1>2 DEF SockState
<1> HIDE DEF f
<1>4. Sound(agent', {}, 0) /\ Grows(agent, agent')
  BY <1>1, <1>3, SockSound
<1>5. req' \in [Reqs -> {"idle", "open", "destroyed"}] /\ closes' \in [Reqs -> Nat]
  BY <1>1, Agent
<1> QED BY <1>1, <1>4, <1>5, Preserved

(* agent.destroy(): every socket of the pools is destroyed. *)
LEMMA destroyStep ==
  ASSUME Inv, destroy
  PROVE  Inv' /\ Grows(agent, agent')
<1> DEFINE all == UNION {agent.sockets[o] \cup ToSet(agent.free[o]) : o \in Origins}
           f == [s \in Sockets |-> IF s \in all THEN "destroyed" ELSE agent.sock[s]]
<1>1. /\ req' = req /\ opt' = opt /\ home' = home /\ closes' = closes
      /\ agent' = [agent EXCEPT !.sock = f]
  BY DEF destroy
<1>2. agent.sock \in [Sockets -> SockState] /\ PoolsOK(agent, {}) /\ Sound(agent, {}, 0)
  BY Agent DEF Sound
<1>3. ASSUME NEW s \in all PROVE agent.sock[s] # "none"
  <2>1. PICK o \in Origins : s \in agent.sockets[o] \/ s \in ToSet(agent.free[o])
    BY <1>3
  <2>2. CASE s \in agent.sockets[o]
    BY <1>2, <2>2 DEF PoolsOK
  <2>3. CASE s \in ToSet(agent.free[o])
    <3>1. agent.free[o] \in Seq(Sockets)
      BY Agent
    <3>2. In(agent.free[o], s)
      BY <2>3, <3>1 DEF ToSet, In
    <3> QED BY <1>2, <3>2, Injected
  <2> QED BY <2>1, <2>2, <2>3
<1> HIDE DEF all
<1>4. /\ f \in [Sockets -> SockState]
      /\ \A t \in Sockets : /\ f[t] = "none" <=> agent.sock[t] = "none"
                            /\ f[t] \in {"open", "ended"} => agent.sock[t] \in {"open", "ended"}
  BY <1>2, <1>3 DEF SockState
<1> HIDE DEF f
<1>5. Sound(agent', {}, 0) /\ Grows(agent, agent')
  BY <1>1, <1>4, SockSound
<1>6. req' \in [Reqs -> {"idle", "open", "destroyed"}] /\ closes' \in [Reqs -> Nat]
  BY <1>1, Agent
<1> QED BY <1>1, <1>5, <1>6, Preserved

(* destroySocket(), and a socket that is no longer writable. *)
LEMMA EndSound ==
  ASSUME Inv, NEW s \in Sockets, agent.sock[s] = "open", agent' = [agent EXCEPT !.sock[s] = "ended"]
  PROVE  Sound(agent', {}, 0) /\ Grows(agent, agent')
<1> DEFINE f == [agent.sock EXCEPT ![s] = "ended"]
<1>1. agent.sock \in [Sockets -> SockState]
  BY Agent
<1>2. /\ f \in [Sockets -> SockState] /\ agent' = [agent EXCEPT !.sock = f]
      /\ \A t \in Sockets : /\ f[t] = "none" <=> agent.sock[t] = "none"
                            /\ f[t] \in {"open", "ended"} => agent.sock[t] \in {"open", "ended"}
  BY <1>1 DEF SockState
<1> HIDE DEF f
<1> QED BY <1>2, SockSound

(* A socket is destroyed by its timeout, an error or its end. *)
LEMMA DestroySound ==
  ASSUME Inv, NEW s \in Sockets, agent' = destroySocket(agent, s)
  PROVE  Sound(agent', {}, 0) /\ Grows(agent, agent')
<1>1. /\ agent \in AgentRec /\ opt \in Options /\ Sound(agent, {}, 0)
  BY Agent
<1>2. Sound(agent', {}, 0) /\ AfterDestroy(agent, s, agent')
  BY <1>1, destroySocketSound, destroySocketFields
<1>3. /\ agent' \in AgentRec /\ agent'.sockets = agent.sockets /\ agent'.free = agent.free
      /\ agent'.total = agent.total /\ agent'.creating = agent.creating
  BY <1>2 DEF AfterDestroy
<1> QED BY <1>1, <1>2, <1>3, SameGrows

(* The invariant of a step that changes the agent only. *)
LEMMA StillTyped ==
  ASSUME Inv, UNCHANGED <<opt, req, home, closes>>, Sound(agent', {}, 0)
  PROVE  Inv'
<1>1. req' \in [Reqs -> {"idle", "open", "destroyed"}] /\ closes' \in [Reqs -> Nat]
  BY Agent
<1> QED BY <1>1, Preserved

(* A free socket is in no tick and no request has it. *)
LEMMA IdleSocket ==
  ASSUME Inv, NEW s, Idle(s)
  PROVE  s \in Sockets /\ InFree(agent, s) /\ agent.sock[s] # "none" /\ s \notin agent.attached /\ ~InTick(agent, s)
<1> USE AgentAssumption
<1>1. PICK o \in Origins : s \in ToSet(agent.free[o])
  BY DEF Idle
<1>2. agent.free[o] \in Seq(Sockets) /\ Sound(agent, {}, 0) /\ UsersOK(agent)
  BY Agent DEF Sound
<1>3. In(agent.free[o], s)
  BY <1>1, <1>2 DEF ToSet, In
<1>4. s \in Sockets /\ agent.sock[s] # "none" /\ InFree(agent, s)
  BY <1>2, <1>3, Injected DEF InFree
<1>5. s \notin agent.attached /\ ~InTick(agent, s)
  BY <1>2, <1>4 DEF UsersOK, InTick
<1> QED BY <1>4, <1>5

(* A socket fails, expires, or ends. *)
LEMMA dyingStep ==
  ASSUME Inv, NEW s \in Sockets, socketFails(s) \/ onTimeout(s) \/ serverEnds(s) \/ endFinishes(s)
  PROVE  Inv' /\ Grows(agent, agent')
<1>1. CASE socketFails(s)
  <2>1. UNCHANGED <<opt, req, home, closes>> /\ agent' = destroySocket(agent, s)
    BY <1>1 DEF socketFails
  <2> QED BY <2>1, DestroySound, StillTyped
<1>2. CASE onTimeout(s)
  <2>1. UNCHANGED <<opt, req, home, closes>> /\ agent' = destroySocket(agent, s)
    BY <1>2 DEF onTimeout
  <2> QED BY <2>1, DestroySound, StillTyped
<1>3. CASE serverEnds(s)
  <2>1. /\ UNCHANGED <<opt, req, home, closes>> /\ agent.sock[s] = "open"
        /\ agent' = [agent EXCEPT !.sock[s] = "ended"]
    BY <1>3 DEF serverEnds
  <2> QED BY <2>1, EndSound, StillTyped
<1>4. CASE endFinishes(s)
  <2>1. UNCHANGED <<opt, req, home, closes>> /\ agent' = destroySocket(agent, s)
    BY <1>4 DEF endFinishes
  <2> QED BY <2>1, DestroySound, StillTyped
<1> QED BY <1>1, <1>2, <1>3, <1>4

(* The sizes before a step may be read in a state that has the same pools. *)
LEMMA SameBefore ==
  ASSUME NEW G, NEW A \in AgentRec, NEW H, Grows(A, H), A.sock = G.sock, A.sockets = G.sockets, A.free = G.free,
         A.total = G.total, A.origin = G.origin, A.creating = G.creating
  PROVE  Grows(G, H)
BY DEF Grows, SizeOf, Dropped

(* A response ends: 'free' is to be emitted, or the socket ends. *)
LEMMA responseOnEndStep ==
  ASSUME Inv, NEW s \in Sockets, NEW keep \in BOOLEAN, responseOnEnd(s, keep)
  PROVE  Inv' /\ Grows(agent, agent')
<1>1. /\ agent \in AgentRec /\ opt \in Options /\ Sound(agent, {}, 0)
      /\ req \in [Reqs -> {"idle", "open", "destroyed"}] /\ closes \in [Reqs -> Nat]
  BY Agent
<1>2. s \in agent.attached /\ agent.sock[s] = "open" /\ UNCHANGED <<opt, home, closes>>
  BY DEF responseOnEnd, Active
<1>3. agent.message[s] \in Reqs
  BY <1>2, Agent
<1>4. CASE keep
  <2> DEFINE D == Detached(agent, s)
             e == [t |-> "free", r |-> agent.message[s], s |-> s]
  <2>1. /\ agent' = [D EXCEPT !.ticks = Append(@, e)]
        /\ req' = [req EXCEPT ![agent.message[s]] = "destroyed"]
    BY <1>4 DEF responseOnEnd
  <2>2. /\ Sound(D, {}, 0) /\ InHand(D, s)
        /\ D.sock = agent.sock /\ D.sockets = agent.sockets /\ D.free = agent.free /\ D.total = agent.total
        /\ D.creating = agent.creating
    BY <1>1, <1>2, DetachSound
  <2>3. e \in TickRec /\ e.s = s /\ e.t = "free"
    BY <1>3 DEF TickRec
  <2> HIDE DEF D, e
  <2>4. D \in AgentRec /\ D.ticks \in Seq(TickRec)
    BY <2>2, AgentFields DEF Sound
  <2> DEFINE w == Append(D.ticks, e)
  <2>5. w \in Seq(TickRec) /\ agent' = [D EXCEPT !.ticks = w]
    BY <2>1, <2>3, <2>4
  <2>6. w = Append(D.ticks, e)
    OBVIOUS
  <2> HIDE DEF w
  <2>7. /\ agent' \in AgentRec /\ agent'.ticks = w
        /\ agent'.requests = D.requests /\ agent'.keys = D.keys /\ agent'.sockets = D.sockets
        /\ agent'.free = D.free /\ agent'.total = D.total /\ agent'.sock = D.sock
        /\ agent'.origin = D.origin /\ agent'.message = D.message /\ agent'.attached = D.attached
        /\ agent'.creating = D.creating
    BY <2>4, <2>5 DEF AgentRec
  <2>8. Sound(agent', {}, 0)
    <3>1. (e.s = None \/ InHand(D, e.s)) /\ e.s \notin {} /\ (e.t = "free" => e.s # None)
      BY <1>2, <2>2, <2>3, AgentAssumption DEF InHand
    <3> QED BY <2>2, <2>3, <2>6, <2>7, <3>1, TickSound
  <2>9. Grows(agent, agent')
    BY <1>1, <2>2, <2>7, SameGrows
  <2>10. req' \in [Reqs -> {"idle", "open", "destroyed"}] /\ closes' \in [Reqs -> Nat]
    BY <1>1, <1>2, <1>3, <2>1
  <2> QED BY <1>2, <2>8, <2>9, <2>10, Preserved
<1>5. CASE ~keep
  <2>1. agent' = [agent EXCEPT !.sock[s] = "ended"] /\ UNCHANGED <<opt, req, home, closes>>
    BY <1>2, <1>5 DEF responseOnEnd
  <2> QED BY <1>2, <2>1, EndSound, StillTyped
<1> QED BY <1>4, <1>5

(* An upgrade takes the socket away from the agent. *)
LEMMA upgradeStep ==
  ASSUME Inv, NEW s \in Sockets, upgrade(s)
  PROVE  Inv' /\ Grows(agent, agent')
<1>1. /\ s \in agent.attached /\ agent.ticks = <<>> /\ Room /\ UNCHANGED <<opt, home>>
      /\ agent' = Gone(agent, s) /\ req' = [req EXCEPT ![agent.message[s]] = "destroyed"]
      /\ closes' = [closes EXCEPT ![agent.message[s]] = @ + 1]
  BY DEF upgrade, Quiet, Active, Closed
<1>2. /\ opt \in Options /\ Sound(agent, {}, 0) /\ HasRoom(agent) /\ agent.message[s] \in Reqs
      /\ ~InFree(agent, s) /\ UsersOK(agent)
      /\ req \in [Reqs -> {"idle", "open", "destroyed"}] /\ closes \in [Reqs -> Nat]
  BY <1>1, Agent DEF Sound
<1>3. agent.sock[s] # "none" /\ ~InTick(agent, s)
  BY <1>1, <1>2 DEF UsersOK, InTick
<1>4. Sound(agent', {}, 0) /\ Grows(agent, agent')
  BY <1>1, <1>2, <1>3, GoneGrows
<1>5. req' \in [Reqs -> {"idle", "open", "destroyed"}] /\ closes' \in [Reqs -> Nat]
  BY <1>1, <1>2
<1> QED BY <1>1, <1>4, <1>5, Preserved

(* The error of a free socket removes it. *)
LEMMA freeSocketErrorListenerStep ==
  ASSUME Inv, NEW s \in Sockets, freeSocketErrorListener(s)
  PROVE  Inv' /\ Grows(agent, agent')
<1> DEFINE D == destroySocket(agent, s)
<1>1. /\ Idle(s) /\ Room /\ UNCHANGED <<opt, req, home, closes>> /\ agent' = Gone(D, s)
  BY DEF freeSocketErrorListener
<1>2. D = destroySocket(agent, s)
  OBVIOUS
<1> HIDE DEF D
<1>3. /\ opt \in Options /\ agent \in AgentRec /\ Sound(agent, {}, 0) /\ HasRoom(agent)
      /\ agent.sock \in [Sockets -> SockState]
  BY <1>1, Agent
<1>4. Sound(D, {}, 0) /\ AfterDestroy(agent, s, D)
  BY <1>2, <1>3, destroySocketSound, destroySocketFields
<1>5. agent.sock[s] # "none" /\ ~InTick(agent, s)
  BY <1>1, IdleSocket
<1>6. /\ D \in AgentRec /\ D.sock = [agent.sock EXCEPT ![s] = IF @ = "none" THEN @ ELSE "destroyed"]
      /\ D.sockets = agent.sockets /\ D.free = agent.free /\ D.total = agent.total
      /\ D.origin = agent.origin /\ D.creating = agent.creating /\ D.ticks = agent.ticks
  BY <1>4 DEF AfterDestroy
<1>7. D.sock[s] = "destroyed" /\ \A t \in Sockets : t # s => D.sock[t] = agent.sock[t]
  BY <1>3, <1>5, <1>6
<1>8. HasRoom(D) /\ ~InTick(D, s) /\ D.sock[s] # "none" /\ ~Writable(D, s)
  BY <1>3, <1>5, <1>6, <1>7 DEF HasRoom, InTick, Writable
<1>9. Sound(agent', {}, 0) /\ Grows(D, agent')
  BY <1>1, <1>3, <1>4, <1>8, GoneGrows
<1>10. Grows(agent, agent')
  <2>1. \A o \in Origins : SizeOf(D, o) = SizeOf(agent, o)
    BY <1>6 DEF SizeOf
  <2>2. ASSUME NEW o \in Origins, Dropped(D, o, agent'), ~Dropped(agent, o, agent') PROVE FALSE
    <3>1. PICK t \in Sockets : /\ D.sock[t] = "destroyed" /\ D.origin[t] = o /\ agent'.sock[t] = "none"
                              /\ t \notin D.sockets[o] /\ ~In(D.free[o], t)
      BY <2>2 DEF Dropped
    <3>2. t = s
      BY <1>6, <1>7, <2>2, <3>1 DEF Dropped
    <3>3. InFree(agent, s) /\ agent.origin[s] = o
      BY <1>1, <1>6, <3>1, <3>2, IdleSocket
    <3>4. In(agent.free[o], s)
      BY <1>3, <3>3, Injected DEF InFree
    <3> QED BY <1>6, <3>1, <3>2, <3>4
  <2> QED BY <1>6, <1>9, <2>1, <2>2 DEF Grows
<1> QED BY <1>1, <1>9, <1>10, StillTyped

(* 'close' of a destroyed socket. *)
LEMMA onCloseStep ==
  ASSUME Inv, NEW s \in Sockets, onClose(s)
  PROVE  Inv' /\ Grows(agent, agent')
<1> DEFINE told == {agent.waiter[s]} \cup (IF s \in agent.attached THEN {agent.message[s]} ELSE {})
<1>1. /\ agent.ticks = <<>> /\ agent.sock[s] = "destroyed" /\ Room /\ UNCHANGED <<opt, home>>
      /\ agent' = Gone(agent, s)
      /\ closes' = [r \in Reqs |-> IF r \in told THEN closes[r] + 1 ELSE closes[r]]
      /\ req' = [r \in Reqs |-> IF r \in told THEN "destroyed" ELSE req[r]]
  BY DEF onClose, Quiet
<1> HIDE DEF told
<1>2. /\ opt \in Options /\ Sound(agent, {}, 0) /\ HasRoom(agent)
      /\ req \in [Reqs -> {"idle", "open", "destroyed"}] /\ closes \in [Reqs -> Nat]
  BY <1>1, Agent
<1>3. agent.sock[s] # "none" /\ ~InTick(agent, s) /\ ~Writable(agent, s)
  BY <1>1 DEF InTick, Writable
<1>4. Sound(agent', {}, 0) /\ Grows(agent, agent')
  BY <1>1, <1>2, <1>3, GoneGrows
<1>5. req' \in [Reqs -> {"idle", "open", "destroyed"}] /\ closes' \in [Reqs -> Nat]
  BY <1>1, <1>2
<1> QED BY <1>1, <1>4, <1>5, Preserved

(* A tick starts. *)
LEMMA TickStarts ==
  ASSUME Inv, NEW t, Ticking(t), NEW T, T = Ticked, NEW e, e = Head(agent.ticks)
  PROVE  /\ opt \in Options /\ agent \in AgentRec /\ T \in AgentRec /\ Sound(T, {}, 0) /\ HasRoom(T)
         /\ e.t = t /\ e.r \in Reqs /\ (e.s # None => InHand(T, e.s)) /\ (t = "free" => e.s # None)
         /\ T.sock = agent.sock /\ T.sockets = agent.sockets /\ T.free = agent.free
         /\ T.total = agent.total /\ T.origin = agent.origin /\ T.creating = agent.creating
         /\ Grows(agent, T)
         /\ req \in [Reqs -> {"idle", "open", "destroyed"}] /\ closes \in [Reqs -> Nat]
<1>1. /\ agent \in AgentRec /\ opt \in Options /\ Sound(agent, {}, 0) /\ HasRoom(agent)
      /\ req \in [Reqs -> {"idle", "open", "destroyed"}] /\ closes \in [Reqs -> Nat]
  BY Agent DEF Ticking
<1>2. agent.ticks # <<>> /\ e.t = t /\ T = [agent EXCEPT !.ticks = Tail(@)]
  BY DEF Ticking, Ticked
<1>3. /\ Sound(T, {}, 0) /\ e \in TickRec /\ (e.s # None => InHand(T, e.s)) /\ (e.t = "free" => e.s # None)
      /\ T.sock = agent.sock /\ T.sockets = agent.sockets /\ T.free = agent.free
      /\ T.total = agent.total /\ T.origin = agent.origin /\ T.creating = agent.creating
  BY <1>1, <1>2, TickedSound
<1>4. e.r \in Reqs
  BY <1>3 DEF TickRec
<1>5. T \in AgentRec
  BY <1>3 DEF Sound
<1>6. HasRoom(T)
  BY <1>1, <1>3 DEF HasRoom
<1>7. Grows(agent, T)
  BY <1>1, <1>3, <1>5, SameGrows
<1> QED BY <1>1, <1>2, <1>3, <1>4, <1>5, <1>6, <1>7

(* A request is given its socket, or the socket is set free again. *)
LEMMA onSocketNTStep ==
  ASSUME Inv, onSocketNT
  PROVE  Inv' /\ Grows(agent, agent')
<1> DEFINE T == Ticked
           e == Head(agent.ticks)
           r == e.r
           s == e.s
<1>1. /\ Ticking("onSocket") /\ opt' = opt /\ home' = home
      /\ req' = IF s = None THEN [req EXCEPT ![r] = "destroyed"] ELSE req
      /\ \/ s = None /\ agent' = T /\ Closed(r)
         \/ s # None /\ agent' = Free(T, s) /\ Closed(r)
         \/ s # None /\ agent' = [T EXCEPT !.waiter[s] = r] /\ UNCHANGED closes
         \/ s # None /\ agent' = [T EXCEPT !.message[s] = r, !.attached = @ \cup {s}] /\ UNCHANGED closes
  BY DEF onSocketNT
<1>2. T = Ticked /\ e = Head(agent.ticks)
  OBVIOUS
<1> HIDE DEF T, e
<1>3. /\ opt \in Options /\ agent \in AgentRec /\ T \in AgentRec /\ Sound(T, {}, 0) /\ HasRoom(T)
      /\ r \in Reqs /\ (s # None => InHand(T, s))
      /\ T.sock = agent.sock /\ T.sockets = agent.sockets /\ T.free = agent.free
      /\ T.total = agent.total /\ T.origin = agent.origin /\ T.creating = agent.creating
      /\ Grows(agent, T)
      /\ req \in [Reqs -> {"idle", "open", "destroyed"}] /\ closes \in [Reqs -> Nat]
  BY <1>1, <1>2, TickStarts
<1> HIDE DEF r, s
<1>4. req' \in [Reqs -> {"idle", "open", "destroyed"}] /\ closes' \in [Reqs -> Nat]
  BY <1>1, <1>3 DEF Closed
<1>5. Sound(agent', {}, 0) /\ Grows(agent, agent')
  <2>1. CASE agent' = T
    BY <1>3, <2>1
  <2>2. CASE s # None /\ agent' = Free(T, s)
    <3>1. Sound(agent', {}, 0) /\ Grows(T, agent')
      BY <1>3, <2>2, FreeGrows
    <3> QED BY <1>3, <3>1, SameBefore
  <2>3. CASE s # None /\ agent' = [T EXCEPT !.waiter[s] = r]
    <3> DEFINE w == [T.waiter EXCEPT ![s] = r]
    <3>1. w \in [Sockets -> Reqs \cup {None}] /\ agent' = [T EXCEPT !.waiter = w]
      BY <1>3, <2>3, AgentFields
    <3> HIDE DEF w
    <3>2. /\ agent' \in AgentRec
          /\ agent'.requests = T.requests /\ agent'.keys = T.keys /\ agent'.sockets = T.sockets
          /\ agent'.free = T.free /\ agent'.total = T.total /\ agent'.sock = T.sock
          /\ agent'.origin = T.origin /\ agent'.message = T.message /\ agent'.attached = T.attached
          /\ agent'.ticks = T.ticks /\ agent'.creating = T.creating
      BY <1>3, <3>1 DEF AgentRec
    <3>3. Sound(agent', {}, 0)
      BY <1>3, <3>2, SameSound
    <3> QED BY <1>3, <3>2, <3>3, SameGrows
  <2>4. CASE s # None /\ agent' = [T EXCEPT !.message[s] = r, !.attached = @ \cup {s}]
    <3> DEFINE w == [T.message EXCEPT ![s] = r]
               a == T.attached \cup {s}
    <3>1. InHand(T, s) /\ s \in Sockets
      BY <1>3, <2>4 DEF InHand
    <3>2. w \in [Sockets -> Reqs \cup {None}] /\ a \in SUBSET Sockets
          /\ agent' = [T EXCEPT !.message = w, !.attached = a]
      BY <1>3, <2>4, <3>1, AgentFields
    <3>3. w = [T.message EXCEPT ![s] = r] /\ a = T.attached \cup {s}
      OBVIOUS
    <3> HIDE DEF w, a
    <3>4. /\ agent' \in AgentRec /\ agent'.message = w /\ agent'.attached = a
          /\ agent'.requests = T.requests /\ agent'.keys = T.keys /\ agent'.sockets = T.sockets
          /\ agent'.free = T.free /\ agent'.total = T.total /\ agent'.sock = T.sock
          /\ agent'.origin = T.origin /\ agent'.ticks = T.ticks /\ agent'.creating = T.creating
      BY <1>3, <3>2 DEF AgentRec
    <3>5. Sound(agent', {}, 0)
      BY <1>3, <3>1, <3>3, <3>4, AttachSound
    <3> QED BY <1>3, <3>4, <3>5, SameGrows
  <2> QED BY <1>1, <2>1, <2>2, <2>3, <2>4
<1> QED BY <1>1, <1>4, <1>5, Preserved

(* The 'free' of responseKeepAlive(). *)
LEMMA emitFreeNTStep ==
  ASSUME Inv, emitFreeNT
  PROVE  Inv' /\ Grows(agent, agent')
<1> DEFINE T == Ticked
           e == Head(agent.ticks)
<1>1. /\ Ticking("free") /\ opt' = opt /\ home' = home /\ req' = req
      /\ agent' = Free(T, e.s) /\ closes' = [closes EXCEPT ![e.r] = @ + 1]
  BY DEF emitFreeNT, Closed
<1>2. T = Ticked /\ e = Head(agent.ticks)
  OBVIOUS
<1> HIDE DEF T, e
<1>3. /\ opt \in Options /\ T \in AgentRec /\ Sound(T, {}, 0) /\ HasRoom(T)
      /\ e.r \in Reqs /\ InHand(T, e.s)
      /\ T.sock = agent.sock /\ T.sockets = agent.sockets /\ T.free = agent.free
      /\ T.total = agent.total /\ T.origin = agent.origin /\ T.creating = agent.creating
      /\ req \in [Reqs -> {"idle", "open", "destroyed"}] /\ closes \in [Reqs -> Nat]
  BY <1>1, <1>2, TickStarts
<1>4. Sound(agent', {}, 0) /\ Grows(T, agent')
  BY <1>1, <1>3, FreeGrows
<1>5. Grows(agent, agent')
  BY <1>3, <1>4, SameBefore
<1>6. req' \in [Reqs -> {"idle", "open", "destroyed"}] /\ closes' \in [Reqs -> Nat]
  BY <1>1, <1>3
<1> QED BY <1>1, <1>4, <1>5, <1>6, Preserved

(* A tunnel is ready, or fails. *)
LEMMA tunnelStep ==
  ASSUME Inv, NEW c \in Tunnels, tunnelOpens(c) \/ tunnelFails(c)
  PROVE  Inv' /\ Grows(agent, agent')
<1> USE AgentAssumption
<1> DEFINE d == [agent.creating EXCEPT ![c] = @ - 1]
           G == [agent EXCEPT !.creating = d]
<1>1. agent \in AgentRec /\ Sound(agent, {}, 0) /\ agent.creating \in [Tunnels -> Nat]
  BY Agent, AgentFields
<1>2. c.o \in Origins /\ c.r \in Reqs /\ d \in [Tunnels -> Nat] /\ agent.creating[c] > 0
  <2>1. c.o \in Origins /\ c.r \in Reqs
    BY DEF Tunnels
  <2>2. agent.creating[c] > 0
    BY DEF tunnelOpens, tunnelFails
  <2>3. agent.creating[c] - 1 \in Nat
    BY <1>1, <2>2
  <2>4. d \in [Tunnels -> Nat]
    BY <1>1, <2>3, Zenon
  <2> QED BY <2>1, <2>2, <2>4
<1>3. G = [agent EXCEPT !.creating = d] /\ G = [agent EXCEPT !.creating[c] = @ - 1]
  OBVIOUS
<1> HIDE DEF d, G
<1>4. Grows(agent, agent')
  <2>1. agent.creating # NoTunnel
    BY <1>2 DEF NoTunnel
  <2> QED BY <2>1 DEF Grows
<1>5. UNCHANGED <<opt, req, home, closes>>
  BY DEF tunnelOpens, tunnelFails
<1>6. \/ Room /\ agent' = Then(Oncreate(G, c.o, NewSocket(G)), c.by, c.r, NewSocket(G))
      \/ agent' = setRequestSocket(G, c.r, None)
  BY DEF tunnelOpens, tunnelFails, G, d
<1>7. /\ G \in AgentRec
      /\ G.requests = agent.requests /\ G.keys = agent.keys /\ G.sockets = agent.sockets /\ G.free = agent.free
      /\ G.total = agent.total /\ G.origin = agent.origin /\ G.message = agent.message
      /\ G.attached = agent.attached /\ G.ticks = agent.ticks /\ G.sock = agent.sock
  BY <1>1, <1>2, <1>3 DEF AgentRec
<1>8. Sound(G, {}, 0)
  BY <1>1, <1>7, SameSound
<1>9. CASE Room /\ agent' = Then(Oncreate(G, c.o, NewSocket(G)), c.by, c.r, NewSocket(G))
  <2> DEFINE s == NewSocket(G)
             by == c.by
             r == c.r
             o == c.o
  <2>1. s \in Sockets /\ G.sock[s] = "none"
    <3>1. HasRoom(G)
      BY <1>7, <1>9 DEF Room, HasRoom
    <3> QED BY <3>1, NewSocketIs
  <2>2. agent' = Then(Oncreate(G, o, s), by, r, s) /\ o \in Origins /\ r \in Reqs /\ 0 \in Int
    BY <1>2, <1>9
  <2> HIDE DEF s, by, r, o
  <2>3. Sound(agent', {}, 0)
    BY <1>8, <2>1, <2>2, MakeSound, Zenon
  <2> QED BY <1>5, <2>3, <1>4, StillTyped
<1>10. CASE agent' = setRequestSocket(G, c.r, None)
  <2>1. Sound(agent', {}, 0)
    BY <1>2, <1>8, <1>10, setRequestSocketSound
  <2> QED BY <1>5, <2>1, <1>4, StillTyped
<1> QED BY <1>6, <1>9, <1>10

(* Every action keeps the invariant and the limits. *)
LEMMA NextStep ==
  ASSUME Inv, Next
  PROVE  Inv' /\ Grows(agent, agent')
<1>1. ASSUME NEW r \in Reqs, addRequest(r) PROVE Inv' /\ Grows(agent, agent')
  BY <1>1, addRequestStep
<1>2. ASSUME NEW r \in Reqs, destroyRequest(r) PROVE Inv' /\ Grows(agent, agent')
  BY <1>2, destroyRequestStep
<1>3. CASE destroy
  BY <1>3, destroyStep
<1>4. CASE Tick
  BY <1>4, onSocketNTStep, emitFreeNTStep DEF Tick
<1>5. CASE Tunnel
  BY <1>5, tunnelStep DEF Tunnel
<1>6. ASSUME NEW s \in Sockets, Answer(s) PROVE Inv' /\ Grows(agent, agent')
  <2>1. ASSUME NEW keep \in BOOLEAN, responseOnEnd(s, keep) PROVE Inv' /\ Grows(agent, agent')
    BY <2>1, responseOnEndStep
  <2>2. CASE socketFails(s)
    BY <2>2, dyingStep
  <2>3. CASE upgrade(s)
    BY <2>3, upgradeStep
  <2> QED BY <1>6, <2>1, <2>2, <2>3 DEF Answer
<1>7. ASSUME NEW s \in Sockets, Expire(s) PROVE Inv' /\ Grows(agent, agent')
  BY <1>7, dyingStep, freeSocketErrorListenerStep DEF Expire
<1>8. ASSUME NEW s \in Sockets, Die(s) PROVE Inv' /\ Grows(agent, agent')
  BY <1>8, dyingStep, onCloseStep DEF Die
<1> QED BY <1>1, <1>2, <1>3, <1>4, <1>5, <1>6, <1>7, <1>8 DEF Next

(* So does a step that changes nothing. *)
LEMMA StutterStep ==
  ASSUME Inv, UNCHANGED vars
  PROVE  Inv' /\ agent' = agent /\ opt' = opt
BY DEF Inv, vars

(* The agent is sound between any two events. *)
LEMMA InvHolds == Spec => []Inv
<1>1. Inv /\ [Next]_vars => Inv'
  BY NextStep, StutterStep
<1> QED BY <1>1, InitInv, PTL DEF Spec

(* TypeOK and CountExact: totalSocketCount, which oncreate() increments and  *)
(* onClose() and onRemove() decrement (lib/_http_agent.js), is the number of *)
(* sockets that are not gone, whatever became of them in between.            *)
THEOREM PoolExactHolds == Spec => []PoolExact
<1>1. Inv => PoolExact
  <2> SUFFICES ASSUME Inv PROVE PoolExact
    OBVIOUS
  <2>1. agent \in AgentRec /\ Counted(agent, 0)
    BY DEF Inv, Sound
  <2>2. TypeOK
    BY <2>1, AgentFields DEF TypeOK, Inv, SockState
  <2>3. CountExact
    <3>1. agent.total \in Int
      BY <2>1, AgentFields
    <3> QED BY <2>1, <3>1 DEF CountExact, Counted, Used
  <2> QED BY <2>2, <2>3 DEF PoolExact
<1> QED BY <1>1, InvHolds, PTL

(* A set without two elements. *)
LEMMA AtMostOne ==
  ASSUME NEW S, \A x, y \in S : x = y
  PROVE  /\ S = {} => Cardinality(S) = 0
         /\ S # {} => Cardinality(S) = 1
         /\ Cardinality(S) \in {0, 1}
<1>1. CASE S = {}
  BY <1>1, FS_EmptySet
<1>2. CASE S # {}
  <2>1. PICK x : x \in S
    BY <1>2
  <2>2. S = {x}
    BY <2>1
  <2> QED BY <1>2, <2>2, FS_Singleton
<1> QED BY <1>1, <1>2

(* OneHome and NotShared: addRequest(), 'free', removeSocket() and the ticks of  *)
(* setRequestSocket() (lib/_http_agent.js) leave every socket in one pool of one *)
(* origin, once, and give it to one request at a time.                           *)
THEOREM OneOwnerHolds == Spec => []OneOwner
<1>1. Inv => OneOwner
  <2> SUFFICES ASSUME Inv PROVE OneOwner
    OBVIOUS
  <2>1. /\ agent \in AgentRec /\ PoolsOK(agent, {}) /\ UsersOK(agent) /\ Sound(agent, {}, 0)
        /\ agent.free \in [Origins -> Seq(Sockets)]
    BY Agent DEF Sound
  <2>2. ASSUME NEW s \in Sockets
        PROVE  /\ \A x, y \in Held(s) : x = y
               /\ \A x, y \in Pooled(s) : x = y
               /\ Held(s) = {} \/ Pooled(s) = {}
               /\ Pooled(s) # {} <=> InFree(agent, s)
               /\ Held(s) # {} => agent.sock[s] # "none" /\ agent.origin[s] \in Held(s)
    <3>1. \A o \in Held(s) : o \in Origins /\ s \in agent.sockets[o] /\ agent.origin[s] = o /\ agent.sock[s] # "none"
      BY <2>1 DEF Held, PoolsOK
    <3>2. ASSUME NEW x \in Pooled(s)
          PROVE  \E o \in Origins, i \in Nat : x = <<o, i>> /\ i \in 1 .. Len(agent.free[o]) /\ agent.free[o][i] = s
      <4>1. PICK o \in Origins : x \in {<<o, i>> : i \in {j \in DOMAIN agent.free[o] : agent.free[o][j] = s}}
        BY DEF Pooled
      <4>2. DOMAIN agent.free[o] = 1 .. Len(agent.free[o])
        BY <2>1
      <4> QED BY <4>1, <4>2
    <3>3. ASSUME NEW x \in Pooled(s), NEW y \in Pooled(s) PROVE x = y
      <4>1. PICK o \in Origins, i \in Nat : x = <<o, i>> /\ i \in 1 .. Len(agent.free[o]) /\ agent.free[o][i] = s
        BY <3>2
      <4>2. PICK p \in Origins, j \in Nat : y = <<p, j>> /\ j \in 1 .. Len(agent.free[p]) /\ agent.free[p][j] = s
        BY <3>2
      <4>3. In(agent.free[o], s) /\ In(agent.free[p], s)
        BY <4>1, <4>2 DEF In
      <4>4. o = p
        BY <2>1, <4>3, Injected
      <4>5. i = j
        BY <2>1, <4>1, <4>2, <4>4 DEF PoolsOK, Distinct
      <4> QED BY <4>1, <4>2, <4>4, <4>5
    <3>4. ASSUME NEW x \in Pooled(s), NEW p \in Held(s) PROVE FALSE
      <4>1. PICK o \in Origins, i \in Nat : x = <<o, i>> /\ i \in 1 .. Len(agent.free[o]) /\ agent.free[o][i] = s
        BY <3>2
      <4>2. In(agent.free[o], s)
        BY <4>1 DEF In
      <4> QED BY <2>1, <3>1, <4>2, Injected
    <3>5. ASSUME InFree(agent, s) PROVE Pooled(s) # {}
      <4>1. PICK o \in Origins, i \in Nat : i \in 1 .. Len(agent.free[o]) /\ agent.free[o][i] = s
        BY <3>5 DEF InFree, In
      <4>2. i \in DOMAIN agent.free[o]
        <5>1. agent.free[o] \in Seq(Sockets)
          BY <2>1
        <5> QED BY <4>1, <5>1
      <4>3. <<o, i>> \in {<<o, m>> : m \in {j \in DOMAIN agent.free[o] : agent.free[o][j] = s}}
        BY <4>1, <4>2
      <4> DEFINE F(p) == {<<p, m>> : m \in {j \in DOMAIN agent.free[p] : agent.free[p][j] = s}}
      <4>4. Pooled(s) = UNION {F(p) : p \in Origins}
        BY DEF Pooled
      <4>5. <<o, i>> \in F(o)
        BY <4>3
      <4> HIDE DEF F
      <4>6. <<o, i>> \in UNION {F(p) : p \in Origins}
        BY <4>1, <4>5
      <4> QED BY <4>4, <4>6
    <3>6. Pooled(s) # {} => InFree(agent, s)
      BY <3>2 DEF InFree, In
    <3> QED BY <3>1, <3>3, <3>4, <3>5, <3>6
  <2>3. ASSUME NEW s \in Sockets
        PROVE  /\ Cardinality(Held(s)) \in {0, 1} /\ Cardinality(Pooled(s)) \in {0, 1}
               /\ Held(s) = {} => Cardinality(Held(s)) = 0
               /\ Held(s) # {} => Cardinality(Held(s)) = 1
               /\ Pooled(s) = {} => Cardinality(Pooled(s)) = 0
               /\ Pooled(s) # {} => Cardinality(Pooled(s)) = 1
    <3> DEFINE A == Held(s)
               B == Pooled(s)
    <3>1. (\A x, y \in A : x = y) /\ (\A x, y \in B : x = y)
      BY <2>2
    <3> HIDE DEF A, B
    <3>2. /\ A = {} => Cardinality(A) = 0
          /\ A # {} => Cardinality(A) = 1
          /\ Cardinality(A) \in {0, 1}
      BY <3>1, AtMostOne
    <3>3. /\ B = {} => Cardinality(B) = 0
          /\ B # {} => Cardinality(B) = 1
          /\ Cardinality(B) \in {0, 1}
      BY <3>1, AtMostOne
    <3> QED BY <3>2, <3>3 DEF A, B
  <2>4. OneHome
    <3> SUFFICES ASSUME NEW s \in Sockets
                 PROVE  /\ Cardinality(Held(s)) + Cardinality(Pooled(s)) <= 1
                        /\ agent.sock[s] \in {"open", "ended"} => Cardinality(Held(s)) + Cardinality(Pooled(s)) = 1
                        /\ agent.sock[s] = "none" => Held(s) = {} /\ Pooled(s) = {}
      BY DEF OneHome
    <3>1. agent.sock[s] \in {"open", "ended"} => Held(s) # {} \/ Pooled(s) # {}
      <4>1. agent.sock[s] \in {"open", "ended"} =>
              agent.origin[s] \in Origins /\ (s \in agent.sockets[agent.origin[s]] \/ InFree(agent, s))
        BY <2>1 DEF PoolsOK
      <4> QED BY <2>2, <4>1 DEF Held
    <3>2. agent.sock[s] = "none" => Held(s) = {} /\ Pooled(s) = {}
      <4>1. InFree(agent, s) => agent.sock[s] # "none"
        BY <2>1, Injected DEF InFree
      <4> QED BY <2>2, <4>1
    <3> QED BY <2>2, <2>3, <3>1, <3>2
  <2>5. NotShared
    <3> SUFFICES ASSUME NEW s \in Sockets
                 PROVE  /\ Cardinality(Users(s)) + (IF s \in agent.attached THEN 1 ELSE 0) <= 1
                        /\ Pooled(s) # {} => Users(s) = {} /\ s \notin agent.attached
      BY DEF NotShared
    <3>1. Users(s) = {i \in 1 .. Len(agent.ticks) : agent.ticks[i].s = s}
      <4>1. agent.ticks \in Seq(TickRec)
        BY <2>1, AgentFields
      <4> QED BY <4>1 DEF Users
    <3>2. s # None
      BY AgentAssumption
    <3>3. \A i, j \in Users(s) : i = j
      BY <2>1, <3>1, <3>2 DEF UsersOK
    <3>4. \A i \in Users(s) : ~InFree(agent, s) /\ s \notin agent.attached
      BY <2>1, <3>1, <3>2 DEF UsersOK
    <3>5. s \in agent.attached => ~InFree(agent, s)
      BY <2>1 DEF UsersOK
    <3> DEFINE U == Users(s)
    <3>6. /\ \A x, y \in U : x = y
      BY <3>3
    <3>7. Cardinality(U) \in {0, 1} /\ (U = {} => Cardinality(U) = 0)
      <4> HIDE DEF U
      <4> QED BY <3>6, AtMostOne
    <3> QED BY <2>2, <3>4, <3>5, <3>7
  <2> QED BY <2>4, <2>5 DEF OneOwner
<1> QED BY <1>1, InvHolds, PTL

(* TotalBounded, and why no tunnel makes a socket later. *)
Slack == ~opt.tunnel => agent.creating = NoTunnel /\ agent.total <= TotalCap

(* LimitsKept: the sockets that addRequest(), removeSocket() and 'free'        *)
(* (lib/_http_agent.js) make never pass maxTotalSockets by more than one, nor, *)
(* in any step, maxSockets but when a dropped socket closes.                   *)
THEOREM LimitsHold == Spec => LimitsKept
<1>1. Init => Slack
  <2> SUFFICES ASSUME Init PROVE Slack
    OBVIOUS
  <2>1. opt \in Options /\ agent.creating = NoTunnel /\ agent.total = 0
    BY DEF Init, EmptyAgent
  <2> QED BY <2>1, CapIs DEF Slack
<1>2. Inv /\ Slack /\ [Next]_vars => Slack'
  <2> SUFFICES ASSUME Inv, Slack, [Next]_vars PROVE Slack'
    OBVIOUS
  <2>1. CASE UNCHANGED vars
    BY <2>1, StutterStep DEF Slack, TotalCap
  <2>2. CASE Next
    <3>1. Inv' /\ Grows(agent, agent')
      BY <2>2, NextStep
    <3>2. opt' = opt
      BY <2>2 DEF Next, addRequest, destroyRequest, destroy, Tick, onSocketNT, emitFreeNT, Tunnel, tunnelOpens,
        tunnelFails, Answer, responseOnEnd, socketFails, upgrade, Expire, onTimeout, serverEnds,
        freeSocketErrorListener, Die, endFinishes, onClose
    <3>3. agent.total \in Int /\ agent'.total \in Int /\ TotalCap \in Nat /\ TotalCap' = TotalCap
      <4>1. agent \in AgentRec /\ agent' \in AgentRec /\ opt \in Options
        BY <3>1 DEF Inv, Sound
      <4> QED BY <3>2, <4>1, AgentFields, CapIs DEF TotalCap
    <3> QED BY <3>1, <3>2, <3>3 DEF Slack, Grows
  <2> QED BY <2>1, <2>2
<1>3. Inv /\ Slack /\ [Next]_vars => [TotalBounded' /\ OriginStep]_vars
  <2> SUFFICES ASSUME Inv, Slack, Next PROVE TotalBounded' /\ OriginStep
    OBVIOUS
  <2>10. TotalBounded'
    BY <1>2 DEF Slack, TotalBounded, TotalCap
  <2>1. Inv' /\ Grows(agent, agent')
    BY NextStep
  <2>2. SUFFICES ASSUME ~opt.tunnel, NEW o \in Origins, PassesLimit(o) PROVE DroppedCloses(o)
    BY <2>10 DEF OriginStep
  <2>3. agent \in AgentRec /\ agent' \in AgentRec /\ opt \in Options
    BY <2>1 DEF Inv, Sound
  <2>4. OriginSize(o) = SizeOf(agent, o) /\ OriginSize(o)' = SizeOf(agent', o)
    BY DEF OriginSize, SizeOf
  <2>5. SizeOf(agent, o) \in Nat /\ SizeOf(agent', o) \in Nat /\ opt.maxSockets \in Nat
    BY <2>3, SizeNat, CapIs
  <2>6. SizeOf(agent', o) <= SizeOf(agent, o) \/ SizeOf(agent', o) <= opt.maxSockets \/ Dropped(agent, o, agent')
    BY <2>1, <2>2 DEF Slack, Grows
  <2>7. Dropped(agent, o, agent')
    BY <2>2, <2>4, <2>5, <2>6 DEF PassesLimit
  <2>8. PICK s \in Sockets :
          /\ agent.sock[s] = "destroyed" /\ agent.origin[s] = o /\ agent'.sock[s] = "none"
          /\ s \notin agent.sockets[o] /\ ~In(agent.free[o], s)
    BY <2>7 DEF Dropped
  <2>9. s \notin ToSet(agent.free[o])
    <3>1. agent.free[o] \in Seq(Sockets)
      BY <2>3, AgentFields
    <3> QED BY <2>8, <3>1 DEF ToSet, In
  <2> QED BY <2>8, <2>9 DEF DroppedCloses
<1> QED BY <1>1, <1>2, <1>3, InvHolds, PTL DEF Spec, LimitsKept
====
