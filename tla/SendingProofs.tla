--------------------------- MODULE SendingProofs ----------------------------
(***************************************************************************)
(* The contexts of Sending are never lost, never returned twice; a packet  *)
(* goes astray only after its session has disconnected; what goes out on a *)
(* connection is what was posted on it, in order and unchanged, and each   *)
(* packet decodes to its message: for every number of sessions, threads,   *)
(* contexts and messages.                                                  *)
(***************************************************************************)
EXTENDS Sending, FiniteSetTheorems, SequenceTheorems, TLAPS

Occurs(q, c) == \E i \in DOMAIN q : q[i] = c
Once(q) == \A i, j \in DOMAIN q : q[i] = q[j] => i = j

----------------------------------------------------------------------------
(* Sequences of contexts.                                                   *)

LEMMA AppendFacts ==
    ASSUME NEW S, NEW q \in Seq(S), NEW c \in S
    PROVE  /\ Append(q, c) \in Seq(S)
           /\ \A d : Occurs(Append(q, c), d) <=> Occurs(q, d) \/ d = c
           /\ Once(q) /\ ~Occurs(q, c) => Once(Append(q, c))
  <1> DEFINE t == Append(q, c)
  <1>1. t \in Seq(S) /\ Len(t) = Len(q) + 1 /\ Len(q) \in Nat
    OBVIOUS
  <1>2. DOMAIN q = 1 .. Len(q) /\ DOMAIN t = 1 .. Len(q) + 1
    BY <1>1
  <1>3. (\A i \in 1 .. Len(q) : t[i] = q[i]) /\ t[Len(q) + 1] = c
    BY <1>1
  <1> HIDE DEF t
  <1>4. /\ \A i \in 1 .. Len(q) + 1 : i \in 1 .. Len(q) \/ i = Len(q) + 1
        /\ 1 .. Len(q) \subseteq 1 .. Len(q) + 1 /\ Len(q) + 1 \in 1 .. Len(q) + 1
    BY <1>1
  <1>5. ASSUME NEW d PROVE Occurs(t, d) <=> Occurs(q, d) \/ d = c
    BY <1>2, <1>3, <1>4 DEF Occurs
  <1>6. Once(q) /\ ~Occurs(q, c) => Once(t)
    BY <1>2, <1>3, <1>4 DEF Once, Occurs
  <1> QED
    BY <1>1, <1>5, <1>6 DEF t

LEMMA TailFacts ==
    ASSUME NEW S, NEW q \in Seq(S), q # << >>
    PROVE  /\ Tail(q) \in Seq(S) /\ Head(q) \in S
           /\ \A d : Occurs(q, d) <=> Occurs(Tail(q), d) \/ d = Head(q)
           /\ Once(q) => Once(Tail(q)) /\ ~Occurs(Tail(q), Head(q))
  <1> DEFINE t == Tail(q)
             n == Len(q)
  <1>1. /\ t \in Seq(S) /\ Len(t) = n - 1 /\ n \in Nat /\ n >= 1
        /\ Head(q) = q[1] /\ Head(q) \in S
    OBVIOUS
  <1>2. DOMAIN q = 1 .. n /\ DOMAIN t = 1 .. n - 1
    BY <1>1
  <1>3. \A i \in 1 .. n - 1 : t[i] = q[i + 1]
    BY <1>1
  <1> HIDE DEF t, n
  <1>4. /\ \A i \in 1 .. n - 1 : i + 1 \in 1 .. n /\ i + 1 # 1
        /\ \A i \in 1 .. n : i = 1 \/ (i - 1 \in 1 .. n - 1 /\ (i - 1) + 1 = i)
        /\ \A i, j \in 1 .. n - 1 : i + 1 = j + 1 => i = j
        /\ 1 \in 1 .. n
    BY <1>1
  <1>5. ASSUME NEW d PROVE Occurs(q, d) <=> Occurs(t, d) \/ d = Head(q)
    <2>1. ASSUME NEW i \in 1 .. n, q[i] = d, i # 1 PROVE Occurs(t, d)
      <3>1. i - 1 \in 1 .. n - 1 /\ t[i - 1] = q[i]
        BY <1>3, <1>4, <2>1
      <3> QED
        BY <1>2, <2>1, <3>1 DEF Occurs
    <2>2. Occurs(q, d) => Occurs(t, d) \/ d = Head(q)
      BY <1>1, <1>2, <2>1 DEF Occurs
    <2>3. Occurs(t, d) \/ d = Head(q) => Occurs(q, d)
      BY <1>1, <1>2, <1>3, <1>4 DEF Occurs
    <2> QED
      BY <2>2, <2>3
  <1>6. ASSUME Once(q), NEW i \in 1 .. n - 1, NEW j \in 1 .. n - 1, t[i] = t[j] PROVE i = j
    <2>1. q[i + 1] = q[j + 1] /\ i + 1 \in DOMAIN q /\ j + 1 \in DOMAIN q
      BY <1>2, <1>3, <1>4, <1>6
    <2> QED
      BY <1>4, <1>6, <2>1 DEF Once
  <1>7. ASSUME Once(q), NEW i \in 1 .. n - 1 PROVE t[i] # Head(q)
    <2>1. t[i] = q[i + 1] /\ i + 1 \in DOMAIN q /\ i + 1 # 1 /\ 1 \in DOMAIN q
      BY <1>2, <1>3, <1>4
    <2> QED
      BY <1>1, <1>7, <2>1 DEF Once
  <1>8. Once(q) => Once(t) /\ ~Occurs(t, Head(q))
    BY <1>2, <1>6, <1>7 DEF Once, Occurs
  <1> QED
    BY <1>1, <1>5, <1>8 DEF t

LEMMA EmptyFacts ==
    /\ \A S : << >> \in Seq(S)
    /\ Once(<< >>) /\ \A d : ~Occurs(<< >>, d)
  BY DEF Once, Occurs

LEMMA RangeOccurs == \A q, d : d \in Range(q) <=> Occurs(q, d)
  BY DEF Range, Occurs

\* A context may be added to those that exist.
LEMMA SeqGrows ==
    ASSUME NEW m \in Nat, NEW q \in Seq(1 .. m)
    PROVE  q \in Seq(1 .. m + 1)
  <1>1. Len(q) \in Nat /\ q \in [1 .. Len(q) -> 1 .. m]
    OBVIOUS
  <1>2. q \in [1 .. Len(q) -> 1 .. m + 1]
    BY <1>1
  <1> QED
    BY <1>1, <1>2

\* IsPrefix, element by element.
LEMMA PrefixIs ==
    ASSUME NEW S, NEW q \in Seq(S), NEW p \in Seq(S)
    PROVE  IsPrefix(q, p) <=> Len(q) <= Len(p) /\ \A i \in 1 .. Len(q) : q[i] = p[i]
  <1>1. Len(q) \in Nat /\ Len(p) \in Nat
    OBVIOUS
  <1>2. CASE Len(q) <= Len(p)
    <2> DEFINE a == SubSeq(q, 1, Len(q))
               b == SubSeq(p, 1, Len(q))
    <2>1. a \in Seq(S) /\ b \in Seq(S) /\ Len(a) = Len(q) /\ Len(b) = Len(q)
      BY <1>1, <1>2
    <2>2. \A i \in 1 .. Len(q) : a[i] = q[i] /\ b[i] = p[i]
      BY <1>1, <1>2
    <2> HIDE DEF a, b
    <2>3. a = b <=> \A i \in 1 .. Len(q) : a[i] = b[i]
      BY <2>1, SeqEqual
    <2> QED
      BY <1>2, <2>2, <2>3 DEF IsPrefix, a, b
  <1> QED
    BY <1>2 DEF IsPrefix

\* g has gone out, w waits: the first of w is the next of p.
LEMMA PrefixFirst ==
    ASSUME NEW S, NEW g \in Seq(S), NEW w \in Seq(S), NEW p \in Seq(S), IsPrefix(g \o w, p)
    PROVE  /\ IsPrefix(g \o << >>, p)
           /\ w # << >> => Len(g) < Len(p) /\ Head(w) = p[Len(g) + 1]
  <1>1. g \o w \in Seq(S) /\ Len(g \o w) = Len(g) + Len(w) /\ Len(g) \in Nat /\ Len(w) \in Nat /\ Len(p) \in Nat
    OBVIOUS
  <1>2. /\ \A i \in 1 .. Len(g) : (g \o w)[i] = g[i]
        /\ \A i \in 1 .. Len(w) : (g \o w)[Len(g) + i] = w[i]
    OBVIOUS
  <1>3. Len(g) + Len(w) <= Len(p) /\ \A i \in 1 .. Len(g) + Len(w) : (g \o w)[i] = p[i]
    BY <1>1, PrefixIs
  <1>4. g \o << >> = g
    OBVIOUS
  <1>5. IsPrefix(g, p)
    <2>1. Len(g) <= Len(p) /\ \A i \in 1 .. Len(g) : g[i] = p[i]
      BY <1>1, <1>2, <1>3
    <2> QED
      BY <2>1, PrefixIs
  <1>6. ASSUME w # << >> PROVE Len(g) < Len(p) /\ Head(w) = p[Len(g) + 1]
    <2>1. Len(w) >= 1 /\ Head(w) = w[1]
      BY <1>6
    <2> QED
      BY <1>1, <1>2, <1>3, <2>1
  <1> QED
    BY <1>4, <1>5, <1>6

\* An element joins w at its end, or moves from w to g.
LEMMA ConcatShifts ==
    ASSUME NEW S, NEW g \in Seq(S), NEW w \in Seq(S)
    PROVE  /\ \A x \in S : g \o Append(w, x) = Append(g \o w, x)
           /\ w # << >> => Append(g, Head(w)) \o Tail(w) = g \o w
  <1>1. ASSUME NEW x \in S PROVE g \o Append(w, x) = Append(g \o w, x)
    <2> DEFINE a == g \o Append(w, x)
               b == Append(g \o w, x)
    <2>1. a \in Seq(S) /\ b \in Seq(S) /\ Len(a) = Len(b) /\ Len(a) = Len(g) + Len(w) + 1
      OBVIOUS
    <2>2. \A i \in 1 .. Len(a) : a[i] = b[i]
      BY <2>1
    <2> HIDE DEF a, b
    <2>3. a = b
      BY <2>1, <2>2, SeqEqual
    <2> QED
      BY <2>3 DEF a, b
  <1>2. ASSUME w # << >> PROVE Append(g, Head(w)) \o Tail(w) = g \o w
    <2> DEFINE a == Append(g, Head(w)) \o Tail(w)
               b == g \o w
    <2>0. Head(w) \in S /\ Tail(w) \in Seq(S) /\ Len(Tail(w)) = Len(w) - 1 /\ Len(w) >= 1
      BY <1>2
    <2>1. a \in Seq(S) /\ b \in Seq(S) /\ Len(a) = Len(b) /\ Len(a) = Len(g) + Len(w)
      BY <2>0
    <2>2. \A i \in 1 .. Len(a) : a[i] = b[i]
      BY <2>0, <2>1
    <2> HIDE DEF a, b
    <2>3. a = b
      BY <2>1, <2>2, SeqEqual
    <2> QED
      BY <2>3 DEF a, b
  <1> QED
    BY <1>1, <1>2

LEMMA EmptyPrefix ==
    ASSUME NEW S, NEW g \in Seq(S), NEW w \in Seq(S), IsPrefix(g \o w, << >>)
    PROVE  g \o w = << >>
  <1>1. g \o w \in Seq(S) /\ Len(g \o w) \in Nat /\ Len(g \o w) <= 0
    BY DEF IsPrefix
  <1> QED
    BY <1>1

----------------------------------------------------------------------------
(* The inductive invariant.                                                 *)

\* A context is in one place: OnePlace, kind of place by kind of place.
Owned ==
    /\ Once(pool)
    /\ \A s \in Sessions : Once(pending[s])
    /\ \A t, u \in Senders : holds[t] # 0 /\ holds[t] = holds[u] => t = u
    /\ \A s, r \in Sessions, c \in 1 .. made :
          Occurs(pending[s], c) /\ Occurs(pending[r], c) => s = r
    /\ \A c \in 1 .. made : Occurs(pool, c) =>
          /\ c \notin done /\ \A t \in Senders : holds[t] # c
          /\ \A s \in Sessions : ~Occurs(pending[s], c)
    /\ \A t \in Senders : holds[t] # 0 =>
          holds[t] \notin done /\ \A s \in Sessions : ~Occurs(pending[s], holds[t])
    /\ \A s \in Sessions, c \in 1 .. made : Occurs(pending[s], c) => c \notin done

\* No context is lost.
Found ==
    \A c \in 1 .. made :
        \/ Occurs(pool, c) \/ c \in done
        \/ \E t \in Senders : holds[t] = c
        \/ \E s \in Sessions : Occurs(pending[s], c)

\* A thread has a context while it is in PostSend, and contexts and broadcasts are
\* for sessions that have been accepted.
Busy ==
    /\ \A t \in Senders : holds[t] # 0 <=> at[t] \in {"posting", "calling"}
    /\ \A c \in 1 .. made : ctxFor[c] \in opened
    /\ \A t \in Senders : rest[t] \subseteq opened

\* Open handles are different, and the handle a thread is about to use is that of
\* the session the packet is for, unless the session has disconnected.
Handled ==
    /\ \A s, r \in Sessions : sock[s] # 0 /\ sock[s] = sock[r] => s = r
    /\ \A s \in Sessions \ opened : sock[s] = 0
    /\ \A t \in Senders : at[t] = "calling" =>
          \/ ctxFor[holds[t]] \in disconnected
          \/ handle[t] = sock[ctxFor[holds[t]]]

IInv == TypeOK /\ Owned /\ Found /\ Busy /\ Handled /\ StrayOnlyAfterClose

LEMMA InitIInv == Init => IInv
  <1> SUFFICES ASSUME Init PROVE IInv
    OBVIOUS
  <1> USE BoundsType, SessionsExist
  <1>0. 1 .. 0 = {}
    OBVIOUS
  <1>1. TypeOK
    <2>1. (CHOOSE s \in Sessions : TRUE) \in Sessions
      BY SessionsExist
    <2>2. << >> \in Seq(1 .. 0) /\ << >> \in Seq(Letters)
      BY EmptyFacts
    <2>3. Garbage \in Packets
      BY DEF Packets
    <2> QED
      BY <2>1, <2>2, <2>3 DEF Init, TypeOK
  <1>2. Owned
    BY EmptyFacts DEF Init, Owned
  <1>3. Found /\ Busy /\ Handled
    BY <1>0 DEF Init, Found, Busy, Handled
  <1>4. StrayOnlyAfterClose
    BY DEF Init, StrayOnlyAfterClose
  <1> QED
    BY <1>1, <1>2, <1>3, <1>4 DEF IInv

----------------------------------------------------------------------------
(* The pool and the send queues.                                            *)

\* What Allocate returns was in the pool or is new, and is nowhere now.
LEMMA AllocateFacts ==
    ASSUME IInv, NEW c \in Contexts, Allocate(c)
    PROVE  /\ made' \in 0 .. MaxContexts /\ made <= made' /\ c \in 1 .. made' /\ c # 0
           /\ \A d \in 1 .. made' : d \in 1 .. made \/ d = c
           /\ 1 .. made \subseteq 1 .. made'
           /\ pool' \in Seq(1 .. made') /\ pending \in [Sessions -> Seq(1 .. made')]
           /\ Once(pool') /\ ~Occurs(pool', c)
           /\ \A d : d # c => (Occurs(pool', d) <=> Occurs(pool, d))
           /\ c \notin done /\ (\A t \in Senders : holds[t] # c)
           /\ \A s \in Sessions : ~Occurs(pending[s], c)
  <1> USE BoundsType
  <1>0. /\ made \in 0 .. MaxContexts /\ made \in Nat /\ pool \in Seq(1 .. made)
        /\ pending \in [Sessions -> Seq(1 .. made)] /\ holds \in [Senders -> 0 .. made]
        /\ done \subseteq 1 .. made /\ Owned
    BY DEF IInv, TypeOK
  <1>1. CASE pool = << >>
    <2>1. c = made + 1 /\ made < MaxContexts /\ made' = made + 1 /\ pool' = pool
      BY <1>1 DEF Allocate
    <2>2. \A s \in Sessions : pending[s] \in Seq(1 .. made + 1)
      BY <1>0, SeqGrows
    <2>3. \A s \in Sessions : ~Occurs(pending[s], c)
      BY <1>0, <2>1 DEF Occurs
    <2>4. pool' \in Seq(1 .. made') /\ Once(pool') /\ \A d : ~Occurs(pool', d) /\ ~Occurs(pool, d)
      BY <1>1, <2>1, EmptyFacts
    <2> QED
      BY <1>0, <2>1, <2>2, <2>3, <2>4
  <1>2. CASE pool # << >>
    <2>1. c = Head(pool) /\ pool' = Tail(pool) /\ made' = made
      BY <1>2 DEF Allocate
    <2>2. /\ pool' \in Seq(1 .. made) /\ c \in 1 .. made
          /\ \A d : Occurs(pool, d) <=> Occurs(pool', d) \/ d = c
          /\ Once(pool') /\ ~Occurs(pool', c)
      BY <1>0, <1>2, <2>1, TailFacts DEF Owned
    <2>3. /\ c \notin done /\ (\A t \in Senders : holds[t] # c)
          /\ \A s \in Sessions : ~Occurs(pending[s], c)
      BY <1>0, <2>2 DEF Owned
    <2> QED
      BY <1>0, <2>1, <2>2, <2>3
  <1> QED
    BY <1>1, <1>2

\* What the invariant says of the variables that tell where contexts are.
LEMMA PlaceTypes ==
    ASSUME IInv
    PROVE  /\ made \in Nat /\ made <= MaxContexts /\ pool \in Seq(1 .. made)
           /\ pending \in [Sessions -> Seq(1 .. made)] /\ holds \in [Senders -> 0 .. made]
           /\ done \subseteq 1 .. made /\ aborted \subseteq done /\ Owned /\ Found
           /\ \A t \in Senders : holds[t] # 0 => holds[t] \in 1 .. made
  BY BoundsType DEF IInv, TypeOK

\* A thread takes a context.
LEMMA TakeKeeps ==
    ASSUME IInv, NEW t \in Senders, NEW c \in Contexts, Allocate(c), holds[t] = 0,
           holds' = [holds EXCEPT ![t] = c], UNCHANGED <<pending, done>>
    PROVE  Owned' /\ Found'
  <1>1. Owned'
    BY AllocateFacts, PlaceTypes DEF Owned
  <1>2. Found'
    BY AllocateFacts, PlaceTypes DEF Found
  <1> QED
    BY <1>1, <1>2

\* The send queue of a connection is emptied into the completion port, or not.
Emptied(s) ==
    \/ UNCHANGED <<pending, done>>
    \/ /\ pending' = [pending EXCEPT ![s] = << >>]
       /\ done' = done \cup Range(pending[s])

LEMMA EmptiedFacts ==
    ASSUME IInv, NEW s \in Sessions, Emptied(s)
    PROVE  /\ pending' \in [Sessions -> Seq(1 .. made)] /\ done' \subseteq 1 .. made
           /\ done \subseteq done'
           /\ \A r \in Sessions : Once(pending'[r])
           /\ \A r \in Sessions : \A c : Occurs(pending'[r], c) =>
                 Occurs(pending[r], c) /\ (c \in done' => c \in done)
           /\ \A r \in Sessions : \A c : Occurs(pending[r], c) =>
                 Occurs(pending'[r], c) \/ c \in done'
           /\ \A c \in done' \ done : \E r \in Sessions : Occurs(pending[r], c)
  <1>1. CASE UNCHANGED <<pending, done>>
    BY <1>1, PlaceTypes DEF Owned
  <1>2. CASE /\ pending' = [pending EXCEPT ![s] = << >>]
             /\ done' = done \cup Range(pending[s])
    <2>1. \A c : c \in Range(pending[s]) <=> Occurs(pending[s], c)
      BY RangeOccurs
    <2>2. \A c : Occurs(pending[s], c) => c \in 1 .. made
      BY PlaceTypes DEF Occurs
    <2>3. \A r \in Sessions : pending'[r] = IF r = s THEN << >> ELSE pending[r]
      BY <1>2, PlaceTypes
    <2>4. pending' \in [Sessions -> Seq(1 .. made)] /\ done' \subseteq 1 .. made
      BY <1>2, <2>1, <2>2, PlaceTypes, EmptyFacts
    <2>5. \A r \in Sessions : Once(pending'[r])
      BY <2>3, PlaceTypes, EmptyFacts DEF Owned
    <2>6. ASSUME NEW r \in Sessions, NEW c, Occurs(pending'[r], c)
          PROVE  Occurs(pending[r], c) /\ (c \in done' => c \in done)
      <3>1. r # s /\ Occurs(pending[r], c)
        BY <2>3, <2>6, EmptyFacts
      <3>2. c \in 1 .. made
        BY <3>1, PlaceTypes DEF Occurs
      <3>3. ~Occurs(pending[s], c)
        BY <3>1, <3>2, PlaceTypes DEF Owned
      <3> QED
        BY <1>2, <2>1, <3>1, <3>3
    <2> QED
      BY <1>2, <2>1, <2>3, <2>4, <2>5, <2>6
  <1> QED
    BY <1>1, <1>2 DEF Emptied

\* Nothing moves but the queue of a connection.
LEMMA EmptyKeeps ==
    ASSUME IInv, NEW s \in Sessions, Emptied(s), UNCHANGED <<pool, made, holds>>
    PROVE  Owned' /\ Found'
  <1>1. Owned'
    BY EmptiedFacts, PlaceTypes DEF Owned
  <1>2. Found'
    BY EmptiedFacts, PlaceTypes DEF Found
  <1> QED
    BY <1>1, <1>2

\* A thread gives its context back.
LEMMA GiveBackKeeps ==
    ASSUME IInv, NEW t \in Senders, holds[t] # 0, NEW s \in Sessions, Emptied(s),
           Deallocate(holds[t]), holds' = [holds EXCEPT ![t] = 0]
    PROVE  Owned' /\ Found' /\ pool' \in Seq(1 .. made)
  <1> DEFINE c == holds[t]
  <1>1. /\ c \in 1 .. made /\ pool' = Append(pool, c) /\ made' = made /\ ~Occurs(pool, c)
        /\ c \notin done /\ \A r \in Sessions : ~Occurs(pending[r], c)
    BY PlaceTypes DEF Owned, Deallocate
  <1>2. /\ pool' \in Seq(1 .. made) /\ Once(pool')
        /\ \A d : Occurs(pool', d) <=> Occurs(pool, d) \/ d = c
    BY <1>1, PlaceTypes, AppendFacts DEF Owned
  <1>3. \A u \in Senders : holds'[u] = IF u = t THEN 0 ELSE holds[u]
    BY PlaceTypes
  <1>4. \A u \in Senders : u # t => holds[u] # c
    BY PlaceTypes DEF Owned
  <1>5. c \notin done' /\ \A r \in Sessions : ~Occurs(pending'[r], c)
    BY <1>1, EmptiedFacts
  <1> HIDE DEF c
  <1>6. Owned'
    <2>1. \A u, v \in Senders : holds'[u] # 0 /\ holds'[u] = holds'[v] => u = v
      BY <1>3, PlaceTypes DEF Owned
    <2>2. \A r, q \in Sessions, d \in 1 .. made :
              Occurs(pending'[r], d) /\ Occurs(pending'[q], d) => r = q
      BY <1>1, <1>2, <1>3, <1>4, <1>5, EmptiedFacts, PlaceTypes DEF Owned
    <2>3. \A d \in 1 .. made : Occurs(pool', d) =>
              /\ d \notin done' /\ \A u \in Senders : holds'[u] # d
              /\ \A r \in Sessions : ~Occurs(pending'[r], d)
      <3> SUFFICES ASSUME NEW d \in 1 .. made, Occurs(pool', d)
                   PROVE  /\ d \notin done' /\ \A u \in Senders : holds'[u] # d
                          /\ \A r \in Sessions : ~Occurs(pending'[r], d)
        OBVIOUS
      <3>1. CASE d = c
        BY <1>1, <1>3, <1>4, <1>5, <3>1
      <3>2. CASE d # c
        <4>1. Occurs(pool, d)
          BY <1>2, <3>2
        <4>2. /\ d \notin done /\ (\A u \in Senders : holds[u] # d)
              /\ \A r \in Sessions : ~Occurs(pending[r], d)
          BY <4>1, PlaceTypes DEF Owned
        <4>3. \A u \in Senders : holds'[u] # d
          BY <1>3, <4>2
        <4> QED
          BY <4>2, <4>3, EmptiedFacts
      <3> QED
        BY <3>1, <3>2
    <2>4. \A u \in Senders : holds'[u] # 0 =>
              holds'[u] \notin done' /\ \A r \in Sessions : ~Occurs(pending'[r], holds'[u])
      BY <1>1, <1>2, <1>3, <1>4, <1>5, EmptiedFacts, PlaceTypes DEF Owned
    <2>5. \A r \in Sessions, d \in 1 .. made : Occurs(pending'[r], d) => d \notin done'
      BY <1>1, <1>2, <1>3, <1>4, <1>5, EmptiedFacts, PlaceTypes DEF Owned
    <2> QED
      BY <1>1, <1>2, <2>1, <2>2, <2>3, <2>4, <2>5, EmptiedFacts DEF Owned
  <1>7. Found'
    BY <1>1, <1>2, <1>3, EmptiedFacts, PlaceTypes DEF Found, c
  <1> QED
    BY <1>2, <1>6, <1>7

\* A completion gives its context back.
LEMMA CompletionKeeps ==
    ASSUME IInv, NEW c \in done, NEW s \in Sessions, Deallocate(c), UNCHANGED holds,
           \/ pending' = pending /\ done' = done \ {c}
           \/ /\ pending' = [pending EXCEPT ![s] = << >>]
              /\ done' = (done \ {c}) \cup Range(pending[s])
    PROVE  /\ Owned' /\ Found' /\ pool' \in Seq(1 .. made)
           /\ pending' \in [Sessions -> Seq(1 .. made)] /\ done' \subseteq 1 .. made
  <1>1. /\ c \in 1 .. made /\ pool' = Append(pool, c) /\ made' = made /\ ~Occurs(pool, c)
        /\ (\A t \in Senders : holds[t] # c) /\ \A r \in Sessions : ~Occurs(pending[r], c)
    BY PlaceTypes DEF Owned, Deallocate
  <1>2. /\ pool' \in Seq(1 .. made) /\ Once(pool')
        /\ \A d : Occurs(pool', d) <=> Occurs(pool, d) \/ d = c
    BY <1>1, PlaceTypes, AppendFacts DEF Owned
  <1>3. \A d : d \in Range(pending[s]) <=> Occurs(pending[s], d)
    BY RangeOccurs
  <1>4. \A r \in Sessions : \A d : Occurs(pending[r], d) => d \in 1 .. made
    BY PlaceTypes DEF Occurs
  <1>5. \A r \in Sessions : pending'[r] = pending[r] \/ (r = s /\ pending'[r] = << >>)
    BY PlaceTypes
  <1>6. pending' \in [Sessions -> Seq(1 .. made)]
    BY PlaceTypes, EmptyFacts
  <1>7. done' \subseteq 1 .. made /\ c \notin done'
    BY <1>1, <1>3, <1>4, PlaceTypes
  <1>8. \A r \in Sessions : \A d : Occurs(pending'[r], d) =>
            Occurs(pending[r], d) /\ d \notin done'
    <2> SUFFICES ASSUME NEW r \in Sessions, NEW d, Occurs(pending'[r], d)
                 PROVE  Occurs(pending[r], d) /\ d \notin done'
      OBVIOUS
    <2>1. Occurs(pending[r], d) /\ d \in 1 .. made
      BY <1>4, <1>5, EmptyFacts
    <2>2. d \notin done /\ (Occurs(pending[s], d) => r = s)
      BY <2>1, PlaceTypes DEF Owned
    <2>3. CASE pending' = pending /\ done' = done \ {c}
      BY <2>1, <2>2, <2>3
    <2>4. CASE /\ pending' = [pending EXCEPT ![s] = << >>]
               /\ done' = (done \ {c}) \cup Range(pending[s])
      <3>1. pending'[s] = << >>
        BY <2>4, PlaceTypes
      <3>2. r # s
        BY <3>1, EmptyFacts
      <3> QED
        BY <1>3, <2>1, <2>2, <2>4, <3>2
    <2> QED
      BY <2>3, <2>4
  <1>9. \A d \in done' : d \in done \/ Occurs(pending[s], d)
    BY <1>3
  <1>10. \A r \in Sessions : Once(pending'[r])
    BY <1>5, PlaceTypes, EmptyFacts DEF Owned
  <1>11. Owned'
    <2>1. \A u, v \in Senders : holds'[u] # 0 /\ holds'[u] = holds'[v] => u = v
      BY PlaceTypes DEF Owned
    <2>2. \A r, q \in Sessions, d \in 1 .. made :
              Occurs(pending'[r], d) /\ Occurs(pending'[q], d) => r = q
      BY <1>1, <1>2, <1>4, <1>8, <1>9, PlaceTypes DEF Owned
    <2>3. \A d \in 1 .. made : Occurs(pool', d) =>
              /\ d \notin done' /\ \A u \in Senders : holds'[u] # d
              /\ \A r \in Sessions : ~Occurs(pending'[r], d)
      <3> SUFFICES ASSUME NEW d \in 1 .. made, Occurs(pool', d)
                   PROVE  /\ d \notin done' /\ \A u \in Senders : holds'[u] # d
                          /\ \A r \in Sessions : ~Occurs(pending'[r], d)
        OBVIOUS
      <3>1. CASE d = c
        BY <1>1, <1>7, <1>8, <3>1
      <3>2. CASE d # c
        <4>1. Occurs(pool, d)
          BY <1>2, <3>2
        <4>2. /\ d \notin done /\ (\A u \in Senders : holds[u] # d)
              /\ \A r \in Sessions : ~Occurs(pending[r], d)
          BY <4>1, PlaceTypes DEF Owned
        <4> QED
          BY <1>8, <1>9, <4>2
      <3> QED
        BY <3>1, <3>2
    <2>4. \A u \in Senders : holds'[u] # 0 =>
              holds'[u] \notin done' /\ \A r \in Sessions : ~Occurs(pending'[r], holds'[u])
      BY <1>1, <1>2, <1>4, <1>8, <1>9, PlaceTypes DEF Owned
    <2>5. \A r \in Sessions, d \in 1 .. made : Occurs(pending'[r], d) => d \notin done'
      BY <1>1, <1>2, <1>4, <1>8, <1>9, PlaceTypes DEF Owned
    <2> QED
      BY <1>1, <1>2, <1>10, <2>1, <2>2, <2>3, <2>4, <2>5 DEF Owned
  <1>12. \A r \in Sessions : \A d : Occurs(pending[r], d) => Occurs(pending'[r], d) \/ d \in done'
    BY <1>3, PlaceTypes
  <1>13. \A d \in done : d = c \/ d \in done'
    OBVIOUS
  <1>14. Found'
    BY <1>1, <1>2, <1>12, <1>13, PlaceTypes DEF Found
  <1> QED
    BY <1>2, <1>6, <1>7, <1>11, <1>14

\* WSASend takes a context over from a thread.
LEMMA PostKeeps ==
    ASSUME IInv, NEW t \in Senders, holds[t] # 0, NEW s \in Sessions,
           pending' = [pending EXCEPT ![s] = Append(@, holds[t])],
           holds' = [holds EXCEPT ![t] = 0], UNCHANGED <<pool, made, done>>
    PROVE  Owned' /\ Found' /\ pending' \in [Sessions -> Seq(1 .. made)]
  <1> DEFINE c == holds[t]
  <1>1. /\ c \in 1 .. made /\ ~Occurs(pool, c) /\ c \notin done
        /\ (\A r \in Sessions : ~Occurs(pending[r], c))
        /\ \A u \in Senders : u # t => holds[u] # c
    BY PlaceTypes DEF Owned
  <1>2. /\ Append(pending[s], c) \in Seq(1 .. made) /\ Once(Append(pending[s], c))
        /\ \A d : Occurs(Append(pending[s], c), d) <=> Occurs(pending[s], d) \/ d = c
    BY <1>1, PlaceTypes, AppendFacts DEF Owned
  <1>3. \A u \in Senders : holds'[u] = IF u = t THEN 0 ELSE holds[u]
    BY PlaceTypes
  <1>4. \A r \in Sessions : pending'[r] = IF r = s THEN Append(pending[s], c) ELSE pending[r]
    BY PlaceTypes
  <1>5. \A r \in Sessions : \A d :
            Occurs(pending'[r], d) <=> Occurs(pending[r], d) \/ (r = s /\ d = c)
    BY <1>2, <1>4
  <1>6. pending' \in [Sessions -> Seq(1 .. made)] /\ \A r \in Sessions : Once(pending'[r])
    BY <1>2, <1>4, PlaceTypes DEF Owned
  <1> HIDE DEF c
  <1>7. Owned'
    BY <1>1, <1>3, <1>5, <1>6, PlaceTypes DEF Owned
  <1>8. Found'
    BY <1>3, <1>5, PlaceTypes DEF Found, c
  <1> QED
    BY <1>6, <1>7, <1>8

\* The oldest send of a connection completes.
LEMMA TransmitKeeps ==
    ASSUME IInv, NEW s \in Sessions, pending[s] # << >>,
           pending' = [pending EXCEPT ![s] = Tail(@)],
           done' = done \cup {Head(pending[s])}, UNCHANGED <<pool, made, holds>>
    PROVE  /\ Owned' /\ Found' /\ pending' \in [Sessions -> Seq(1 .. made)]
           /\ done' \subseteq 1 .. made
  <1> DEFINE c == Head(pending[s])
  <1>1. /\ c \in 1 .. made /\ Tail(pending[s]) \in Seq(1 .. made)
        /\ \A d : Occurs(pending[s], d) <=> Occurs(Tail(pending[s]), d) \/ d = c
        /\ Once(Tail(pending[s])) /\ ~Occurs(Tail(pending[s]), c)
    BY PlaceTypes, TailFacts DEF Owned
  <1>2. \A r \in Sessions : pending'[r] = IF r = s THEN Tail(pending[s]) ELSE pending[r]
    BY PlaceTypes
  <1>3. pending' \in [Sessions -> Seq(1 .. made)] /\ \A r \in Sessions : Once(pending'[r])
    BY <1>1, <1>2, PlaceTypes DEF Owned
  <1>4. Occurs(pending[s], c) /\ done' = done \cup {c}
    BY <1>1
  <1>5. \A r \in Sessions : \A d : Occurs(pending'[r], d) => Occurs(pending[r], d)
    BY <1>1, <1>2
  <1>6. \A r \in Sessions : ~Occurs(pending'[r], c)
    BY <1>1, <1>2, <1>4, PlaceTypes DEF Owned
  <1>7. \A r \in Sessions : \A d : Occurs(pending[r], d) => Occurs(pending'[r], d) \/ d = c
    BY <1>1, <1>2, <1>4, PlaceTypes DEF Owned
  <1> HIDE DEF c
  <1>8. Owned'
    BY <1>1, <1>3, <1>4, <1>5, <1>6, PlaceTypes DEF Owned
  <1>9. Found'
    BY <1>4, <1>7, PlaceTypes DEF Found
  <1> QED
    BY <1>1, <1>3, <1>4, <1>8, <1>9, PlaceTypes

----------------------------------------------------------------------------
(* One lemma per action.                                                    *)

LEMMA LetterType ==
    ASSUME IInv, NEW c \in 1 .. made
    PROVE  Letter(c) \in Letters /\ Letter(c).to = ctxFor[c]
  <1> USE BoundsType
  <1>1. /\ c \in Contexts /\ ctxFor[c] \in Sessions /\ own[c] \in Packets
        /\ points[c] \in 0 .. sends /\ sends \in 0 .. MaxSends /\ shared \in [Buffers -> Packets]
    BY DEF IInv, TypeOK, Contexts
  <1>2. points[c] = 0 \/ points[c] \in Buffers
    BY <1>1 DEF Buffers
  <1>3. Garbage \in Packets
    BY DEF Packets
  <1>4. Content(c) \in Packets
    BY <1>1, <1>2, <1>3 DEF Content
  <1> QED
    BY <1>1, <1>4 DEF Letter, Letters

LEMMA DisconnectFacts ==
    ASSUME IInv, NEW s \in opened, Disconnect(s)
    PROVE  /\ Emptied(s) /\ aborted' \subseteq done'
           /\ disconnected \subseteq disconnected' /\ disconnected' \subseteq opened
           /\ s \in disconnected'
           /\ sock' \in [Sessions -> 0 .. MaxHandles]
           /\ \A r \in Sessions : sock'[r] = sock[r] \/ (r \in disconnected' /\ sock'[r] = 0)
  <1> USE BoundsType
  <1>1. sock \in [Sessions -> 0 .. MaxHandles] /\ disconnected \subseteq opened /\ aborted \subseteq done
    BY DEF IInv, TypeOK
  <1>2. CASE s \in disconnected
    BY <1>1, <1>2 DEF Disconnect, Emptied
  <1>3. CASE s \notin disconnected
    <2>1. \A r \in Sessions : sock'[r] = IF r = s THEN 0 ELSE sock[r]
      BY <1>1, <1>3 DEF Disconnect
    <2>2. sock' \in [Sessions -> 0 .. MaxHandles]
      BY <1>1, <1>3 DEF Disconnect
    <2> QED
      BY <1>1, <1>3, <2>1, <2>2 DEF Disconnect, Emptied
  <1> QED
    BY <1>2, <1>3

\* Sockets are only closed, those of sessions that have disconnected, and no
\* thread gets to WSASend.
LEMMA ClosingKeepsHandled ==
    ASSUME IInv, Busy', opened' = opened, ctxFor' = ctxFor, disconnected \subseteq disconnected',
           sock' \in [Sessions -> 0 .. MaxHandles],
           \A r \in Sessions : sock'[r] = sock[r] \/ (r \in disconnected' /\ sock'[r] = 0),
           \A t \in Senders : at'[t] = "calling" =>
               at[t] = "calling" /\ holds'[t] = holds[t] /\ handle'[t] = handle[t]
    PROVE  Handled'
  <1>1. /\ \A s, r \in Sessions : sock'[s] # 0 /\ sock'[s] = sock'[r] => s = r
        /\ \A s \in Sessions \ opened' : sock'[s] = 0
    BY DEF IInv, Handled
  <1>2. ASSUME NEW t \in Senders, at'[t] = "calling"
        PROVE  \/ ctxFor'[holds'[t]] \in disconnected'
               \/ handle'[t] = sock'[ctxFor'[holds'[t]]]
    <2>1. holds[t] \in 1 .. made /\ ctxFor[holds[t]] \in Sessions
      <3>1. holds[t] # 0
        BY <1>2 DEF IInv, Busy
      <3>2. holds[t] \in 1 .. made /\ holds[t] \in Contexts
        BY <3>1, PlaceTypes, BoundsType DEF Contexts
      <3> QED
        BY <3>2 DEF IInv, TypeOK
    <2> QED
      BY <1>2, <2>1 DEF IInv, Handled
  <1> QED
    BY <1>1, <1>2 DEF Handled

LEMMA OpenKeeps ==
    ASSUME IInv, NEW s \in Sessions, Open(s) PROVE IInv'
  <1> USE BoundsType
  <1>0. UNCHANGED <<ctxVars, shared, threadVars, disconnected, kernelVars, sends>>
    BY DEF Open
  <1>1. PICK h \in Handles \ Range(sock) : sock' = [sock EXCEPT ![s] = h]
    BY DEF Open
  <1>2. s \notin opened /\ opened' = opened \cup {s}
    BY DEF Open
  <1>3. /\ sock \in [Sessions -> 0 .. MaxHandles] /\ h \in 1 .. MaxHandles
        /\ \A r \in Sessions : sock[r] # h
    BY <1>1 DEF IInv, TypeOK, Handles, Range
  <1>4. /\ sock' \in [Sessions -> 0 .. MaxHandles]
        /\ \A r \in Sessions : sock'[r] = IF r = s THEN h ELSE sock[r]
    BY <1>1, <1>3
  <1>5. TypeOK'
    BY <1>0, <1>2, <1>4 DEF IInv, TypeOK, ctxVars, threadVars, kernelVars, Contexts
  <1>6. Owned' /\ Found'
    BY <1>0 DEF IInv, Owned, Found, ctxVars, threadVars, kernelVars
  <1>7. Busy'
    BY <1>0, <1>2 DEF IInv, Busy, ctxVars, threadVars
  <1>8. \A t \in Senders : at[t] = "calling" => ctxFor[holds[t]] \in opened
    BY PlaceTypes DEF IInv, Busy
  <1>9. Handled'
    <2>1. opened \subseteq Sessions
      BY DEF IInv, TypeOK
    <2>2. \A r, q \in Sessions : sock'[r] # 0 /\ sock'[r] = sock'[q] => r = q
      BY <1>3, <1>4 DEF IInv, Handled
    <2>3. \A r \in Sessions \ opened' : sock'[r] = 0
      BY <1>2, <1>4 DEF IInv, Handled
    <2>4. ASSUME NEW t \in Senders, at[t] = "calling"
          PROVE  ctxFor[holds[t]] \in disconnected \/ handle[t] = sock'[ctxFor[holds[t]]]
      BY <1>2, <1>4, <1>8, <2>1, <2>4 DEF IInv, Handled
    <2> QED
      BY <1>0, <2>2, <2>3, <2>4 DEF Handled, ctxVars, threadVars
  <1>10. StrayOnlyAfterClose'
    BY <1>0 DEF IInv, StrayOnlyAfterClose, kernelVars
  <1> QED
    BY <1>5, <1>6, <1>7, <1>9, <1>10 DEF IInv

LEMMA LoseKeeps ==
    ASSUME IInv, NEW s \in Sessions, Lose(s) PROVE IInv'
  <1>0. s \in opened /\ Disconnect(s)
    BY DEF Lose
  <1>1. UNCHANGED <<ctxVars, shared, threadVars, opened, broken, posted, got, sends>>
    BY DEF Lose
  <1>2. TypeOK'
    BY <1>0, <1>1, DisconnectFacts, EmptiedFacts
    DEF IInv, TypeOK, ctxVars, threadVars, Contexts
  <1>3. Owned' /\ Found'
    BY <1>0, <1>1, DisconnectFacts, EmptyKeeps DEF ctxVars, threadVars
  <1>4. Busy'
    BY <1>1 DEF IInv, Busy, ctxVars, threadVars
  <1>5. Handled'
    BY <1>0, <1>1, <1>4, DisconnectFacts, ClosingKeepsHandled DEF ctxVars, threadVars
  <1>6. StrayOnlyAfterClose'
    BY <1>0, <1>1, DisconnectFacts DEF IInv, StrayOnlyAfterClose
  <1> QED
    BY <1>2, <1>3, <1>4, <1>5, <1>6 DEF IInv

\* What Fill and SendShared have in common.
LEMMA TakesContext ==
    ASSUME IInv, NEW t \in Senders, NEW c \in Contexts, NEW s \in opened, Allocate(c),
           at[t] \in {"idle", "casting"}, ctxFor' = [ctxFor EXCEPT ![c] = s],
           holds' = [holds EXCEPT ![t] = c], at' = [at EXCEPT ![t] = "posting"],
           \A u \in Senders : rest'[u] \subseteq opened,
           UNCHANGED <<handle, sockVars, kernelVars>>
    PROVE  /\ Owned' /\ Found' /\ Busy' /\ Handled' /\ StrayOnlyAfterClose'
           /\ ctxFor' \in [Contexts -> Sessions] /\ holds' \in [Senders -> 0 .. made']
           /\ at' \in [Senders -> {"idle", "casting", "posting", "calling"}]
  <1> USE BoundsType
  <1>1. /\ holds[t] = 0 /\ s \in Sessions /\ ctxFor \in [Contexts -> Sessions]
        /\ at \in [Senders -> {"idle", "casting", "posting", "calling"}]
    BY DEF IInv, Busy, TypeOK
  <1>2. Owned' /\ Found'
    BY <1>1, TakeKeeps DEF kernelVars
  <1>3. ctxFor' \in [Contexts -> Sessions] /\ holds' \in [Senders -> 0 .. made']
    BY <1>1, AllocateFacts, PlaceTypes
  <1>4. /\ \A u \in Senders : holds'[u] = IF u = t THEN c ELSE holds[u]
        /\ \A u \in Senders : at'[u] = IF u = t THEN "posting" ELSE at[u]
        /\ \A d \in Contexts : ctxFor'[d] = IF d = c THEN s ELSE ctxFor[d]
    BY <1>1, PlaceTypes
  <1>5. 1 .. made' \subseteq Contexts /\ 1 .. made \subseteq Contexts
    BY AllocateFacts, PlaceTypes DEF Contexts
  <1>6. Busy'
    <2>1. \A u \in Senders : holds'[u] # 0 <=> at'[u] \in {"posting", "calling"}
      BY <1>4, AllocateFacts DEF IInv, Busy
    <2>2. \A d \in 1 .. made' : ctxFor'[d] \in opened'
      BY <1>4, <1>5, AllocateFacts DEF IInv, Busy, sockVars
    <2> QED
      BY <2>1, <2>2 DEF Busy, sockVars
  <1>7. \A u \in Senders : at'[u] = "calling" =>
            at[u] = "calling" /\ holds'[u] = holds[u] /\ ctxFor'[holds'[u]] = ctxFor[holds[u]]
    <2> SUFFICES ASSUME NEW u \in Senders, at'[u] = "calling"
                 PROVE  /\ at[u] = "calling" /\ holds'[u] = holds[u]
                        /\ ctxFor'[holds'[u]] = ctxFor[holds[u]]
      OBVIOUS
    <2>1. u # t /\ at[u] = "calling" /\ holds'[u] = holds[u]
      BY <1>4
    <2>2. holds[u] \in 1 .. made /\ holds[u] # c
      BY <2>1, AllocateFacts, PlaceTypes DEF IInv, Busy
    <2> QED
      BY <1>4, <1>5, <2>1, <2>2
  <1>8. Handled'
    BY <1>7 DEF IInv, Handled, sockVars
  <1>9. StrayOnlyAfterClose'
    BY DEF IInv, StrayOnlyAfterClose, sockVars, kernelVars
  <1> QED
    BY <1>1, <1>2, <1>3, <1>6, <1>8, <1>9

LEMMA FillKeeps ==
    ASSUME IInv, NEW t \in Senders, NEW s \in Sessions, NEW packet \in Packets,
           Fill(t, s, packet)
    PROVE  IInv'
  <1> USE BoundsType
  <1>0. UNCHANGED <<shared, handle, rest, buf, sockVars, kernelVars>>
    BY DEF Fill
  <1>1. PICK c \in Contexts :
          /\ Allocate(c)
          /\ ctxFor' = [ctxFor EXCEPT ![c] = s]
          /\ own' = [own EXCEPT ![c] = packet]
          /\ points' = [points EXCEPT ![c] = 0] /\ keeps' = [keeps EXCEPT ![c] = 0]
          /\ holds' = [holds EXCEPT ![t] = c]
    BY DEF Fill
  <1>2. /\ at[t] = "idle" /\ at' = [at EXCEPT ![t] = "posting"] /\ s \in opened
        /\ sends < MaxSends /\ sends' = sends + 1
    BY DEF Fill
  <1>3. \A u \in Senders : rest'[u] \subseteq opened
    BY <1>0 DEF IInv, Busy
  <1>4. /\ Owned' /\ Found' /\ Busy' /\ Handled' /\ StrayOnlyAfterClose'
        /\ ctxFor' \in [Contexts -> Sessions] /\ holds' \in [Senders -> 0 .. made']
        /\ at' \in [Senders -> {"idle", "casting", "posting", "calling"}]
    BY <1>0, <1>1, <1>2, <1>3, TakesContext
  <1>5. /\ made' \in 0 .. MaxContexts /\ pool' \in Seq(1 .. made')
        /\ pending \in [Sessions -> Seq(1 .. made')] /\ 1 .. made \subseteq 1 .. made'
    BY <1>1, AllocateFacts
  <1>6. sends' \in 0 .. MaxSends /\ 0 .. sends \subseteq 0 .. sends'
    BY <1>2 DEF IInv, TypeOK
  <1>7. own' \in [Contexts -> Packets] /\ points' \in [Contexts -> 0 .. sends'] /\ keeps' = points'
    <2>1. /\ own \in [Contexts -> Packets] /\ points \in [Contexts -> 0 .. sends]
          /\ keeps = points /\ sends' \in Nat
      BY <1>6 DEF IInv, TypeOK
    <2>2. points \in [Contexts -> 0 .. sends'] /\ 0 \in 0 .. sends'
      BY <1>6, <2>1
    <2> QED
      BY <1>1, <2>1, <2>2
  <1>8. buf' \in [Senders -> 0 .. sends']
    BY <1>0, <1>6 DEF IInv, TypeOK
  <1>9. TypeOK'
    BY <1>0, <1>4, <1>5, <1>6, <1>7, <1>8 DEF IInv, TypeOK, sockVars, kernelVars
  <1> QED
    BY <1>4, <1>9 DEF IInv

LEMMA SendSharedKeeps ==
    ASSUME IInv, NEW t \in Senders, NEW s \in Sessions, SendShared(t, s)
    PROVE  IInv'
  <1> USE BoundsType
  <1>0. UNCHANGED <<own, shared, handle, buf, sockVars, kernelVars, sends>>
    BY DEF SendShared
  <1>1. PICK c \in Contexts :
          /\ Allocate(c)
          /\ ctxFor' = [ctxFor EXCEPT ![c] = s]
          /\ points' = [points EXCEPT ![c] = buf[t]]
          /\ keeps' = [keeps EXCEPT ![c] = buf[t]]
          /\ holds' = [holds EXCEPT ![t] = c]
    BY DEF SendShared
  <1>2. /\ at[t] = "casting" /\ at' = [at EXCEPT ![t] = "posting"] /\ s \in rest[t]
        /\ rest' = [rest EXCEPT ![t] = @ \ {s}]
    BY DEF SendShared
  <1>3. /\ s \in opened /\ (\A u \in Senders : rest'[u] \subseteq opened)
        /\ rest' \in [Senders -> SUBSET Sessions]
    BY <1>2 DEF IInv, Busy, TypeOK
  <1>4. /\ Owned' /\ Found' /\ Busy' /\ Handled' /\ StrayOnlyAfterClose'
        /\ ctxFor' \in [Contexts -> Sessions] /\ holds' \in [Senders -> 0 .. made']
        /\ at' \in [Senders -> {"idle", "casting", "posting", "calling"}]
    BY <1>0, <1>1, <1>2, <1>3, TakesContext
  <1>5. /\ made' \in 0 .. MaxContexts /\ pool' \in Seq(1 .. made')
        /\ pending \in [Sessions -> Seq(1 .. made')] /\ 1 .. made \subseteq 1 .. made'
    BY <1>1, AllocateFacts
  <1>6. points' \in [Contexts -> 0 .. sends] /\ keeps' = points'
    BY <1>1 DEF IInv, TypeOK
  <1>7. TypeOK'
    BY <1>0, <1>3, <1>4, <1>5, <1>6 DEF IInv, TypeOK, sockVars, kernelVars
  <1> QED
    BY <1>4, <1>7 DEF IInv

\* The steps of a broadcast that move no context.
LEMMA BroadcastKeeps ==
    ASSUME IInv, NEW t \in Senders,
           \/ \E m \in Casts : BroadcastShared(t, m)
           \/ \E s \in Sessions : SkipMember(t, s)
           \/ EndBroadcast(t)
    PROVE  IInv'
  <1> USE BoundsType
  <1>0. UNCHANGED <<ctxVars, holds, handle, sockVars, kernelVars>>
    BY DEF BroadcastShared, SkipMember, EndBroadcast
  <1>1. Owned' /\ Found'
    BY <1>0 DEF IInv, Owned, Found, ctxVars, kernelVars
  <1>2. \A u \in Senders : at'[u] = at[u] \/ (at[u] \in {"idle", "casting"} /\ at'[u] \in {"idle", "casting"})
    BY DEF BroadcastShared, SkipMember, EndBroadcast, IInv, TypeOK
  <1>3. /\ \A u \in Senders : rest'[u] \subseteq opened
        /\ at' \in [Senders -> {"idle", "casting", "posting", "calling"}]
        /\ rest' \in [Senders -> SUBSET Sessions]
    <2>0. /\ at \in [Senders -> {"idle", "casting", "posting", "calling"}]
          /\ rest \in [Senders -> SUBSET Sessions] /\ opened \subseteq Sessions
          /\ \A u \in Senders : rest[u] \subseteq opened
      BY DEF IInv, TypeOK, Busy
    <2>1. ASSUME NEW m \in Casts, BroadcastShared(t, m) PROVE <1>3!:
      BY <2>0, <2>1 DEF BroadcastShared
    <2>2. ASSUME NEW s \in Sessions, SkipMember(t, s) PROVE <1>3!:
      BY <2>0, <2>2 DEF SkipMember
    <2>3. ASSUME EndBroadcast(t) PROVE <1>3!:
      BY <2>0, <2>3 DEF EndBroadcast
    <2> QED
      BY <2>1, <2>2, <2>3
  <1>4. Busy'
    BY <1>0, <1>2, <1>3 DEF IInv, Busy, ctxVars, sockVars
  <1>5. Handled'
    BY <1>0, <1>2 DEF IInv, Handled, ctxVars, sockVars
  <1>6. StrayOnlyAfterClose'
    BY <1>0 DEF IInv, StrayOnlyAfterClose, sockVars, kernelVars
  <1>7. /\ sends' \in 0 .. MaxSends /\ 0 .. sends \subseteq 0 .. sends'
        /\ shared' \in [Buffers -> Packets] /\ buf' \in [Senders -> 0 .. sends']
    <2>0. /\ sends \in 0 .. MaxSends /\ shared \in [Buffers -> Packets]
          /\ buf \in [Senders -> 0 .. sends]
      BY DEF IInv, TypeOK
    <2>1. ASSUME NEW m \in Casts, BroadcastShared(t, m)
          PROVE  <1>7!:
      <3>1. MessagePacket(m) \in Packets
        BY DEF Packets
      <3>2. sends < MaxSends /\ sends' = sends + 1
        BY <2>1 DEF BroadcastShared
      <3>3. /\ shared' = [shared EXCEPT ![sends'] = MessagePacket(m)]
            /\ buf' = [buf EXCEPT ![t] = sends']
        BY <2>1 DEF BroadcastShared
      <3> QED
        BY <2>0, <3>1, <3>2, <3>3 DEF Buffers
    <2>2. ASSUME NEW s \in Sessions, SkipMember(t, s)
          PROVE  <1>7!:
      BY <2>0, <2>2 DEF SkipMember
    <2>3. ASSUME EndBroadcast(t)
          PROVE  <1>7!:
      BY <2>0, <2>3 DEF EndBroadcast
    <2> QED
      BY <2>1, <2>2, <2>3
  <1>8. TypeOK'
    BY <1>0, <1>3, <1>7 DEF IInv, TypeOK, ctxVars, sockVars, kernelVars, Contexts
  <1> QED
    BY <1>1, <1>4, <1>5, <1>6, <1>8 DEF IInv

\* PostSend returns: what it does to the thread.
LEMMA ReturnFacts ==
    ASSUME IInv, NEW t \in Senders, Returns(t), UNCHANGED <<made, ctxFor, opened, rest>>
    PROVE  /\ Busy' /\ holds' \in [Senders -> 0 .. made] /\ handle' \in [Senders -> 0 .. MaxHandles]
           /\ at' \in [Senders -> {"idle", "casting", "posting", "calling"}]
           /\ \A u \in Senders : at'[u] = "calling" =>
                at[u] = "calling" /\ holds'[u] = holds[u] /\ handle'[u] = handle[u]
  <1> USE BoundsType
  <1>1. /\ at \in [Senders -> {"idle", "casting", "posting", "calling"}]
        /\ handle \in [Senders -> 0 .. MaxHandles]
    BY DEF IInv, TypeOK
  <1>2. /\ \A u \in Senders : holds'[u] = IF u = t THEN 0 ELSE holds[u]
        /\ \A u \in Senders : handle'[u] = IF u = t THEN 0 ELSE handle[u]
        /\ \A u \in Senders : u # t => at'[u] = at[u]
        /\ at'[t] \in {"idle", "casting"}
    BY <1>1, PlaceTypes DEF Returns
  <1>3. /\ holds' \in [Senders -> 0 .. made] /\ handle' \in [Senders -> 0 .. MaxHandles]
        /\ at' \in [Senders -> {"idle", "casting", "posting", "calling"}]
    BY <1>1, PlaceTypes DEF Returns
  <1>4. Busy'
    BY <1>2 DEF IInv, Busy
  <1> QED
    BY <1>2, <1>3, <1>4

LEMMA GivesUpKeeps ==
    ASSUME IInv, NEW t \in Senders, PostSendGivesUp(t) \/ SerializeFails(t) PROVE IInv'
  <1>0. /\ at[t] = "posting" /\ Deallocate(holds[t]) /\ Returns(t)
        /\ UNCHANGED <<shared, rest, buf, sockVars, kernelVars, sends>>
    BY DEF PostSendGivesUp, SerializeFails
  <1>1. UNCHANGED <<made, ctxFor, own, points, keeps>>
    BY <1>0 DEF Deallocate
  <1>2. holds[t] # 0 /\ holds' = [holds EXCEPT ![t] = 0]
    BY <1>0 DEF IInv, Busy, Returns
  <1>3. PICK s \in Sessions : TRUE
    BY SessionsExist
  <1>4. Owned' /\ Found' /\ pool' \in Seq(1 .. made)
    BY <1>0, <1>2, <1>3, GiveBackKeeps DEF Emptied, kernelVars
  <1>5. /\ Busy' /\ holds' \in [Senders -> 0 .. made] /\ handle' \in [Senders -> 0 .. MaxHandles]
        /\ at' \in [Senders -> {"idle", "casting", "posting", "calling"}]
        /\ \A u \in Senders : at'[u] = "calling" =>
             at[u] = "calling" /\ holds'[u] = holds[u] /\ handle'[u] = handle[u]
    BY <1>0, <1>1, ReturnFacts DEF sockVars
  <1>6. Handled'
    BY <1>0, <1>1, <1>5 DEF IInv, Handled, sockVars
  <1>7. StrayOnlyAfterClose'
    BY <1>0 DEF IInv, StrayOnlyAfterClose, sockVars, kernelVars
  <1>8. TypeOK'
    BY <1>0, <1>1, <1>4, <1>5 DEF IInv, TypeOK, sockVars, kernelVars
  <1> QED
    BY <1>4, <1>5, <1>6, <1>7, <1>8 DEF IInv

LEMMA PostSendReadsKeeps ==
    ASSUME IInv, NEW t \in Senders, PostSendReads(t) PROVE IInv'
  <1> USE BoundsType
  <1>0. /\ at[t] = "posting" /\ handle' = [handle EXCEPT ![t] = sock[ctxFor[holds[t]]]]
        /\ at' = [at EXCEPT ![t] = "calling"]
        /\ UNCHANGED <<ctxVars, shared, holds, rest, buf, sockVars, kernelVars, sends>>
    BY DEF PostSendReads
  <1>1. holds[t] # 0
    BY <1>0 DEF IInv, Busy
  <1>2. holds[t] \in 1 .. made /\ holds[t] \in Contexts
    BY <1>1, PlaceTypes DEF Contexts
  <1>3. /\ ctxFor[holds[t]] \in Sessions /\ sock[ctxFor[holds[t]]] \in 0 .. MaxHandles
        /\ at \in [Senders -> {"idle", "casting", "posting", "calling"}]
        /\ handle \in [Senders -> 0 .. MaxHandles]
    BY <1>2 DEF IInv, TypeOK
  <1>4. /\ \A u \in Senders : at'[u] = IF u = t THEN "calling" ELSE at[u]
        /\ \A u \in Senders : handle'[u] = IF u = t THEN sock[ctxFor[holds[t]]] ELSE handle[u]
        /\ at' \in [Senders -> {"idle", "casting", "posting", "calling"}]
        /\ handle' \in [Senders -> 0 .. MaxHandles]
    BY <1>0, <1>3
  <1>5. Owned' /\ Found'
    BY <1>0 DEF IInv, Owned, Found, ctxVars, kernelVars
  <1>6. Busy'
    BY <1>0, <1>1, <1>4 DEF IInv, Busy, ctxVars, sockVars
  <1>7. Handled'
    BY <1>0, <1>4 DEF IInv, Handled, ctxVars, sockVars
  <1>8. StrayOnlyAfterClose'
    BY <1>0 DEF IInv, StrayOnlyAfterClose, sockVars, kernelVars
  <1>9. TypeOK'
    BY <1>0, <1>4 DEF IInv, TypeOK, ctxVars, sockVars, kernelVars, Contexts
  <1> QED
    BY <1>5, <1>6, <1>7, <1>8, <1>9 DEF IInv

LEMMA WSASendAcceptsKeeps ==
    ASSUME IInv, NEW t \in Senders, WSASendAccepts(t) PROVE IInv'
  <1> USE BoundsType
  <1> DEFINE c == holds[t]
  <1>0. /\ at[t] = "calling" /\ Returns(t)
        /\ UNCHANGED <<ctxVars, shared, rest, buf, sockVars, broken, done, aborted, got, sends>>
    BY DEF WSASendAccepts
  <1>1. PICK s \in Sessions :
          /\ sock[s] = handle[t] /\ sock[s] # 0 /\ s \notin broken
          /\ pending' = [pending EXCEPT ![s] = Append(@, c)]
          /\ posted' = [posted EXCEPT ![s] = Append(@, Letter(c))]
    BY DEF WSASendAccepts
  <1>2. c # 0 /\ c \in 1 .. made /\ c \in Contexts /\ holds' = [holds EXCEPT ![t] = 0]
    BY <1>0, PlaceTypes DEF IInv, Busy, Returns, Contexts
  <1>3. Owned' /\ Found' /\ pending' \in [Sessions -> Seq(1 .. made)]
    BY <1>0, <1>1, <1>2, PostKeeps DEF ctxVars
  <1>4. /\ Busy' /\ holds' \in [Senders -> 0 .. made] /\ handle' \in [Senders -> 0 .. MaxHandles]
        /\ at' \in [Senders -> {"idle", "casting", "posting", "calling"}]
        /\ \A u \in Senders : at'[u] = "calling" =>
             at[u] = "calling" /\ holds'[u] = holds[u] /\ handle'[u] = handle[u]
    BY <1>0, ReturnFacts DEF ctxVars, sockVars
  <1>5. Handled'
    BY <1>0, <1>4 DEF IInv, Handled, ctxVars, sockVars
  <1>6. /\ Letter(c) \in Letters /\ Letter(c).to = ctxFor[c] /\ ctxFor[c] \in Sessions
        /\ posted \in [Sessions -> Seq(Letters)]
    BY <1>2, LetterType DEF IInv, TypeOK
  <1>7. posted' \in [Sessions -> Seq(Letters)]
    BY <1>1, <1>6
  <1>8. Letter(c).to \in {s} \cup disconnected
    BY <1>0, <1>1, <1>6 DEF IInv, Handled
  <1>9. StrayOnlyAfterClose'
    <2> SUFFICES ASSUME NEW r \in Sessions, NEW i \in DOMAIN posted'[r]
                 PROVE  posted'[r][i].to \in {r} \cup disconnected
      BY <1>0 DEF StrayOnlyAfterClose, sockVars
    <2>1. CASE r # s
      BY <1>1, <1>6, <2>1 DEF IInv, StrayOnlyAfterClose
    <2>2. CASE r = s
      <3>1. posted'[r] = Append(posted[s], Letter(c)) /\ posted[s] \in Seq(Letters)
        BY <1>1, <1>6, <2>2
      <3>2. /\ i \in 1 .. Len(posted[s]) + 1
            /\ i \in 1 .. Len(posted[s]) => posted'[r][i] = posted[s][i] /\ i \in DOMAIN posted[s]
            /\ i = Len(posted[s]) + 1 => posted'[r][i] = Letter(c)
        BY <1>6, <3>1
      <3>3. i \in DOMAIN posted[s] => posted[s][i].to \in {s} \cup disconnected
        BY DEF IInv, StrayOnlyAfterClose
      <3>4. i \in 1 .. Len(posted[s]) \/ i = Len(posted[s]) + 1
        BY <3>1, <3>2
      <3> QED
        BY <1>8, <2>2, <3>2, <3>3, <3>4
    <2> QED
      BY <2>1, <2>2
  <1>10. TypeOK'
    BY <1>0, <1>3, <1>4, <1>7 DEF IInv, TypeOK, ctxVars, sockVars, Contexts
  <1> QED
    BY <1>3, <1>4, <1>5, <1>9, <1>10 DEF IInv

LEMMA WSASendFailsKeeps ==
    ASSUME IInv, NEW t \in Senders, WSASendFails(t) PROVE IInv'
  <1> USE BoundsType
  <1> DEFINE s == ctxFor[holds[t]]
  <1>0. /\ at[t] = "calling" /\ Deallocate(holds[t]) /\ Disconnect(s) /\ Returns(t)
        /\ UNCHANGED <<shared, rest, buf, opened, broken, posted, got, sends>>
    BY DEF WSASendFails
  <1>1. UNCHANGED <<made, ctxFor, own, points, keeps>>
    BY <1>0 DEF Deallocate
  <1>2. /\ holds[t] # 0 /\ holds[t] \in 1 .. made /\ holds' = [holds EXCEPT ![t] = 0]
        /\ s \in opened /\ opened \subseteq Sessions
    BY <1>0, PlaceTypes DEF IInv, Busy, Returns, TypeOK
  <1> HIDE DEF s
  <1>3. /\ Emptied(s) /\ aborted' \subseteq done'
        /\ disconnected \subseteq disconnected' /\ disconnected' \subseteq opened
        /\ sock' \in [Sessions -> 0 .. MaxHandles]
        /\ \A r \in Sessions : sock'[r] = sock[r] \/ (r \in disconnected' /\ sock'[r] = 0)
    BY <1>0, <1>2, DisconnectFacts
  <1>4. Owned' /\ Found' /\ pool' \in Seq(1 .. made)
    BY <1>0, <1>2, <1>3, GiveBackKeeps
  <1>5. pending' \in [Sessions -> Seq(1 .. made)] /\ done' \subseteq 1 .. made
    BY <1>2, <1>3, EmptiedFacts
  <1>6. /\ Busy' /\ holds' \in [Senders -> 0 .. made] /\ handle' \in [Senders -> 0 .. MaxHandles]
        /\ at' \in [Senders -> {"idle", "casting", "posting", "calling"}]
        /\ \A u \in Senders : at'[u] = "calling" =>
             at[u] = "calling" /\ holds'[u] = holds[u] /\ handle'[u] = handle[u]
    BY <1>0, <1>1, ReturnFacts
  <1>7. Handled'
    BY <1>0, <1>1, <1>3, <1>6, ClosingKeepsHandled
  <1>8. StrayOnlyAfterClose'
    BY <1>0, <1>3 DEF IInv, StrayOnlyAfterClose
  <1>9. TypeOK'
    BY <1>0, <1>1, <1>3, <1>4, <1>5, <1>6 DEF IInv, TypeOK
  <1> QED
    BY <1>4, <1>6, <1>7, <1>8, <1>9 DEF IInv

LEMMA TransmitStepKeeps ==
    ASSUME IInv, NEW s \in Sessions, Transmit(s) PROVE IInv'
  <1> DEFINE c == Head(pending[s])
  <1>0. /\ pending[s] # << >> /\ pending' = [pending EXCEPT ![s] = Tail(@)]
        /\ done' = done \cup {c} /\ got' = [got EXCEPT ![s] = Append(@, Letter(c))]
        /\ UNCHANGED <<ctxVars, shared, threadVars, sockVars, broken, aborted, posted, sends>>
    BY DEF Transmit
  <1>1. /\ Owned' /\ Found' /\ pending' \in [Sessions -> Seq(1 .. made)]
        /\ done' \subseteq 1 .. made
    BY <1>0, TransmitKeeps DEF ctxVars, threadVars
  <1>2. c \in 1 .. made
    BY <1>0, PlaceTypes, TailFacts
  <1>3. got' \in [Sessions -> Seq(Letters)]
    <2>1. Letter(c) \in Letters /\ got \in [Sessions -> Seq(Letters)]
      BY <1>2, LetterType DEF IInv, TypeOK
    <2> QED
      BY <1>0, <2>1
  <1>4. Busy' /\ Handled'
    BY <1>0 DEF IInv, Busy, Handled, ctxVars, threadVars, sockVars
  <1>5. StrayOnlyAfterClose'
    BY <1>0 DEF IInv, StrayOnlyAfterClose, sockVars
  <1>6. aborted' \subseteq done'
    BY <1>0, PlaceTypes
  <1>7. TypeOK'
    BY <1>0, <1>1, <1>3, <1>6 DEF IInv, TypeOK, ctxVars, threadVars, sockVars, Contexts
  <1> QED
    BY <1>1, <1>4, <1>5, <1>7 DEF IInv

LEMMA BreakKeeps ==
    ASSUME IInv, NEW s \in Sessions, Break(s) PROVE IInv'
  <1>0. /\ UNCHANGED <<ctxVars, shared, threadVars, sockVars, posted, got, sends>>
        /\ Emptied(s) /\ broken' = broken \cup {s} /\ aborted' = aborted \cup Range(pending[s])
        /\ done' = done \cup Range(pending[s])
    BY DEF Break, Emptied
  <1>1. Owned' /\ Found'
    BY <1>0, EmptyKeeps DEF ctxVars, threadVars
  <1>2. Busy' /\ Handled'
    BY <1>0 DEF IInv, Busy, Handled, ctxVars, threadVars, sockVars
  <1>3. StrayOnlyAfterClose'
    BY <1>0 DEF IInv, StrayOnlyAfterClose, sockVars
  <1>4. TypeOK'
    BY <1>0, EmptiedFacts DEF IInv, TypeOK, ctxVars, threadVars, sockVars, Contexts
  <1> QED
    BY <1>1, <1>2, <1>3, <1>4 DEF IInv

LEMMA SendCompletesKeeps ==
    ASSUME IInv, NEW c \in Contexts, SendCompletes(c) PROVE IInv'
  <1>0. /\ c \in done \ aborted /\ Deallocate(c) /\ done' = done \ {c} /\ pending' = pending
        /\ UNCHANGED <<shared, threadVars, sockVars, broken, aborted, posted, got, sends>>
    BY DEF SendCompletes
  <1>1. UNCHANGED <<made, ctxFor, own, points, keeps>>
    BY <1>0 DEF Deallocate
  <1>2. PICK s \in Sessions : TRUE
    BY SessionsExist
  <1>3. /\ Owned' /\ Found' /\ pool' \in Seq(1 .. made)
        /\ pending' \in [Sessions -> Seq(1 .. made)] /\ done' \subseteq 1 .. made
    BY <1>0, <1>2, CompletionKeeps DEF threadVars
  <1>4. Busy' /\ Handled'
    BY <1>0, <1>1 DEF IInv, Busy, Handled, threadVars, sockVars
  <1>5. StrayOnlyAfterClose'
    BY <1>0 DEF IInv, StrayOnlyAfterClose, sockVars
  <1>6. aborted' \subseteq done'
    BY <1>0, PlaceTypes
  <1>7. TypeOK'
    BY <1>0, <1>1, <1>3, <1>6 DEF IInv, TypeOK, threadVars, sockVars, Contexts
  <1> QED
    BY <1>3, <1>4, <1>5, <1>7 DEF IInv

LEMMA SendAbortedKeeps ==
    ASSUME IInv, NEW c \in Contexts, SendAborted(c) PROVE IInv'
  <1> USE BoundsType
  <1> DEFINE s == ctxFor[c]
  <1>0. /\ c \in aborted /\ Deallocate(c)
        /\ UNCHANGED <<shared, threadVars, opened, broken, posted, got, sends>>
        /\ disconnected' = disconnected \cup {s} /\ sock' = [sock EXCEPT ![s] = 0]
    BY DEF SendAborted
  <1>1. UNCHANGED <<made, ctxFor, own, points, keeps>>
    BY <1>0 DEF Deallocate
  <1>2. c \in done /\ c \in 1 .. made /\ s \in opened /\ s \in Sessions
    BY <1>0, PlaceTypes DEF IInv, Busy, TypeOK
  <1>3. /\ aborted' \subseteq done'
        /\ \/ pending' = pending /\ done' = done \ {c}
           \/ /\ pending' = [pending EXCEPT ![s] = << >>]
              /\ done' = (done \ {c}) \cup Range(pending[s])
    <2>1. CASE s \in disconnected
      BY <2>1, PlaceTypes DEF SendAborted
    <2>2. CASE s \notin disconnected
      BY <2>2, PlaceTypes DEF SendAborted
    <2> QED
      BY <2>1, <2>2
  <1> HIDE DEF s
  <1>4. /\ Owned' /\ Found' /\ pool' \in Seq(1 .. made)
        /\ pending' \in [Sessions -> Seq(1 .. made)] /\ done' \subseteq 1 .. made
    BY <1>0, <1>2, <1>3, CompletionKeeps DEF threadVars
  <1>5. Busy'
    BY <1>0, <1>1 DEF IInv, Busy, threadVars
  <1>6. /\ sock' \in [Sessions -> 0 .. MaxHandles]
        /\ \A r \in Sessions : sock'[r] = sock[r] \/ (r \in disconnected' /\ sock'[r] = 0)
    BY <1>0, <1>2 DEF IInv, TypeOK
  <1>7. Handled'
    BY <1>0, <1>1, <1>5, <1>6, ClosingKeepsHandled DEF threadVars
  <1>8. StrayOnlyAfterClose'
    BY <1>0 DEF IInv, StrayOnlyAfterClose
  <1>9. TypeOK'
    <2>1. disconnected' \subseteq opened
      BY <1>0, <1>2 DEF IInv, TypeOK
    <2> QED
      BY <1>0, <1>1, <1>3, <1>4, <1>6, <2>1 DEF IInv, TypeOK, threadVars
  <1> QED
    BY <1>4, <1>5, <1>7, <1>8, <1>9 DEF IInv

----------------------------------------------------------------------------
(* The theorems.                                                            *)

\* Every step of every thread, of the kernel and of the clients keeps IInv.
THEOREM NextIInv == IInv /\ [Next]_vars => IInv'
  <1> SUFFICES ASSUME IInv, [Next]_vars PROVE IInv'
    OBVIOUS
  <1>1. ASSUME NEW s \in Sessions, Open(s) \/ Lose(s) \/ Transmit(s) \/ Break(s) PROVE IInv'
    BY <1>1, OpenKeeps, LoseKeeps, TransmitStepKeeps, BreakKeeps
  <1>2. ASSUME NEW t \in Senders, NEW s \in Sessions, NEW m \in Outgoing, SendInternal(t, s, m)
        PROVE  IInv'
    <2>1. MessagePacket(m) \in Packets
      BY DEF Packets
    <2> QED
      BY <1>2, <2>1, FillKeeps DEF SendInternal
  <1>3. ASSUME NEW t \in Senders, NEW s \in Sessions, NEW p \in Raws, SendRaw(t, s, p)
        PROVE  IInv'
    <2>1. p \in Packets
      BY DEF Packets
    <2> QED
      BY <1>3, <2>1, FillKeeps DEF SendRaw
  <1>4. ASSUME NEW t \in Senders, NEW m \in Casts, BroadcastShared(t, m) PROVE IInv'
    BY <1>4, BroadcastKeeps
  <1>5. ASSUME NEW t \in Senders, Broadcasts(t) PROVE IInv'
    BY <1>5, BroadcastKeeps, SendSharedKeeps DEF Broadcasts
  <1>6. ASSUME NEW t \in Senders, SerializeFails(t) \/ PostSend(t) PROVE IInv'
    BY <1>6, GivesUpKeeps, PostSendReadsKeeps, WSASendAcceptsKeeps, WSASendFailsKeeps
    DEF PostSend
  <1>7. ASSUME NEW c \in Contexts, Completes(c) PROVE IInv'
    BY <1>7, SendCompletesKeeps, SendAbortedKeeps DEF Completes
  <1>8. CASE UNCHANGED vars
    BY <1>8 DEF vars, ctxVars, threadVars, sockVars, kernelVars, IInv, TypeOK, Owned, Found,
                Busy, Handled, StrayOnlyAfterClose, Contexts
  <1> QED
    BY <1>1, <1>2, <1>3, <1>4, <1>5, <1>6, <1>7, <1>8 DEF Next

LEMMA Invariant == Spec => []IInv
  BY InitIInv, NextIInv, PTL DEF Spec

\* Every variable of Sending keeps its type: in particular g_ioContextPool never
\* holds a null pointer, and a context keeps the shared buffer it points to.
THEOREM TypeCorrect == Spec => []TypeOK
  <1>1. IInv => TypeOK
    BY DEF IInv
  <1> QED
    BY <1>1, Invariant, PTL

LEMMA OwnedOnePlace == IInv => OnePlace
  <1> SUFFICES ASSUME IInv, NEW c \in 1 .. made PROVE Cardinality(Places(c)) = 1
    BY DEF OnePlace
  <1>0. Places(c) = InPool(c) \cup InThread(c) \cup InQueue(c) \cup InPort(c)
    BY DEF Places
  <1>1. c # 0 /\ Owned /\ Found
    BY PlaceTypes
  <1>2. Places(c) # {}
    <2>1. CASE Occurs(pool, c)
      BY <1>0, <2>1 DEF Occurs, InPool
    <2>2. CASE c \in done
      BY <1>0, <2>2 DEF InPort
    <2>3. CASE \E t \in Senders : holds[t] = c
      BY <1>0, <2>3 DEF InThread
    <2>4. CASE \E s \in Sessions : Occurs(pending[s], c)
      <3>1. PICK s \in Sessions : \E i \in DOMAIN pending[s] : pending[s][i] = c
        BY <2>4 DEF Occurs
      <3>2. PICK i \in DOMAIN pending[s] : pending[s][i] = c
        BY <3>1
      <3>3. <<s, i>> \in InQueue(c)
        BY <3>2 DEF InQueue
      <3> QED
        BY <1>0, <3>3
    <2> QED
      BY <1>1, <2>1, <2>2, <2>3, <2>4 DEF Found
  <1>3. /\ InPool(c) # {} => Occurs(pool, c)
        /\ InThread(c) # {} => \E t \in Senders : holds[t] = c
        /\ InQueue(c) # {} => \E s \in Sessions : Occurs(pending[s], c)
        /\ InPort(c) # {} => c \in done
    BY DEF Occurs, InPool, InThread, InQueue, InPort
  <1>4. /\ InPool(c) # {} => InThread(c) = {} /\ InQueue(c) = {} /\ InPort(c) = {}
        /\ InThread(c) # {} => InQueue(c) = {} /\ InPort(c) = {}
        /\ InQueue(c) # {} => InPort(c) = {}
    BY <1>1, <1>3 DEF Owned
  <1>5. /\ \A p, q \in InPool(c) : p = q
        /\ \A p, q \in InThread(c) : p = q
        /\ \A p, q \in InPort(c) : p = q
    BY <1>1 DEF Owned, Once, InPool, InThread, InPort
  <1>6. ASSUME NEW p \in InQueue(c), NEW q \in InQueue(c) PROVE p = q
    <2>1. PICK s \in Sessions : \E i \in DOMAIN pending[s] : pending[s][i] = c /\ p = <<s, i>>
      BY DEF InQueue
    <2>2. PICK r \in Sessions : \E j \in DOMAIN pending[r] : pending[r][j] = c /\ q = <<r, j>>
      BY DEF InQueue
    <2>3. s = r
      BY <1>1, <2>1, <2>2 DEF Owned, Occurs
    <2> QED
      BY <1>1, <2>1, <2>2, <2>3 DEF Owned, Once
  <1>7. \A p, q \in Places(c) : p = q
    BY <1>0, <1>4, <1>5, <1>6
  <1>8. PICK p : Places(c) = {p}
    BY <1>2, <1>7
  <1> QED
    BY <1>8, FS_Singleton

\* No IOContext is lost and none is in two places, for every number of sessions,
\* threads and contexts: nothing is returned twice to the pool or reused while
\* the kernel has it.
THEOREM ContextsOwned == Spec => []OnePlace
  BY Invariant, OwnedOnePlace, PTL

\* Only a packet for a session that has disconnected can go out on the connection
\* of another one.
THEOREM StrayBounded == Spec => []StrayOnlyAfterClose
  <1>1. IInv => StrayOnlyAfterClose
    BY DEF IInv
  <1> QED
    BY <1>1, Invariant, PTL

----------------------------------------------------------------------------
(* Contents.                                                                *)

\* The letter of a context, when its buffer is alive.
Envelope(c) ==
    [to |-> ctxFor[c], packet |-> IF points[c] = 0 THEN own[c] ELSE shared[points[c]]]

\* A context keeps the shared buffer it points to, so it never points to garbage.
LEMMA BufferAlive == IInv => \A c \in 1 .. made : Letter(c) = Envelope(c)
  <1> SUFFICES ASSUME IInv, NEW c \in 1 .. made PROVE Letter(c) = Envelope(c)
    OBVIOUS
  <1>1. c \in Contexts /\ keeps = points
    BY BoundsType DEF IInv, TypeOK, Contexts
  <1>2. Content(c) = IF points[c] = 0 THEN own[c] ELSE shared[points[c]]
    BY <1>1 DEF Content
  <1> QED
    BY <1>2 DEF Letter, Envelope

\* No step touches the context, or the buffer, of a send that is pending.
LEMMA ContentsKept ==
    ASSUME IInv, [Next]_vars, NEW s \in Sessions, NEW c, Occurs(pending[s], c)
    PROVE  Envelope(c)' = Envelope(c)
  <1> USE BoundsType
  <1>0. c \in 1 .. made /\ c \in Contexts
    BY PlaceTypes DEF Occurs, Contexts
  <1>1. ASSUME UNCHANGED <<ctxFor, own, points, shared>> PROVE Envelope(c)' = Envelope(c)
    BY <1>1 DEF Envelope
  <1>2. ASSUME NEW r \in Sessions, Open(r) \/ Lose(r) \/ Transmit(r) \/ Break(r)
        PROVE  Envelope(c)' = Envelope(c)
    BY <1>1, <1>2 DEF Open, Lose, Transmit, Break, ctxVars
  <1>3. ASSUME NEW t \in Senders, NEW r \in Sessions, NEW p, Fill(t, r, p)
        PROVE  Envelope(c)' = Envelope(c)
    <2>1. PICK d \in Contexts :
            /\ Allocate(d)
            /\ ctxFor' = [ctxFor EXCEPT ![d] = r]
            /\ own' = [own EXCEPT ![d] = p]
            /\ points' = [points EXCEPT ![d] = 0]
      BY <1>3 DEF Fill
    <2>2. c # d /\ shared' = shared
      BY <1>3, <2>1, AllocateFacts DEF Fill
    <2>3. ctxFor'[c] = ctxFor[c] /\ own'[c] = own[c] /\ points'[c] = points[c]
      BY <1>0, <2>1, <2>2 DEF IInv, TypeOK
    <2> QED
      BY <2>2, <2>3 DEF Envelope
  <1>4. ASSUME NEW t \in Senders, NEW m \in Casts, BroadcastShared(t, m)
        PROVE  Envelope(c)' = Envelope(c)
    <2>1. /\ shared' = [shared EXCEPT ![sends + 1] = MessagePacket(m)]
          /\ UNCHANGED <<ctxFor, own, points>>
      BY <1>4 DEF BroadcastShared, ctxVars
    <2>2. /\ points[c] \in 0 .. sends /\ sends \in 0 .. MaxSends
          /\ shared \in [Buffers -> Packets]
      BY <1>0 DEF IInv, TypeOK
    <2>3. points[c] # 0 => points[c] \in Buffers /\ points[c] # sends + 1
      BY <2>2 DEF Buffers
    <2>4. points[c] # 0 => shared'[points[c]] = shared[points[c]]
      BY <2>1, <2>2, <2>3
    <2> QED
      BY <2>1, <2>4 DEF Envelope
  <1>5. ASSUME NEW t \in Senders, NEW r \in Sessions, SendShared(t, r)
        PROVE  Envelope(c)' = Envelope(c)
    <2>1. PICK d \in Contexts :
            /\ Allocate(d)
            /\ ctxFor' = [ctxFor EXCEPT ![d] = r]
            /\ points' = [points EXCEPT ![d] = buf[t]]
      BY <1>5 DEF SendShared
    <2>2. c # d /\ shared' = shared /\ own' = own
      BY <1>5, <2>1, AllocateFacts DEF SendShared
    <2>3. ctxFor'[c] = ctxFor[c] /\ points'[c] = points[c]
      BY <1>0, <2>1, <2>2 DEF IInv, TypeOK
    <2> QED
      BY <2>2, <2>3 DEF Envelope
  <1>6. ASSUME NEW t \in Senders, Broadcasts(t) PROVE Envelope(c)' = Envelope(c)
    BY <1>1, <1>5, <1>6 DEF Broadcasts, EndBroadcast, SkipMember, ctxVars
  <1>7. ASSUME NEW t \in Senders, SerializeFails(t) \/ PostSend(t)
        PROVE  Envelope(c)' = Envelope(c)
    BY <1>1, <1>7
    DEF SerializeFails, PostSend, PostSendGivesUp, PostSendReads, WSASendAccepts, WSASendFails,
        Deallocate, ctxVars
  <1>8. ASSUME NEW d \in Contexts, Completes(d) PROVE Envelope(c)' = Envelope(c)
    BY <1>1, <1>8 DEF Completes, SendCompletes, SendAborted, Deallocate
  <1>9. CASE UNCHANGED vars
    BY <1>1, <1>9 DEF vars, ctxVars
  <1> QED
    BY <1>2, <1>3, <1>4, <1>6, <1>7, <1>8, <1>9 DEF Next, SendInternal, SendRaw

----------------------------------------------------------------------------
(* What a step does with one connection.                                    *)

\* Its queue stays, and it is not opened again.
Rests(s) ==
    /\ UNCHANGED <<pending[s], posted[s], got[s]>>
    /\ sock'[s] \in {0, sock[s]} \/ s \notin opened
    /\ broken \subseteq broken' /\ opened \subseteq opened'

\* Its queue is given up, and it takes no more.
GivesUp(s) ==
    /\ pending'[s] = << >> /\ UNCHANGED <<posted[s], got[s]>>
    /\ sock'[s] = 0 \/ s \in broken'
    /\ opened \subseteq opened'

\* The kernel takes a send.
Accepts(s) ==
    /\ sock[s] # 0 /\ s \notin broken
    /\ \E c \in 1 .. made :
         pending'[s] = Append(pending[s], c) /\ posted'[s] = Append(posted[s], Letter(c))
    /\ UNCHANGED <<ctxFor, own, points, shared, made, opened, got[s]>>

\* The oldest send goes out.
Delivers(s) ==
    /\ pending[s] # << >>
    /\ pending'[s] = Tail(pending[s])
    /\ got'[s] = Append(got[s], Letter(Head(pending[s])))
    /\ UNCHANGED <<sock, broken, opened, posted[s]>>

\* A connection of a session that Disconnect() closes, and any other.
LEMMA ClosingRests ==
    ASSUME IInv, NEW r \in Sessions, NEW s \in Sessions, Disconnect(r),
           UNCHANGED <<opened, broken, posted, got>>
    PROVE  Rests(s) \/ GivesUp(s)
  <1>1. sock \in [Sessions -> 0 .. MaxHandles] /\ pending \in [Sessions -> Seq(1 .. made)]
    BY DEF IInv, TypeOK
  <1>2. CASE r \in disconnected
    BY <1>2 DEF Disconnect, Rests
  <1>3. CASE r \notin disconnected
    <2>1. CASE s = r
      BY <1>1, <1>3, <2>1 DEF Disconnect, GivesUp
    <2>2. CASE s # r
      BY <1>1, <1>3, <2>2 DEF Disconnect, Rests
    <2> QED
      BY <2>1, <2>2
  <1> QED
    BY <1>2, <1>3

LEMMA ConnectionStep ==
    ASSUME IInv, [Next]_vars, NEW s \in Sessions
    PROVE  Rests(s) \/ GivesUp(s) \/ Accepts(s) \/ Delivers(s)
  <1> USE BoundsType
  <1>0. /\ sock \in [Sessions -> 0 .. MaxHandles] /\ pending \in [Sessions -> Seq(1 .. made)]
        /\ posted \in [Sessions -> Seq(Letters)] /\ got \in [Sessions -> Seq(Letters)]
        /\ ctxFor \in [Contexts -> Sessions] /\ made \in 0 .. MaxContexts
    BY DEF IInv, TypeOK
  <1>1. ASSUME UNCHANGED <<sockVars, kernelVars>> PROVE Rests(s)
    BY <1>1 DEF Rests, sockVars, kernelVars
  <1>2. ASSUME NEW r \in Sessions, Open(r) PROVE Rests(s)
    BY <1>0, <1>2 DEF Open, Rests, kernelVars
  <1>3. ASSUME NEW r \in Sessions, Lose(r) PROVE Rests(s) \/ GivesUp(s)
    BY <1>3, ClosingRests DEF Lose
  <1>4. ASSUME NEW r \in Sessions, Transmit(r) PROVE Rests(s) \/ Delivers(s)
    BY <1>0, <1>4 DEF Transmit, Rests, Delivers, sockVars
  <1>5. ASSUME NEW r \in Sessions, Break(r) PROVE Rests(s) \/ GivesUp(s)
    BY <1>0, <1>5 DEF Break, Rests, GivesUp, sockVars
  <1>6. ASSUME NEW t \in Senders, NEW r \in Sessions, NEW p, Fill(t, r, p) PROVE Rests(s)
    BY <1>1, <1>6 DEF Fill
  <1>7. ASSUME NEW t \in Senders, NEW m \in Casts, BroadcastShared(t, m) PROVE Rests(s)
    BY <1>1, <1>7 DEF BroadcastShared
  <1>8. ASSUME NEW t \in Senders, Broadcasts(t) PROVE Rests(s)
    BY <1>1, <1>8 DEF Broadcasts, EndBroadcast, SendShared, SkipMember
  <1>9. ASSUME NEW t \in Senders, SerializeFails(t) \/ PostSend(t)
        PROVE  Rests(s) \/ GivesUp(s) \/ Accepts(s)
    <2>1. CASE SerializeFails(t) \/ PostSendGivesUp(t) \/ PostSendReads(t)
      BY <1>1, <2>1 DEF SerializeFails, PostSendGivesUp, PostSendReads
    <2>2. CASE WSASendAccepts(t)
      <3>1. PICK r \in Sessions :
              /\ sock[r] # 0 /\ r \notin broken
              /\ pending' = [pending EXCEPT ![r] = Append(@, holds[t])]
              /\ posted' = [posted EXCEPT ![r] = Append(@, Letter(holds[t]))]
        BY <2>2 DEF WSASendAccepts
      <3>2. holds[t] \in 1 .. made
        BY <2>2, PlaceTypes DEF WSASendAccepts, IInv, Busy
      <3>3. UNCHANGED <<ctxFor, own, points, shared, made, opened, sock, broken, got>>
        BY <2>2 DEF WSASendAccepts, ctxVars, sockVars
      <3>4. CASE s = r
        <4>1. /\ pending'[s] = Append(pending[s], holds[t])
              /\ posted'[s] = Append(posted[s], Letter(holds[t]))
          BY <1>0, <3>1, <3>4
        <4> QED
          BY <3>1, <3>2, <3>3, <3>4, <4>1 DEF Accepts
      <3>5. CASE s # r
        BY <1>0, <3>1, <3>3, <3>5 DEF Rests
      <3> QED
        BY <3>4, <3>5
    <2>3. CASE WSASendFails(t)
      <3>1. holds[t] \in 1 .. made
        BY <2>3, PlaceTypes DEF WSASendFails, IInv, Busy
      <3>2. holds[t] \in Contexts
        BY <1>0, <3>1 DEF Contexts
      <3>3. ctxFor[holds[t]] \in Sessions
        BY <1>0, <3>2
      <3> QED
        BY <2>3, <3>3, ClosingRests DEF WSASendFails
    <2> QED
      BY <1>9, <2>1, <2>2, <2>3 DEF PostSend
  <1>10. ASSUME NEW c \in Contexts, Completes(c) PROVE Rests(s) \/ GivesUp(s)
    <2>1. CASE SendCompletes(c)
      BY <2>1 DEF SendCompletes, Rests, sockVars
    <2>2. CASE SendAborted(c)
      <3>1. UNCHANGED <<opened, broken, posted, got>> /\ sock' = [sock EXCEPT ![ctxFor[c]] = 0]
        BY <2>2 DEF SendAborted
      <3>2. pending' = pending \/ pending' = [pending EXCEPT ![ctxFor[c]] = << >>]
        BY <2>2 DEF SendAborted
      <3>3. CASE s = ctxFor[c]
        BY <1>0, <3>1, <3>2, <3>3 DEF Rests, GivesUp
      <3>4. CASE s # ctxFor[c]
        BY <1>0, <3>1, <3>2, <3>4 DEF Rests
      <3> QED
        BY <3>3, <3>4
    <2> QED
      BY <1>10, <2>1, <2>2 DEF Completes
  <1>11. CASE UNCHANGED vars
    BY <1>1, <1>11 DEF vars
  <1> QED
    BY <1>2, <1>3, <1>4, <1>5, <1>6, <1>7, <1>8, <1>9, <1>10, <1>11
    DEF Next, SendInternal, SendRaw
----------------------------------------------------------------------------
(* The queues of the connections.                                           *)

Waiting(s) == [i \in DOMAIN pending[s] |-> Letter(pending[s][i])]

\* Intact, and the sends that a connection can still take come next; nothing has
\* been posted on a connection that has not been accepted.
Ordered ==
    /\ Intact
    /\ \A s \in Sessions :
         /\ sock[s] # 0 /\ s \notin broken => got[s] \o Waiting(s) = posted[s]
         /\ s \notin opened => posted[s] = << >>

WaitingTyped ==
    \A s \in Sessions :
        /\ Waiting(s) \in Seq(Letters) /\ Len(Waiting(s)) = Len(pending[s])
        /\ posted[s] \in Seq(Letters) /\ got[s] \in Seq(Letters) /\ pending[s] \in Seq(1 .. made)
        /\ \A i \in 1 .. Len(pending[s]) :
             /\ pending[s][i] \in 1 .. made
             /\ \A c : pending[s][i] = c => Waiting(s)[i] = Envelope(c)

LEMMA WaitingType == IInv => WaitingTyped
  <1> SUFFICES ASSUME IInv, NEW s \in Sessions
               PROVE  /\ Waiting(s) \in Seq(Letters) /\ Len(Waiting(s)) = Len(pending[s])
                      /\ posted[s] \in Seq(Letters) /\ got[s] \in Seq(Letters)
                      /\ pending[s] \in Seq(1 .. made)
                      /\ \A i \in 1 .. Len(pending[s]) :
                           /\ pending[s][i] \in 1 .. made
                           /\ \A c : pending[s][i] = c => Waiting(s)[i] = Envelope(c)
    BY DEF WaitingTyped
  <1>1. /\ pending[s] \in Seq(1 .. made) /\ posted[s] \in Seq(Letters) /\ got[s] \in Seq(Letters)
    BY DEF IInv, TypeOK
  <1>2. Len(pending[s]) \in Nat /\ DOMAIN pending[s] = 1 .. Len(pending[s])
    BY <1>1
  <1>3. \A i \in 1 .. Len(pending[s]) : pending[s][i] \in 1 .. made
    BY <1>1, ElementOfSeq
  <1>4. \A c \in 1 .. made : Letter(c) \in Letters /\ Letter(c) = Envelope(c)
    BY LetterType, BufferAlive
  <1>5. Waiting(s) = [i \in 1 .. Len(pending[s]) |-> Letter(pending[s][i])]
    BY <1>2 DEF Waiting
  <1>6. Waiting(s) \in [1 .. Len(pending[s]) -> Letters]
    BY <1>3, <1>4, <1>5
  <1>7. Waiting(s) \in Seq(Letters) /\ Len(Waiting(s)) = Len(pending[s])
    BY <1>2, <1>6
  <1> QED
    BY <1>1, <1>3, <1>4, <1>5, <1>7

LEMMA WaitingTypeNext == IInv' => WaitingTyped'
  BY WaitingType, PTL

\* What each kind of step does with the letters that wait.
LEMMA WaitingStep ==
    ASSUME IInv, IInv', [Next]_vars, NEW s \in Sessions
    PROVE  /\ Rests(s) => Waiting(s)' = Waiting(s)
           /\ GivesUp(s) => Waiting(s)' = << >>
           /\ \A c \in 1 .. made :
                Accepts(s) /\ pending'[s] = Append(pending[s], c) =>
                    Waiting(s)' = Append(Waiting(s), Letter(c)) /\ Letter(c) \in Letters
           /\ Delivers(s) => /\ Waiting(s) # << >> /\ Head(Waiting(s)) = Letter(Head(pending[s]))
                             /\ Waiting(s)' = Tail(Waiting(s))
  <1> DEFINE n == Len(pending[s])
             w == Waiting(s)
             v == Waiting(s)'
  <1>1. /\ w \in Seq(Letters) /\ Len(w) = n /\ n \in Nat /\ pending[s] \in Seq(1 .. made)
        /\ \A i \in 1 .. n : /\ pending[s][i] \in 1 .. made
                             /\ \A c : pending[s][i] = c => w[i] = Envelope(c)
    BY WaitingType DEF WaitingTyped
  <1>2. /\ v \in Seq(Letters) /\ Len(v) = Len(pending'[s])
        /\ \A i \in 1 .. Len(pending'[s]) : \A c : pending'[s][i] = c => v[i] = Envelope(c)'
    BY WaitingTypeNext DEF WaitingTyped
  <1>3. \A i \in 1 .. n : \A c : pending[s][i] = c => Envelope(c)' = Envelope(c)
    <2>1. \A i \in 1 .. n : Occurs(pending[s], pending[s][i])
      BY <1>1 DEF Occurs
    <2> QED
      BY <2>1, ContentsKept
  <1> HIDE DEF w, v, n
  <1>4. ASSUME Rests(s) PROVE v = w
    <2>1. pending'[s] = pending[s]
      BY <1>4 DEF Rests
    <2>2. Len(v) = Len(w) /\ \A i \in 1 .. Len(v) : v[i] = w[i]
      BY <1>1, <1>2, <1>3, <2>1 DEF n
    <2> QED
      BY <1>1, <1>2, <2>2, SeqEqual
  <1>5. ASSUME GivesUp(s) PROVE v = << >>
    BY <1>2, <1>5 DEF GivesUp
  <1>6. ASSUME NEW c \in 1 .. made, Accepts(s), pending'[s] = Append(pending[s], c)
        PROVE  v = Append(w, Letter(c)) /\ Letter(c) \in Letters
    <2>1. Letter(c) \in Letters /\ Letter(c) = Envelope(c)
      BY LetterType, BufferAlive
    <2>2. Envelope(c)' = Envelope(c)
      BY <1>6 DEF Accepts, Envelope
    <2>3. /\ Len(pending'[s]) = n + 1 /\ pending'[s][n + 1] = c
          /\ \A i \in 1 .. n : pending'[s][i] = pending[s][i]
      BY <1>1, <1>6 DEF n
    <2> DEFINE a == Append(w, Letter(c))
    <2>4. /\ a \in Seq(Letters) /\ Len(a) = n + 1 /\ a[n + 1] = Letter(c)
          /\ \A i \in 1 .. n : a[i] = w[i]
      BY <1>1, <2>1
    <2> HIDE DEF a
    <2>5. ASSUME NEW i \in 1 .. n + 1 PROVE v[i] = a[i]
      <3>1. CASE i \in 1 .. n
        <4>1. pending'[s][i] = pending[s][i] /\ i \in 1 .. Len(pending'[s]) /\ a[i] = w[i]
          BY <1>1, <2>3, <2>4, <3>1
        <4> QED
          BY <1>1, <1>2, <1>3, <3>1, <4>1
      <3>2. CASE i = n + 1
        BY <1>1, <1>2, <2>1, <2>2, <2>3, <2>4, <3>2
      <3> QED
        BY <1>1, <3>1, <3>2
    <2>6. v = a
      BY <1>2, <2>3, <2>4, <2>5, SeqEqual
    <2> QED
      BY <2>1, <2>6 DEF a
  <1>7. ASSUME Delivers(s)
        PROVE  w # << >> /\ Head(w) = Letter(Head(pending[s])) /\ v = Tail(w)
    <2>1. pending[s] # << >> /\ pending'[s] = Tail(pending[s])
      BY <1>7 DEF Delivers
    <2>2. /\ n >= 1 /\ Head(pending[s]) = pending[s][1] /\ Len(pending'[s]) = n - 1
          /\ \A i \in 1 .. n - 1 : pending'[s][i] = pending[s][i + 1]
      BY <1>1, <2>1 DEF n
    <2>3. /\ w # << >> /\ Head(w) = w[1] /\ Tail(w) \in Seq(Letters) /\ Len(Tail(w)) = n - 1
          /\ \A i \in 1 .. n - 1 : Tail(w)[i] = w[i + 1]
      BY <1>1, <2>2
    <2>4. Head(w) = Letter(Head(pending[s]))
      BY <1>1, <2>2, <2>3, BufferAlive
    <2>5. ASSUME NEW i \in 1 .. n - 1 PROVE v[i] = Tail(w)[i]
      <3>1. i + 1 \in 1 .. n
        BY <1>1
      <3> QED
        BY <1>1, <1>2, <1>3, <2>2, <2>3, <3>1
    <2>6. v = Tail(w)
      BY <1>2, <2>2, <2>3, <2>5, SeqEqual
    <2> QED
      BY <2>3, <2>4, <2>6
  <1> QED
    BY <1>4, <1>5, <1>6, <1>7 DEF w, v

LEMMA InitOrdered == Init => Ordered
  <1> SUFFICES ASSUME Init, NEW s \in Sessions
               PROVE  /\ IsPrefix(got[s] \o Waiting(s), posted[s])
                      /\ got[s] \o Waiting(s) = posted[s]
                      /\ posted[s] = << >>
    BY DEF Ordered, Intact, Waiting
  <1>1. got[s] = << >> /\ pending[s] = << >> /\ posted[s] = << >>
    BY DEF Init
  <1>2. Waiting(s) = << >>
    BY <1>1 DEF Waiting
  <1>3. << >> \o << >> = << >>
    OBVIOUS
  <1>4. IsPrefix(<< >>, << >>)
    BY DEF IsPrefix
  <1> QED
    BY <1>1, <1>2, <1>3, <1>4

LEMMA NextOrdered == IInv /\ IInv' /\ Ordered /\ [Next]_vars => Ordered'
  <1> SUFFICES ASSUME IInv, IInv', Ordered, [Next]_vars, NEW s \in Sessions
               PROVE  /\ IsPrefix(got'[s] \o Waiting(s)', posted'[s])
                      /\ sock'[s] # 0 /\ s \notin broken' => got'[s] \o Waiting(s)' = posted'[s]
                      /\ s \notin opened' => posted'[s] = << >>
    BY DEF Ordered, Intact, Waiting
  <1> DEFINE g == got[s]
             w == Waiting(s)
             p == posted[s]
  <1>1. g \in Seq(Letters) /\ w \in Seq(Letters) /\ p \in Seq(Letters)
    BY WaitingType DEF WaitingTyped
  <1>2. /\ IsPrefix(g \o w, p)
        /\ sock[s] # 0 /\ s \notin broken => g \o w = p
        /\ s \notin opened => p = << >>
    BY DEF Ordered, Intact, Waiting
  <1> HIDE DEF g, w, p
  <1>3. CASE Rests(s)
    <2>1. got'[s] = g /\ Waiting(s)' = w /\ posted'[s] = p
      BY <1>3, WaitingStep DEF Rests, g, w, p
    <2>2. CASE s \in opened
      BY <1>2, <1>3, <2>1, <2>2 DEF Rests
    <2>3. CASE s \notin opened
      <3>1. p = << >> /\ g \o w = << >>
        BY <1>1, <1>2, <2>3, EmptyPrefix
      <3> QED
        BY <1>2, <2>1, <3>1
    <2> QED
      BY <2>2, <2>3
  <1>4. CASE GivesUp(s)
    <2>1. got'[s] = g /\ Waiting(s)' = << >> /\ posted'[s] = p
      BY <1>4, WaitingStep DEF GivesUp, g, p
    <2>2. IsPrefix(g \o << >>, p)
      BY <1>1, <1>2, PrefixFirst
    <2> QED
      BY <1>2, <1>4, <2>1, <2>2 DEF GivesUp
  <1>5. CASE Accepts(s)
    <2>1. PICK c \in 1 .. made :
            pending'[s] = Append(pending[s], c) /\ posted'[s] = Append(p, Letter(c))
      BY <1>5 DEF Accepts, p
    <2>2. got'[s] = g /\ Waiting(s)' = Append(w, Letter(c)) /\ Letter(c) \in Letters
      <3>1. /\ Waiting(s)' = Append(Waiting(s), Letter(c)) /\ Letter(c) \in Letters
        BY <1>5, <2>1, WaitingStep
      <3>2. got'[s] = g
        BY <1>5 DEF Accepts, g
      <3> QED
        BY <3>1, <3>2 DEF w
    <2>3. g \o w = p
      BY <1>2, <1>5 DEF Accepts
    <2>4. got'[s] \o Waiting(s)' = posted'[s]
      <3>1. g \o Append(w, Letter(c)) = Append(g \o w, Letter(c))
        BY <1>1, <2>2, ConcatShifts
      <3> QED
        BY <2>1, <2>2, <2>3, <3>1
    <2>5. s \in opened /\ opened' = opened
      BY <1>5 DEF Accepts, IInv, Handled
    <2>6. posted'[s] \in Seq(Letters)
      BY WaitingTypeNext DEF WaitingTyped
    <2>7. IsPrefix(posted'[s], posted'[s])
      BY <2>6 DEF IsPrefix
    <2> QED
      BY <2>4, <2>5, <2>7
  <1>6. CASE Delivers(s)
    <2>1. w # << >> /\ got'[s] = Append(g, Head(w)) /\ Waiting(s)' = Tail(w) /\ posted'[s] = p
      BY <1>6, WaitingStep DEF Delivers, g, w, p
    <2>2. got'[s] \o Waiting(s)' = g \o w
      BY <1>1, <2>1, ConcatShifts
    <2> QED
      BY <1>2, <1>6, <2>1, <2>2 DEF Delivers
  <1> QED
    BY <1>3, <1>4, <1>5, <1>6, ConnectionStep

LEMMA OrderInvariant == Spec => []Ordered
  BY InitOrdered, NextOrdered, Invariant, PTL DEF Spec

\* What goes out on a connection is what was handed to WSASend on it, in that
\* order and unchanged, for every number of sessions, threads, contexts and
\* messages: no buffer of a pending send is reused, rewritten or freed.
THEOREM ArriveIntact == Spec => []Intact
  <1>1. Ordered => Intact
    BY DEF Ordered
  <1> QED
    BY <1>1, OrderInvariant, PTL

LEMMA StepStreams ==
    ASSUME IInv, IInv', Ordered, [Next]_vars, NEW s \in Sessions
    PROVE  StreamStep(s)
  <1> DEFINE g == got[s]
             w == Waiting(s)
             p == posted[s]
  <1>1. g \in Seq(Letters) /\ w \in Seq(Letters) /\ p \in Seq(Letters)
    BY WaitingType DEF WaitingTyped
  <1>2. IsPrefix(g \o w, p)
    BY DEF Ordered, Intact, Waiting
  <1>3. CASE Rests(s) \/ GivesUp(s)
    BY <1>3 DEF Rests, GivesUp, StreamStep
  <1>4. CASE Accepts(s)
    <2>1. PICK c \in 1 .. made : posted'[s] = Append(posted[s], Letter(c))
      BY <1>4 DEF Accepts
    <2>2. Letter(c) \in Letters /\ got'[s] = got[s]
      BY <1>4, LetterType DEF Accepts
    <2>3. \E x \in Letters : Stream(s)!HandOver(x)
      BY <2>1, <2>2 DEF Stream!HandOver
    <2> QED
      BY <2>3 DEF StreamStep, Stream!Next
  <1>5. CASE Delivers(s)
    <2>1. /\ w # << >> /\ got'[s] = Append(got[s], Head(w)) /\ posted'[s] = posted[s]
      BY <1>5, WaitingStep DEF Delivers
    <2>2. Len(g) < Len(p) /\ Head(w) = p[Len(g) + 1]
      BY <1>1, <1>2, <2>1, PrefixFirst
    <2>3. Stream(s)!Arrive
      BY <2>1, <2>2 DEF Stream!Arrive
    <2> QED
      BY <2>3 DEF StreamStep, Stream!Next
  <1> QED
    BY <1>3, <1>4, <1>5, ConnectionStep

\* Sending implements PacketStream for every session: whatever the threads, the
\* kernel and the pool do, each connection is a queue that loses nothing but its
\* end, reorders nothing and changes nothing.
THEOREM ImplementsStreams == Spec => StreamKept
  <1>1. Init => \A s \in Sessions : Stream(s)!Init
    BY DEF Init, Stream!Init
  <1>2. IInv /\ IInv' /\ Ordered /\ [Next]_vars => [\A s \in Sessions : StreamStep(s)]_vars
    BY StepStreams
  <1> QED
    BY <1>1, <1>2, Invariant, OrderInvariant, PTL DEF Spec, StreamKept

----------------------------------------------------------------------------
(* What is sent.                                                            *)

\* The packets Send, SendRaw and BroadcastShared write.
Real == Raws \cup {MessagePacket(m) :
            m \in {m \in Outgoing : HeaderSize + ByteSizeLong(m) <= MAX_BUF_SIZE} \cup Casts}

\* Whatever a broadcast or a context in use points to has been written, and so has
\* what was posted.
Written ==
    /\ \A t \in Senders : at[t] = "casting" => buf[t] # 0
    /\ \A t \in Senders : buf[t] # 0 => shared[buf[t]] \in Real
    /\ \A c \in 1 .. made : Envelope(c).packet \in Real
    /\ \A s \in Sessions : \A i \in DOMAIN posted[s] : posted[s][i].packet \in Real

LEMMA InitWritten == Init => Written
  <1>1. 1 .. 0 = {}
    OBVIOUS
  <1> QED
    BY <1>1 DEF Init, Written

\* Nothing is written but the context that Allocate returned.
LEMMA ContextWritten ==
    ASSUME IInv, Written, NEW c \in Contexts, Allocate(c),
           Envelope(c)'.packet \in Real,
           \A d \in 1 .. made : d # c => Envelope(d)' = Envelope(d)
    PROVE  \A d \in 1 .. made' : Envelope(d)'.packet \in Real
  BY AllocateFacts DEF Written

\* The contexts and the buffers of broadcasts.
LEMMA BuffersWritten ==
    ASSUME IInv, Written, [Next]_vars
    PROVE  /\ \A t \in Senders : at'[t] = "casting" => buf'[t] # 0
           /\ \A t \in Senders : buf'[t] # 0 => shared'[buf'[t]] \in Real
           /\ \A c \in 1 .. made' : Envelope(c)'.packet \in Real
  <1> USE BoundsType
  <1> DEFINE Goal == /\ \A t \in Senders : at'[t] = "casting" => buf'[t] # 0
                     /\ \A t \in Senders : buf'[t] # 0 => shared'[buf'[t]] \in Real
                     /\ \A c \in 1 .. made' : Envelope(c)'.packet \in Real
  <1>0. /\ at \in [Senders -> {"idle", "casting", "posting", "calling"}]
        /\ buf \in [Senders -> 0 .. sends] /\ sends \in 0 .. MaxSends
        /\ shared \in [Buffers -> Packets] /\ points \in [Contexts -> 0 .. sends]
        /\ own \in [Contexts -> Packets] /\ ctxFor \in [Contexts -> Sessions]
        /\ made \in 0 .. MaxContexts /\ 1 .. made \subseteq Contexts
    <2>1. made \in 0 .. MaxContexts
      BY DEF IInv, TypeOK
    <2>2. 1 .. made \subseteq Contexts
      BY <2>1 DEF Contexts
    <2> QED
      BY <2>2 DEF IInv, TypeOK
  <1>1. ASSUME UNCHANGED <<made, ctxFor, own, points, shared, buf>>,
               \A t \in Senders : at'[t] = "casting" => buf[t] # 0
        PROVE  Goal
    BY <1>1 DEF Written, Envelope
  <1>2. ASSUME UNCHANGED <<made, ctxFor, own, points, shared, buf>>,
               NEW t \in Senders, at' = [at EXCEPT ![t] = IF buf[t] = 0 THEN "idle" ELSE "casting"]
        PROVE  Goal
    BY <1>0, <1>1, <1>2 DEF Written
  <1>3. ASSUME NEW s \in Sessions, Open(s) \/ Lose(s) \/ Transmit(s) \/ Break(s) PROVE Goal
    BY <1>1, <1>3 DEF Open, Lose, Transmit, Break, ctxVars, threadVars, Written
  <1>4. ASSUME NEW t \in Senders, NEW s \in Sessions, NEW packet \in Real, Fill(t, s, packet)
        PROVE  Goal
    <2>1. PICK c \in Contexts :
            /\ Allocate(c)
            /\ ctxFor' = [ctxFor EXCEPT ![c] = s]
            /\ own' = [own EXCEPT ![c] = packet]
            /\ points' = [points EXCEPT ![c] = 0]
      BY <1>4 DEF Fill
    <2>2. shared' = shared /\ buf' = buf /\ at' = [at EXCEPT ![t] = "posting"]
      BY <1>4 DEF Fill
    <2>3. Envelope(c)'.packet = packet
      BY <1>0, <2>1 DEF Envelope
    <2>4. ASSUME NEW d \in 1 .. made, d # c PROVE Envelope(d)' = Envelope(d)
      BY <1>0, <2>1, <2>2, <2>4 DEF Envelope
    <2>5. \A d \in 1 .. made' : Envelope(d)'.packet \in Real
      BY <2>1, <2>3, <2>4, ContextWritten
    <2> QED
      BY <1>0, <2>2, <2>5 DEF Written
  <1>5. ASSUME NEW t \in Senders, NEW m \in Casts, BroadcastShared(t, m) PROVE Goal
    <2>1. /\ sends < MaxSends /\ shared' = [shared EXCEPT ![sends + 1] = MessagePacket(m)]
          /\ buf' = [buf EXCEPT ![t] = sends + 1] /\ at' = [at EXCEPT ![t] = "casting"]
          /\ UNCHANGED <<made, ctxFor, own, points>>
      BY <1>5 DEF BroadcastShared, ctxVars
    <2>2. /\ MessagePacket(m) \in Real /\ sends + 1 \in Buffers /\ sends + 1 # 0
          /\ \A b \in 0 .. sends : b # 0 => b \in Buffers /\ b # sends + 1
      BY <1>0, <2>1 DEF Real, Buffers
    <2>3. /\ shared'[sends + 1] \in Real
          /\ \A b \in 0 .. sends : b # 0 => shared'[b] = shared[b]
      BY <1>0, <2>1, <2>2
    <2>4. \A c \in 1 .. made : Envelope(c)' = Envelope(c)
      BY <1>0, <2>1, <2>3 DEF Envelope
    <2>5. \A u \in Senders : /\ buf'[u] = IF u = t THEN sends + 1 ELSE buf[u]
                             /\ at'[u] = IF u = t THEN "casting" ELSE at[u]
      BY <1>0, <2>1
    <2> QED
      BY <1>0, <2>1, <2>2, <2>3, <2>4, <2>5 DEF Written
  <1>6. ASSUME NEW t \in Senders, NEW s \in Sessions, SendShared(t, s) PROVE Goal
    <2>1. PICK c \in Contexts :
            /\ Allocate(c)
            /\ ctxFor' = [ctxFor EXCEPT ![c] = s]
            /\ points' = [points EXCEPT ![c] = buf[t]]
      BY <1>6 DEF SendShared
    <2>2. /\ shared' = shared /\ buf' = buf /\ own' = own /\ at[t] = "casting"
          /\ at' = [at EXCEPT ![t] = "posting"]
      BY <1>6 DEF SendShared
    <2>3. Envelope(c)'.packet = shared[buf[t]] /\ shared[buf[t]] \in Real
      BY <1>0, <2>1, <2>2 DEF Envelope, Written
    <2>4. ASSUME NEW d \in 1 .. made, d # c PROVE Envelope(d)' = Envelope(d)
      BY <1>0, <2>1, <2>2, <2>4 DEF Envelope
    <2>5. \A d \in 1 .. made' : Envelope(d)'.packet \in Real
      BY <2>1, <2>3, <2>4, ContextWritten
    <2> QED
      BY <1>0, <2>2, <2>5 DEF Written
  <1>7. ASSUME NEW t \in Senders, EndBroadcast(t) PROVE Goal
    <2>1. /\ UNCHANGED <<made, ctxFor, own, points, shared>>
          /\ at' = [at EXCEPT ![t] = "idle"] /\ buf' = [buf EXCEPT ![t] = 0]
      BY <1>7 DEF EndBroadcast, ctxVars
    <2>2. \A u \in Senders : /\ at'[u] = IF u = t THEN "idle" ELSE at[u]
                             /\ buf'[u] = IF u = t THEN 0 ELSE buf[u]
      BY <1>0, <2>1
    <2>3. \A c \in 1 .. made : Envelope(c)' = Envelope(c)
      BY <2>1 DEF Envelope
    <2> QED
      BY <2>1, <2>2, <2>3 DEF Written
  <1>8. ASSUME NEW t \in Senders, NEW s \in Sessions, SkipMember(t, s) PROVE Goal
    BY <1>1, <1>8 DEF SkipMember, ctxVars, Written
  <1>9. ASSUME NEW t \in Senders, SerializeFails(t) \/ PostSend(t) PROVE Goal
    <2>1. CASE PostSendReads(t)
      <3>1. /\ at' = [at EXCEPT ![t] = "calling"]
            /\ UNCHANGED <<made, ctxFor, own, points, shared, buf>>
        BY <2>1 DEF PostSendReads, ctxVars
      <3>2. \A u \in Senders : at'[u] = "casting" => buf[u] # 0
        BY <1>0, <3>1 DEF Written
      <3> QED
        BY <1>1, <3>1, <3>2
    <2>2. CASE SerializeFails(t) \/ PostSendGivesUp(t) \/ WSASendAccepts(t) \/ WSASendFails(t)
      BY <1>2, <2>2
      DEF SerializeFails, PostSendGivesUp, WSASendAccepts, WSASendFails, Returns, Deallocate, ctxVars
    <2> QED
      BY <1>9, <2>1, <2>2 DEF PostSend
  <1>10. ASSUME NEW c \in Contexts, Completes(c) PROVE Goal
    BY <1>1, <1>10 DEF Completes, SendCompletes, SendAborted, Deallocate, threadVars, Written
  <1>11. CASE UNCHANGED vars
    BY <1>1, <1>11 DEF vars, ctxVars, threadVars, Written
  <1>12. ASSUME NEW t \in Senders, NEW s \in Sessions, NEW m \in Outgoing, SendInternal(t, s, m)
         PROVE  Goal
    <2>1. MessagePacket(m) \in Real
      BY <1>12 DEF SendInternal, Real
    <2> QED
      BY <1>4, <1>12, <2>1 DEF SendInternal
  <1>13. ASSUME NEW t \in Senders, NEW s \in Sessions, NEW p \in Raws, SendRaw(t, s, p)
         PROVE  Goal
    <2>1. p \in Real
      BY DEF Real
    <2> QED
      BY <1>4, <1>13, <2>1 DEF SendRaw
  <1>14. Goal
    BY <1>3, <1>5, <1>6, <1>7, <1>8, <1>9, <1>10, <1>11, <1>12, <1>13 DEF Next, Broadcasts
  <1> QED
    BY <1>14

LEMMA NextWritten == IInv /\ Written /\ [Next]_vars => Written'
  <1> SUFFICES ASSUME IInv, Written, [Next]_vars PROVE Written'
    OBVIOUS
  <1>1. ASSUME NEW s \in Sessions, NEW i \in DOMAIN posted'[s]
        PROVE  posted'[s][i].packet \in Real
    <2>1. CASE posted'[s] = posted[s]
      BY <1>1, <2>1 DEF Written
    <2>2. CASE Accepts(s)
      <3>1. PICK c \in 1 .. made : posted'[s] = Append(posted[s], Letter(c))
        BY <2>2 DEF Accepts
      <3>2. Letter(c).packet \in Real /\ Letter(c) \in Letters
        BY BufferAlive, LetterType DEF Written
      <3>3. posted[s] \in Seq(Letters)
        BY DEF IInv, TypeOK
      <3>4. /\ i \in 1 .. Len(posted[s]) \/ i = Len(posted[s]) + 1
            /\ i \in 1 .. Len(posted[s]) => posted'[s][i] = posted[s][i] /\ i \in DOMAIN posted[s]
            /\ i = Len(posted[s]) + 1 => posted'[s][i] = Letter(c)
        BY <3>1, <3>2, <3>3
      <3> QED
        BY <3>2, <3>4 DEF Written
    <2> QED
      BY <2>1, <2>2, ConnectionStep DEF Rests, GivesUp, Delivers
  <1> QED
    BY <1>1, BuffersWritten DEF Written

LEMMA WrittenInvariant == Spec => []Written
  BY InitWritten, NextWritten, Invariant, PTL DEF Spec

\* What goes out was posted, so it was written by Send, SendRaw or BroadcastShared.
LEMMA GotReal ==
    ASSUME IInv, Ordered, Written, NEW s \in Sessions, NEW i \in DOMAIN got[s]
    PROVE  got[s][i].packet \in Real
  <1> DEFINE g == got[s]
             w == Waiting(s)
             p == posted[s]
  <1>1. g \in Seq(Letters) /\ w \in Seq(Letters) /\ p \in Seq(Letters)
    BY WaitingType DEF WaitingTyped
  <1>2. IsPrefix(g \o w, p)
    BY DEF Ordered, Intact, Waiting
  <1>3. IsPrefix(g, p)
    <2>1. g \o << >> = g
      BY <1>1
    <2> QED
      BY <1>1, <1>2, <2>1, PrefixFirst
  <1>4. Len(g) <= Len(p) /\ \A j \in 1 .. Len(g) : g[j] = p[j]
    BY <1>1, <1>3, PrefixIs
  <1>5. i \in 1 .. Len(g) /\ i \in DOMAIN p
    BY <1>1, <1>4
  <1> QED
    BY <1>4, <1>5 DEF Written

LEMMA RealDecodes ==
    ASSUME CodecRight, CastsFit, NEW p \in Real \ Raws
    PROVE  /\ p.packetSize = WireSize(p.payload)
           /\ \E m \in Outgoing \cup Casts :
                PacketID[m.of] = p.packetId /\ Parse(m.of, p.payload) = [ok |-> TRUE, m |-> m]
  <1>1. PICK m \in {m \in Outgoing : HeaderSize + ByteSizeLong(m) <= MAX_BUF_SIZE} \cup Casts :
            p = MessagePacket(m)
    BY DEF Real
  <1>2. m \in Outgoing \cup Casts
    OBVIOUS
  <1>3. /\ ByteSizeLong(m) \in Nat /\ ByteSizeLong(m) = WireSize(Serialize(m))
        /\ Parse(m.of, Serialize(m)) = [ok |-> TRUE, m |-> m]
    BY <1>2 DEF CodecRight
  <1>4. ByteSizeLong(m) < 65536
    BY <1>1, <1>3 DEF CastsFit, HeaderSize, MAX_BUF_SIZE
  <1>5. ByteSizeLong(m) % 65536 = ByteSizeLong(m)
    BY <1>3, <1>4
  <1>6. /\ p.packetId = PacketID[m.of] /\ p.packetSize = ByteSizeLong(m)
        /\ p.payload = Serialize(m)
    BY <1>1, <1>5 DEF MessagePacket, Packet
  <1> QED
    BY <1>2, <1>3, <1>6

\* A client reads from every packet the message that was sent, if the codec is
\* right on the messages and the broadcasts are below 65536 bytes: sharing and
\* reusing buffers, the pool and the races of closing add no way to garble one.
THEOREM ClientsDecode == CodecRight /\ CastsFit => (Spec => []DecodesAsSent)
  <1> SUFFICES ASSUME CodecRight, CastsFit PROVE Spec => []DecodesAsSent
    OBVIOUS
  <1>1. IInv /\ Ordered /\ Written => DecodesAsSent
    BY GotReal, RealDecodes DEF DecodesAsSent
  <1> QED
    BY <1>1, Invariant, OrderInvariant, WrittenInvariant, PTL
=============================================================================
