------------------------- MODULE AuthServiceProofs --------------------------
(***************************************************************************)
(* AuthService's safety for every number of workers and requests.          *)
(***************************************************************************)
EXTENDS AuthService, FiniteSetTheorems, TLAPS

InHand == {job[w] : w \in Serving}

\* No request disappears, and only requests that were asked for are around.
Accounted == asked = Queued \cup InHand \cup answered

\* A worker leaves only after m_running was cleared and with an empty queue,
\* and nothing is pushed from then on; nor when some workers could not be created.
LeavesLast ==
    /\ running => stopping \in {"no", "thrown"}
    /\ ~running /\ stopping = "no" => \A w \in Workers : at[w] = "done"
    /\ stopping = "thrown" => running /\ queue = <<>>
    /\ \A w \in Workers : at[w] = "done" => queue = <<>> /\ (running => stopping = "thrown")
    /\ stopping = "stopped" => \A w \in Workers : at[w] = "done"

IInv == TypeOK /\ OneCallbackEach /\ Accounted /\ LeavesLast

\* What Append and Tail do to the set of queued requests.
LEMMA AppendQueued ==
    ASSUME NEW s \in Seq(Requests), NEW q \in Requests
    PROVE  LET t == Append(s, q)
           IN  /\ t \in Seq(Requests)
               /\ {t[i] : i \in DOMAIN t} = {s[i] : i \in DOMAIN s} \cup {q}
               /\ (/\ \A i, j \in DOMAIN s : i # j => s[i] # s[j]
                   /\ q \notin {s[i] : i \in DOMAIN s})
                  => \A i, j \in DOMAIN t : i # j => t[i] # t[j]
  <1> DEFINE t == Append(s, q)
  <1>1. t \in Seq(Requests) /\ Len(t) = Len(s) + 1 /\ Len(s) \in Nat
    OBVIOUS
  <1>2. DOMAIN s = 1 .. Len(s) /\ DOMAIN t = 1 .. Len(s) + 1
    BY <1>1
  <1>3. \A i \in 1 .. Len(s) : t[i] = s[i]
    BY <1>1
  <1>4. t[Len(s) + 1] = q
    BY <1>1
  <1> HIDE DEF t
  <1>5. \A i \in 1 .. Len(s) + 1 : i \in 1 .. Len(s) \/ i = Len(s) + 1
    BY <1>1
  <1>6. 1 .. Len(s) \subseteq 1 .. Len(s) + 1 /\ Len(s) + 1 \in 1 .. Len(s) + 1
    BY <1>1
  <1>7. {t[i] : i \in DOMAIN t} = {s[i] : i \in DOMAIN s} \cup {q}
    BY <1>2, <1>3, <1>4, <1>5, <1>6
  <1>8. ASSUME \A i, j \in DOMAIN s : i # j => s[i] # s[j],
               q \notin {s[i] : i \in DOMAIN s},
               NEW i \in DOMAIN t, NEW j \in DOMAIN t, i # j
        PROVE  t[i] # t[j]
    BY <1>2, <1>3, <1>4, <1>5, <1>8
  <1> QED
    BY <1>1, <1>7, <1>8 DEF t

LEMMA TailQueued ==
    ASSUME NEW s \in Seq(Requests), s # <<>>,
           \A i, j \in DOMAIN s : i # j => s[i] # s[j]
    PROVE  /\ Tail(s) \in Seq(Requests) /\ Head(s) \in Requests
           /\ Head(s) \in {s[i] : i \in DOMAIN s}
           /\ LET t == Tail(s)
              IN  /\ {t[i] : i \in DOMAIN t} = {s[i] : i \in DOMAIN s} \ {Head(s)}
                  /\ \A i, j \in DOMAIN t : i # j => t[i] # t[j]
  <1> DEFINE t == Tail(s)
             n == Len(s)
  <1>1. /\ t \in Seq(Requests) /\ Len(t) = n - 1 /\ n \in Nat /\ n >= 1
        /\ Head(s) = s[1] /\ Head(s) \in Requests
    OBVIOUS
  <1>2. DOMAIN s = 1 .. n /\ DOMAIN t = 1 .. n - 1
    BY <1>1
  <1>3. \A i \in 1 .. n - 1 : t[i] = s[i + 1]
    BY <1>1
  <1> HIDE DEF t, n
  <1>4. /\ \A i \in 1 .. n - 1 : i + 1 \in 1 .. n /\ i + 1 # 1
        /\ \A i \in 1 .. n : i = 1 \/ (i - 1 \in 1 .. n - 1 /\ (i - 1) + 1 = i)
        /\ \A i, j \in 1 .. n - 1 : i # j => i + 1 # j + 1
        /\ 1 \in 1 .. n
    BY <1>1
  <1>5. ASSUME NEW x PROVE x \in {t[i] : i \in DOMAIN t} <=>
                           x \in {s[i] : i \in DOMAIN s} /\ x # Head(s)
    <2>1. ASSUME NEW i \in 1 .. n - 1, x = t[i]
          PROVE  x \in {s[k] : k \in DOMAIN s} /\ x # Head(s)
      BY <1>1, <1>2, <1>3, <1>4, <2>1
    <2>2. ASSUME NEW i \in 1 .. n, x = s[i], x # Head(s)
          PROVE  x \in {t[k] : k \in DOMAIN t}
      <3>1. i - 1 \in 1 .. n - 1 /\ t[i - 1] = s[i]
        <4>1. i # 1
          BY <1>1, <2>2
        <4> QED
          BY <1>3, <1>4, <4>1
      <3> QED
        BY <1>2, <2>2, <3>1
    <2> QED
      BY <1>2, <2>1, <2>2
  <1>6. \A i, j \in DOMAIN t : i # j => t[i] # t[j]
    BY <1>2, <1>3, <1>4
  <1> QED
    BY <1>1, <1>2, <1>4, <1>5, <1>6 DEF t

LEMMA InitIInv == Init => IInv
  <1> SUFFICES ASSUME Init PROVE IInv
    OBVIOUS
  <1>1. TypeOK
    <2>1. running \in BOOLEAN
      BY Zenon DEF Init
    <2> QED
      BY <2>1 DEF Init, TypeOK, Places
  <1>2. Queued = {} /\ Serving = {} /\ InHand = {}
    BY DEF Init, Queued, Serving, InHand
  <1> QED
    BY <1>1, <1>2 DEF Init, IInv, OneCallbackEach, Accounted, LeavesLast

\* Steps that move no request.
LEMMA NoRequestMoves ==
    ASSUME IInv, TypeOK', UNCHANGED <<queue, asked, answered, job>>, Serving' = Serving
    PROVE  OneCallbackEach' /\ Accounted'
  BY DEF IInv, OneCallbackEach, Accounted, Queued, InHand

LEMMA ValidateKeeps ==
    ASSUME IInv, NEW q \in Requests, ValidateAsync(q)
    PROVE  IInv'
  <1>1. q \notin Queued /\ q \notin InHand /\ q \notin answered
    BY DEF ValidateAsync, IInv, Accounted
  <1>2. /\ queue \in Seq(Requests) /\ queue' = Append(queue, q)
        /\ UNCHANGED <<answered, running, stopping, at, job>>
        /\ asked' = asked \cup {q} /\ signals' = signals + 1 /\ running /\ stopping # "thrown"
    BY DEF ValidateAsync, IInv, TypeOK
  <1>3. /\ queue' \in Seq(Requests) /\ Queued' = Queued \cup {q}
        /\ \A i, j \in DOMAIN queue' : i # j => queue'[i] # queue'[j]
    BY <1>1, <1>2, AppendQueued DEF Queued, IInv, OneCallbackEach
  <1>4. Serving' = Serving /\ InHand' = InHand
    BY <1>2 DEF Serving, InHand
  <1>5. TypeOK'
    BY <1>2, <1>3 DEF IInv, TypeOK
  <1>6. OneCallbackEach' /\ Accounted'
    BY <1>1, <1>2, <1>3, <1>4 DEF IInv, OneCallbackEach, Accounted, InHand
  <1>7. LeavesLast'
    BY <1>2 DEF IInv, LeavesLast
  <1> QED
    BY <1>5, <1>6, <1>7 DEF IInv

LEMMA TakeKeeps ==
    ASSUME IInv, NEW w \in Workers, WorkerTakes(w)
    PROVE  IInv'
  <1> DEFINE q == Head(queue)
  <1>1. /\ queue \in Seq(Requests) /\ queue # <<>> /\ queue' = Tail(queue)
        /\ at[w] = "loop" /\ at' = [at EXCEPT ![w] = "serving"] /\ job' = [job EXCEPT ![w] = q]
        /\ UNCHANGED <<asked, answered, signals, running, stopping>>
    BY DEF WorkerTakes, IInv, TypeOK
  <1>2. /\ queue' \in Seq(Requests) /\ q \in Requests /\ q \in Queued
        /\ Queued' = Queued \ {q}
        /\ \A i, j \in DOMAIN queue' : i # j => queue'[i] # queue'[j]
    BY <1>1, TailQueued DEF Queued, IInv, OneCallbackEach
  <1> HIDE DEF q
  <1>3. TypeOK'
    BY <1>1, <1>2 DEF IInv, TypeOK, Places
  <1>4. /\ w \notin Serving /\ Serving' = Serving \cup {w}
        /\ job'[w] = q /\ \A v \in Serving : job'[v] = job[v]
    BY <1>1 DEF Serving, IInv, TypeOK
  <1>5. InHand' = InHand \cup {q}
    BY <1>4 DEF InHand
  <1>6. OneCallbackEach' /\ Accounted'
    BY <1>1, <1>2, <1>4, <1>5 DEF IInv, OneCallbackEach, Accounted
  <1>7. LeavesLast'
    BY <1>1 DEF IInv, TypeOK, LeavesLast
  <1> QED
    BY <1>3, <1>6, <1>7 DEF IInv

LEMMA AnswerKeeps ==
    ASSUME IInv, NEW w \in Workers, WorkerAnswers(w)
    PROVE  IInv'
  <1>1. /\ at[w] = "serving" /\ at' = [at EXCEPT ![w] = "loop"]
        /\ answered' = answered \cup {job[w]}
        /\ UNCHANGED <<queue, asked, signals, running, stopping, job>>
    BY DEF WorkerAnswers
  <1>2. TypeOK'
    BY <1>1 DEF IInv, TypeOK, Places
  <1>3. w \in Serving /\ Serving' = Serving \ {w} /\ Queued' = Queued
    BY <1>1 DEF Serving, Queued, IInv, TypeOK
  <1>4. InHand' = InHand \ {job[w]} /\ job[w] \in InHand
    BY <1>1, <1>3 DEF InHand, IInv, OneCallbackEach
  <1>5. OneCallbackEach' /\ Accounted'
    BY <1>1, <1>3, <1>4 DEF IInv, OneCallbackEach, Accounted
  <1>6. LeavesLast'
    BY <1>1 DEF IInv, TypeOK, LeavesLast
  <1> QED
    BY <1>2, <1>5, <1>6 DEF IInv

\* The steps that move workers between the loop and the condition variable.
LEMMA WaitingKeeps ==
    ASSUME IInv,
           \/ NotifyOne
           \/ \E w \in Workers : WorkerWaits(w) \/ WorkerParks(w) \/ SpuriousWakeup(w)
           \/ StopNotifies
    PROVE  IInv'
  <1>1. /\ UNCHANGED <<queue, asked, answered, running, job>>
        /\ signals' \in Nat
        /\ \/ UNCHANGED stopping
           \/ stopping = "flagged" /\ stopping' = "joining"
    BY DEF NotifyOne, WorkerWaits, WorkerParks, SpuriousWakeup, StopNotifies, IInv, TypeOK
  <1>2. /\ at' \in [Workers -> Places]
        /\ \A w \in Workers : \/ at'[w] = at[w]
                              \/ /\ at[w] \in {"loop", "parking", "waiting"}
                                 /\ at'[w] \in {"loop", "parking", "waiting"}
    BY DEF NotifyOne, WorkerWaits, WorkerParks, SpuriousWakeup, StopNotifies, Waiting, IInv,
           TypeOK, Places
  <1>3. TypeOK'
    BY <1>1, <1>2 DEF IInv, TypeOK
  <1>4. Serving' = Serving
    BY <1>2 DEF Serving
  <1>5. LeavesLast'
    BY <1>1, <1>2 DEF IInv, LeavesLast
  <1> QED
    BY <1>1, <1>3, <1>4, <1>5, NoRequestMoves DEF IInv

LEMMA EndKeeps ==
    ASSUME IInv, \/ Start \/ (\E ws \in SUBSET Workers : StartThrowsAfter(ws))
                 \/ (\E w \in Workers : WorkerExits(w)) \/ StopFlags \/ StopJoins
    PROVE  IInv'
  <1>1. TypeOK' /\ UNCHANGED <<queue, asked, answered, job>>
    BY DEF Start, StartThrowsAfter, WorkerExits, StopFlags, StopJoins, IInv, TypeOK, Places
  <1>2. Serving' = Serving
    BY DEF Start, StartThrowsAfter, WorkerExits, StopFlags, StopJoins, IInv, TypeOK, LeavesLast, Serving
  <1>3. LeavesLast'
    <2>0. at \in [Workers -> Places] /\ LeavesLast
      BY DEF IInv, TypeOK
    <2>1. CASE Start \/ StopFlags \/ StopJoins
      BY <2>0, <2>1 DEF Start, StopFlags, StopJoins, LeavesLast
    <2>2. ASSUME NEW ws \in SUBSET Workers, StartThrowsAfter(ws) PROVE LeavesLast'
      <3>1. PICK w \in Workers : at[w] = "done"
        BY <2>0, <2>2, WorkersExist DEF StartThrowsAfter, LeavesLast
      <3> QED
        BY <2>0, <2>2, <3>1 DEF StartThrowsAfter, LeavesLast
    <2>3. ASSUME NEW w \in Workers, WorkerExits(w) PROVE LeavesLast'
      BY <2>0, <2>3 DEF WorkerExits, LeavesLast
    <2> QED
      BY <2>1, <2>2, <2>3
  <1> QED
    BY <1>1, <1>2, <1>3, NoRequestMoves DEF IInv

LEMMA NextIInv == IInv /\ [Next]_vars => IInv'
  <1> SUFFICES ASSUME IInv, [Next]_vars PROVE IInv'
    OBVIOUS
  <1>1. CASE UNCHANGED vars
    <2>1. TypeOK' /\ LeavesLast' /\ Serving' = Serving
      BY <1>1 DEF vars, IInv, TypeOK, LeavesLast, Serving
    <2> QED
      BY <1>1, <2>1, NoRequestMoves DEF vars, IInv
  <1> QED
    BY <1>1, ValidateKeeps, TakeKeeps, AnswerKeeps, WaitingKeeps, EndKeeps DEF Next, WorkerStep

LEMMA Invariance == Spec => []IInv
  BY InitIInv, NextIInv, PTL DEF Spec

\* Every variable keeps its type.
THEOREM TypeCorrect == Spec => []TypeOK
  <1>1. IInv => TypeOK
    BY DEF IInv
  <1> QED
    BY <1>1, Invariance, PTL

\* The callback of a validation runs at most once.
THEOREM CallbackOnce == Spec => []OneCallbackEach
  <1>1. IInv => OneCallbackEach
    BY DEF IInv
  <1> QED
    BY <1>1, Invariance, PTL

\* Stop() returns only when every validation has been answered.
THEOREM StopDrains == Spec => []StoppedDrained
  <1>1. IInv => StoppedDrained
    <2> SUFFICES ASSUME IInv, stopping = "stopped" PROVE asked \subseteq answered
      BY DEF StoppedDrained
    <2>1. queue = <<>> /\ \A w \in Workers : at[w] = "done"
      BY WorkersExist DEF IInv, LeavesLast
    <2>2. Queued = {} /\ InHand = {}
      BY <2>1 DEF Queued, InHand, Serving
    <2> QED
      BY <2>2 DEF IInv, Accounted
  <1> QED
    BY <1>1, Invariance, PTL

----------------------------------------------------------------------------
(* Wakeups.                                                                 *)

\* Nothing is pushed while a worker is about to wait.
ParksOnEmpty == \A w \in Workers : at[w] = "parking" => queue = <<>>

Awake == ParksOnEmpty /\ NoSleepWhileQueued

LEMMA LoopingFinite == IsFiniteSet(Looping) /\ Cardinality(Looping) \in Nat
  BY WorkersExist, FS_Subset, FS_CardinalityType DEF Looping

\* Nothing is queued, nobody stops looping, nobody begins to wait.
LEMMA StaysAwake ==
    ASSUME IInv, Awake, queue' = queue, at' \in [Workers -> Places], signals' = signals,
           Looping \subseteq Looping', Waiting' \subseteq Waiting, ParksOnEmpty'
    PROVE  Awake'
  <1>1. IsFiniteSet(Looping')
    BY WorkersExist, FS_Subset DEF Looping
  <1>2. Cardinality(Looping) <= Cardinality(Looping') /\ Cardinality(Looping') \in Nat
    BY <1>1, FS_Subset, FS_CardinalityType
  <1>3. Cardinality(Looping) \in Nat /\ signals \in Nat /\ Len(queue) \in Nat
    BY LoopingFinite DEF IInv, TypeOK
  <1>4. Waiting' # {} => Len(queue') <= signals' + Cardinality(Looping')
    BY <1>2, <1>3 DEF Awake, NoSleepWhileQueued
  <1> QED
    BY <1>4 DEF Awake, NoSleepWhileQueued

LEMMA InitAwake == Init => Awake
  BY DEF Init, Awake, ParksOnEmpty, NoSleepWhileQueued, Waiting

LEMMA NextAwake == IInv /\ Awake /\ [Next]_vars => Awake'
  <1> SUFFICES ASSUME IInv, Awake, [Next]_vars PROVE Awake'
    OBVIOUS
  <1>0. /\ at \in [Workers -> Places] /\ signals \in Nat /\ queue \in Seq(Requests)
        /\ Len(queue) \in Nat /\ LeavesLast /\ ParksOnEmpty
        /\ IsFiniteSet(Looping) /\ Cardinality(Looping) \in Nat
    BY LoopingFinite DEF IInv, TypeOK, Awake
  <1>1. CASE Start \/ \E ws \in SUBSET Workers : StartThrowsAfter(ws)
    <2>1. \A w \in Workers : at'[w] \in {"loop", "done"}
      BY <1>1 DEF Start, StartThrowsAfter, IInv, LeavesLast
    <2>2. Waiting' = {}
      BY <2>1 DEF Waiting
    <2> QED
      BY <2>1, <2>2 DEF Awake, ParksOnEmpty, NoSleepWhileQueued
  <1>2. ASSUME NEW q \in Requests, ValidateAsync(q) PROVE Awake'
    <2>1. /\ queue' = Append(queue, q) /\ signals' = signals + 1 /\ at' = at /\ ~Locked
      BY <1>2 DEF ValidateAsync
    <2>2. Waiting' = Waiting /\ Looping' = Looping /\ Len(queue') = Len(queue) + 1
      BY <1>0, <2>1 DEF Waiting, Looping
    <2>3. ParksOnEmpty'
      BY <2>1 DEF Locked, ParksOnEmpty
    <2>4. NoSleepWhileQueued'
      BY <1>0, <2>1, <2>2 DEF Awake, NoSleepWhileQueued
    <2> QED
      BY <2>3, <2>4 DEF Awake
  <1>3. CASE NotifyOne
    <2>0. /\ signals > 0 /\ signals' = signals - 1 /\ queue' = queue
      BY <1>3 DEF NotifyOne
    <2>1. CASE Waiting = {} /\ UNCHANGED at
      <3>1. Waiting' = {}
        BY <2>1 DEF Waiting
      <3> QED
        BY <1>0, <2>0, <2>1, <3>1 DEF Awake, ParksOnEmpty, NoSleepWhileQueued
    <2>2. ASSUME NEW w \in Waiting, at' = [at EXCEPT ![w] = "loop"] PROVE Awake'
      <3>1. w \in Workers /\ at[w] = "waiting" /\ w \notin Looping /\ Waiting # {}
        BY DEF Waiting, Looping
      <3>2. Looping' = Looping \cup {w}
        BY <1>0, <2>2, <3>1 DEF Looping
      <3>3. Cardinality(Looping') = Cardinality(Looping) + 1
        BY <1>0, <3>1, <3>2, FS_AddElement
      <3>4. ParksOnEmpty'
        BY <1>0, <2>0, <2>2, <3>1 DEF ParksOnEmpty
      <3>5. Len(queue') <= signals' + Cardinality(Looping')
        BY <1>0, <2>0, <3>1, <3>3 DEF Awake, NoSleepWhileQueued
      <3> QED
        BY <3>4, <3>5 DEF Awake, NoSleepWhileQueued
    <2> QED
      BY <1>3, <2>1, <2>2 DEF NotifyOne
  <1>4. ASSUME NEW w \in Workers, WorkerWaits(w) \/ WorkerParks(w) \/ WorkerExits(w)
        PROVE  Awake'
    <2>1. queue = <<>> /\ queue' = queue /\ signals' = signals
      BY <1>0, <1>4 DEF WorkerWaits, WorkerParks, WorkerExits, ParksOnEmpty
    <2>2. Cardinality(Looping') \in Nat
      BY WorkersExist, FS_Subset, FS_CardinalityType DEF Looping
    <2>3. Len(queue') = 0
      BY <2>1
    <2> QED
      BY <1>0, <2>1, <2>2, <2>3 DEF Awake, ParksOnEmpty, NoSleepWhileQueued
  <1>5. ASSUME NEW w \in Workers, WorkerTakes(w) PROVE Awake'
    <2>1. /\ at[w] = "loop" /\ queue # <<>> /\ queue' = Tail(queue)
          /\ at' = [at EXCEPT ![w] = "serving"] /\ signals' = signals /\ ~Locked
      BY <1>5 DEF WorkerTakes
    <2>2. Len(queue') = Len(queue) - 1
      BY <1>0, <2>1
    <2>3. Looping' = Looping \ {w} /\ w \in Looping /\ Waiting' = Waiting
      BY <1>0, <2>1 DEF Looping, Waiting
    <2>4. Cardinality(Looping') = Cardinality(Looping) - 1
      BY <1>0, <2>3, FS_RemoveElement
    <2>5. ParksOnEmpty'
      BY <1>0, <2>1 DEF ParksOnEmpty, Locked
    <2>6. NoSleepWhileQueued'
      BY <1>0, <2>1, <2>2, <2>3, <2>4 DEF Awake, NoSleepWhileQueued
    <2> QED
      BY <2>5, <2>6 DEF Awake
  <1>6. ASSUME NEW w \in Workers, SpuriousWakeup(w) \/ WorkerAnswers(w) PROVE Awake'
    <2>1. /\ at[w] \in {"waiting", "serving"} /\ at' = [at EXCEPT ![w] = "loop"]
          /\ queue' = queue /\ signals' = signals
      BY <1>6 DEF SpuriousWakeup, WorkerAnswers
    <2>2. at' \in [Workers -> Places] /\ Looping \subseteq Looping' /\ Waiting' \subseteq Waiting
      BY <1>0, <2>1 DEF Looping, Waiting, Places
    <2>3. ParksOnEmpty'
      BY <1>0, <2>1 DEF ParksOnEmpty
    <2> QED
      BY <2>1, <2>2, <2>3, StaysAwake
  <1>7. CASE StopFlags \/ StopJoins \/ UNCHANGED vars
    <2>1. UNCHANGED <<at, queue, signals>>
      BY <1>7 DEF StopFlags, StopJoins, vars
    <2> QED
      BY <2>1 DEF Awake, ParksOnEmpty, NoSleepWhileQueued, Waiting, Looping
  <1>8. CASE StopNotifies
    <2>1. /\ at' = [w \in Workers |-> IF w \in Waiting THEN "loop" ELSE at[w]]
          /\ queue' = queue /\ signals' = signals
      BY <1>8 DEF StopNotifies
    <2>2. Waiting' = {}
      BY <2>1 DEF Waiting
    <2>3. ParksOnEmpty'
      BY <1>0, <2>1 DEF ParksOnEmpty
    <2> QED
      BY <2>2, <2>3 DEF Awake, NoSleepWhileQueued
  <1> QED
    BY <1>1, <1>2, <1>3, <1>4, <1>5, <1>6, <1>7, <1>8 DEF Next, WorkerStep

\* No worker stays blocked while a validation is in the queue that nobody has been
\* woken for, for every number of workers and requests: the safety half of
\* EveryRequestAnswered.
THEOREM NoWakeupLost == Spec => []NoSleepWhileQueued
  <1>1. Awake => NoSleepWhileQueued
    BY DEF Awake
  <1>2. Spec => []Awake
    BY InitAwake, NextAwake, Invariance, PTL DEF Spec
  <1> QED
    BY <1>1, <1>2, PTL
=============================================================================
