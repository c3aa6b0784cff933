------------------------- MODULE RateLimiterProofs --------------------------
(***************************************************************************)
(* CheckRateLimit lies between two exact token buckets, for every rate and *)
(* every resolution of the clock.  The products of variables are kept      *)
(* apart: the lemmas on arithmetic are the only places that multiply out.  *)
(***************************************************************************)
EXTENDS RateLimiter, TLAPS

\* What the code's bucket is worth in units of tokens / PerSecond, the time
\* that has not been turned into tokens yet included.
Worth == PerSecond * tokens + elapsed * RatePerSec

\* The exact bucket of the configured rate is behind by less than a token.
FullCovers ==
    full >= Lower(PerSecond * rateBurst, Worth - (PerSecond - 1))

\* The exact bucket of half the rate is never ahead.
HalfCovered ==
    half <= Lower(2 * (PerSecond * rateBurst), Worth + PerSecond * tokens)

IInv ==
    /\ TypeOK
    /\ NeverAhead
    /\ verdict => tokens >= 0 /\ FullCovers /\ HalfCovered

----------------------------------------------------------------------------
(* Arithmetic.                                                              *)

LEMMA ProductNat ==
    ASSUME NEW a \in Nat, NEW b \in Nat
    PROVE  a * b \in Nat
OBVIOUS

LEMMA Distribute ==
    ASSUME NEW a \in Int, NEW b \in Int, NEW c \in Int
    PROVE  /\ c * (a + b) = c * a + c * b
           /\ (a + b) * c = a * c + b * c
           /\ c * (a - 1) = c * a - c
OBVIOUS

LEMMA Monotone ==
    ASSUME NEW a \in Int, NEW b \in Int, NEW c \in Nat, a <= b
    PROVE  c * a <= c * b
<1>1. PICK d \in Nat : b = a + d
  <2>1. b - a \in Nat /\ b = a + (b - a)
    OBVIOUS
  <2> QED BY <2>1
<1>2. c * b = c * a + c * d
  BY <1>1, Distribute
<1>3. c * d \in Nat
  BY ProductNat
<1> QED BY <1>2, <1>3

LEMMA Division ==
    ASSUME NEW n \in Nat, NEW p \in Nat \ {0}
    PROVE  /\ n \div p \in Nat
           /\ p * (n \div p) <= n
           /\ n < p * (n \div p) + p
OBVIOUS

\* The refill is the whole number of tokens that elapsed is worth.
LEMMA RefillWhole ==
    ASSUME elapsed \in Nat
    PROVE  /\ Refill \in Nat
           /\ PerSecond * Refill <= elapsed * RatePerSec
           /\ elapsed * RatePerSec < PerSecond * Refill + PerSecond
<1>1. rateBurst \div 2 = RatePerSec
  BY RateType DEF rateBurst
<1>2. elapsed * RatePerSec \in Nat
  BY RateType, ProductNat
<1>3. Refill = (elapsed * RatePerSec) \div PerSecond
  BY <1>1 DEF Refill
<1> QED BY <1>2, <1>3, Division, ClockType

----------------------------------------------------------------------------
(* The invariant.                                                           *)

LEMMA InitInv == Init => IInv
<1> SUFFICES ASSUME Init PROVE IInv
  OBVIOUS
<1>1. rateBurst \in Nat
  BY RateType DEF rateBurst
<1>2. PerSecond * rateBurst \in Nat
  BY <1>1, ClockType, ProductNat
<1>3. half = 2 * (PerSecond * rateBurst)
  BY <1>1, ClockType DEF Init
<1>4. Worth = PerSecond * rateBurst
  BY <1>2, RateType DEF Init, Worth
<1>5. TypeOK /\ NeverAhead
  BY <1>1, <1>2, <1>3, ClockType DEF Init, TypeOK, NeverAhead
<1>6. FullCovers
  BY <1>2, <1>4, ClockType DEF Init, FullCovers, Lower
<1>7. HalfCovered
  BY <1>2, <1>3, <1>4 DEF Init, HalfCovered, Lower
<1> QED BY <1>1, <1>5, <1>6, <1>7 DEF Init, IInv

\* Time is worth as much to the code's bucket as to the exact ones.
LEMMA TimeInv ==
    ASSUME IInv, NEW d \in 1 .. MaxGap, TimePasses(d)
    PROVE  IInv'
<1> DEFINE b == PerSecond * rateBurst
           t == PerSecond * tokens
           g == d * RatePerSec
<1>1. rateBurst \in Nat /\ d \in Nat /\ elapsed \in Nat
  BY RateType, ClockType DEF rateBurst, IInv, TypeOK
<1>2. b \in Nat /\ g \in Nat
  BY <1>1, RateType, ClockType, ProductNat
<1>3. t \in Int /\ elapsed * RatePerSec \in Nat
  BY <1>1, RateType, ClockType, ProductNat DEF IInv, TypeOK
<1>4. Worth' = Worth + g
  <2>1. (elapsed + d) * RatePerSec = elapsed * RatePerSec + g
    BY <1>1, RateType, Distribute
  <2> HIDE DEF g, t
  <2>2. Worth' = t + (elapsed + d) * RatePerSec
    BY DEF Worth, TimePasses, t
  <2> QED BY <2>1, <2>2, <1>2, <1>3 DEF Worth, t
<1>5. Worth \in Int
  BY <1>3 DEF Worth
<1>6. full' = Lower(b, full + g) /\ half' = Lower(2 * b, half + g)
  BY <1>1, ClockType DEF TimePasses
<1>7. PerSecond * tokens' = t /\ verdict' = verdict /\ tokens' = tokens
  BY DEF TimePasses
<1> HIDE DEF b, t, g
<1>8. TypeOK'
  BY <1>1, <1>2, <1>6, <1>7, ClockType DEF IInv, TypeOK, TimePasses, Lower
<1>9. NeverAhead'
  BY <1>2, <1>6, ClockType DEF IInv, TypeOK, NeverAhead, Lower
<1>10. FullCovers'
  <2>1. FullCovers /\ full \in Int
    BY DEF IInv, TypeOK, TimePasses
  <2>2. full >= Lower(b, Worth - (PerSecond - 1))
    BY <2>1 DEF FullCovers, b
  <2>3. full' >= Lower(b, Worth' - (PerSecond - 1))
    BY <2>1, <2>2, <1>2, <1>4, <1>5, <1>6, ClockType DEF Lower
  <2> QED BY <2>3 DEF FullCovers, b
<1>11. HalfCovered'
  <2>1. HalfCovered /\ half \in Int
    BY DEF IInv, TypeOK, TimePasses
  <2>2. half <= Lower(2 * b, Worth + t)
    BY <2>1 DEF HalfCovered, b, t
  <2>3. half' <= Lower(2 * b, Worth' + t)
    BY <2>1, <2>2, <1>2, <1>3, <1>4, <1>5, <1>6 DEF Lower
  <2> QED BY <2>3, <1>7 DEF HalfCovered, b
<1> QED BY <1>7, <1>8, <1>9, <1>10, <1>11 DEF IInv

\* The two buckets before the fetch_sub: the refill keeps the code's bucket
\* between the exact ones.
LEMMA RefillBetween ==
    ASSUME IInv, verdict
    PROVE  /\ Refilled \in 0 .. rateBurst
           /\ SinceRefill \in 0 .. elapsed
           /\ SinceRefill * RatePerSec \in 0 .. PerSecond - 1
           /\ full >= PerSecond * Refilled + SinceRefill * RatePerSec - (PerSecond - 1)
           /\ half <= PerSecond * Refilled + SinceRefill * RatePerSec + PerSecond * Refilled
<1> DEFINE b == PerSecond * rateBurst
           t == PerSecond * tokens
           e == elapsed * RatePerSec
           f == PerSecond * Refill
<1>1. rateBurst \in Nat /\ tokens \in 0 .. rateBurst /\ elapsed \in Nat
  <2>1. TypeOK /\ tokens >= 0
    BY Zenon DEF IInv
  <2> QED BY <2>1, RateType DEF rateBurst, TypeOK
<1>2. Refill \in Nat /\ f <= e /\ e < f + PerSecond
  BY <1>1, RefillWhole
<1>3. b \in Nat /\ t \in Nat /\ e \in Nat /\ f \in Nat
  BY <1>1, <1>2, RateType, ClockType, ProductNat
<1>4. full \in Int /\ half \in Int
  BY DEF IInv, TypeOK
<1>5. full >= Lower(b, t + e - (PerSecond - 1)) /\ half <= Lower(2 * b, t + e + t)
  <2>1. FullCovers /\ HalfCovered
    BY Zenon DEF IInv
  <2>2. Worth = t + e
    BY DEF Worth
  <2> HIDE DEF t, e
  <2>3. full >= Lower(b, t + e - (PerSecond - 1))
    BY <2>1, <2>2, <1>3, <1>4, ClockType DEF FullCovers, Lower
  <2>4. half <= Lower(2 * b, t + e + t)
    BY <2>1, <2>2, <1>3, <1>4 DEF HalfCovered, Lower, t
  <2> QED BY <2>3, <2>4
<1>6. t <= b
  BY <1>1, ClockType, Monotone
<1>7. CASE Refill > 0
  <2>1. PerSecond <= f
    <3>1. PerSecond * 1 <= f
      BY <1>2, <1>7, ClockType, Monotone
    <3> QED BY <3>1, ClockType
  <2>2. SinceRefill = 0 /\ 0 * RatePerSec = 0
    BY <1>7, RateType DEF SinceRefill
  <2>3. Refilled = Lower(rateBurst, tokens + Refill)
    BY <1>7 DEF Refilled
  <2>4. Refilled \in 0 .. rateBurst
    BY <2>3, <1>1, <1>2 DEF Lower
  <2>5. PerSecond * (tokens + Refill) = t + f
    BY <1>1, <1>2, ClockType, Distribute
  <2>6. PerSecond * Refilled = b \/ PerSecond * Refilled = t + f
    BY <2>3, <2>5 DEF Lower
  <2>7. PerSecond * Refilled <= b /\ PerSecond * Refilled <= t + f
    <3>1. Refilled <= rateBurst /\ Refilled <= tokens + Refill
      BY <2>3, <1>1, <1>2 DEF Lower
    <3>2. PerSecond * Refilled <= b
      BY <3>1, <2>4, <1>1, ClockType, Monotone
    <3>3. PerSecond * Refilled <= PerSecond * (tokens + Refill)
      BY <3>1, <2>4, <1>1, <1>2, ClockType, Monotone
    <3> QED BY <3>2, <3>3, <2>5
  <2>8. PerSecond * Refilled + SinceRefill * RatePerSec = PerSecond * Refilled
    BY <2>2, <2>4, <1>1, ClockType, ProductNat
  <2> HIDE DEF b, t, e, f
  <2>9. full >= PerSecond * Refilled - (PerSecond - 1)
    BY <2>6, <2>7, <1>2, <1>3, <1>4, <1>5, ClockType DEF Lower
  <2>10. half <= PerSecond * Refilled + PerSecond * Refilled
    BY <2>1, <2>6, <1>2, <1>3, <1>4, <1>5, ClockType DEF Lower
  <2> QED BY <2>2, <2>4, <2>8, <2>9, <2>10, <1>1, ClockType
<1>8. CASE Refill = 0
  <2>1. Refilled = tokens /\ SinceRefill = elapsed
    BY <1>8 DEF Refilled, SinceRefill
  <2>2. f = 0
    BY <1>8, ClockType
  <2> HIDE DEF b, t, e, f
  <2>3. e \in 0 .. PerSecond - 1
    BY <2>2, <1>2, <1>3, ClockType
  <2>4. full >= t + e - (PerSecond - 1)
    BY <2>3, <1>3, <1>4, <1>5, <1>6, ClockType DEF Lower
  <2>5. half <= t + e + t
    BY <1>3, <1>4, <1>5 DEF Lower
  <2>6. /\ PerSecond * Refilled = t /\ SinceRefill * RatePerSec = e
        /\ Refilled \in 0 .. rateBurst /\ SinceRefill \in 0 .. elapsed
    BY <2>1, <1>1 DEF e, t
  <2> QED BY <2>3, <2>4, <2>5, <2>6
<1> QED BY <1>2, <1>7, <1>8

LEMMA CheckInv ==
    ASSUME IInv, CheckRateLimit
    PROVE  IInv' /\ (half >= 2 * PerSecond => verdict')
<1> DEFINE p == PerSecond * Refilled
           e == SinceRefill * RatePerSec
           b == PerSecond * rateBurst
<1>1. /\ Refilled \in 0 .. rateBurst /\ SinceRefill \in 0 .. elapsed
      /\ e \in 0 .. PerSecond - 1
      /\ full >= p + e - (PerSecond - 1)
      /\ half <= p + e + p
  <2>1. verdict
    BY DEF CheckRateLimit
  <2> QED BY <2>1, RefillBetween
<1>2. rateBurst \in Nat /\ full \in Int /\ half \in Int /\ elapsed \in 0 .. MaxGap
  BY RateType DEF rateBurst, IInv, TypeOK
<1>3. p \in Nat /\ b \in Nat /\ p <= b
  BY <1>1, <1>2, ClockType, ProductNat, Monotone
<1>4. PerSecond * tokens' = p - PerSecond
  BY <1>1, <1>2, ClockType, Distribute DEF CheckRateLimit
<1>5. Worth' = p - PerSecond + e
  BY <1>4 DEF Worth, CheckRateLimit
<1>6. (verdict' <=> Refilled > 0) /\ verdict' \in BOOLEAN /\ tokens' = Refilled - 1
  <2>1. verdict' = (Refilled > 0) /\ tokens' = Refilled - 1
    BY Zenon DEF CheckRateLimit, Admits
  <2>2. CASE Refilled > 0
    BY <2>1, <2>2
  <2>3. CASE ~(Refilled > 0)
    <3>1. (Refilled > 0) = FALSE
      BY <2>3, <1>1, <1>2
    <3>2. verdict' = FALSE
      BY <2>1, <3>1, Zenon
    <3> QED BY <2>1, <2>3, <3>2
  <2> QED BY <2>2, <2>3
<1>7. Refilled > 0 => PerSecond <= p
  <2> SUFFICES ASSUME Refilled > 0 PROVE PerSecond <= p
    OBVIOUS
  <2>1. PerSecond * 1 <= p
    BY <1>1, <1>2, ClockType, Monotone
  <2> QED BY <2>1, ClockType
<1>8. Refilled = 0 => p = 0
  BY ClockType
<1>9. /\ verdict' => full' = full - PerSecond
      /\ ~verdict' => full' = full
      /\ half' = Higher(0, half - 2 * PerSecond)
  BY <1>2, ClockType DEF CheckRateLimit
<1> HIDE DEF p, e, b
<1>10. TypeOK'
  <2>1. tokens' \in Int /\ tokens' <= rateBurst /\ verdict' \in BOOLEAN
    BY <1>1, <1>2, <1>6
  <2>2. elapsed' \in 0 .. MaxGap
    BY <1>1, <1>2, ClockType DEF CheckRateLimit
  <2>3. full' \in Int /\ half' \in Int
    BY <1>2, <1>9, ClockType DEF Higher
  <2> QED BY <2>1, <2>2, <2>3 DEF TypeOK
<1>11. NeverAhead'
  <2>1. CASE Refilled > 0
    BY <2>1, <1>1, <1>2, <1>3, <1>6, <1>7, <1>9, ClockType DEF NeverAhead
  <2>2. CASE Refilled = 0
    BY <2>2, <1>2, <1>6, <1>9, ClockType DEF NeverAhead, IInv
  <2> QED BY <2>1, <2>2, <1>1, <1>2
<1>12. ASSUME verdict' PROVE tokens' >= 0 /\ FullCovers' /\ HalfCovered'
  <2>1. Refilled > 0 /\ tokens' >= 0
    BY <1>1, <1>2, <1>6, <1>12
  <2>2. full' >= Lower(b, Worth' - (PerSecond - 1))
    BY <2>1, <1>1, <1>2, <1>3, <1>5, <1>9, <1>12, ClockType DEF Lower
  <2>3. half' <= Lower(2 * b, Worth' + (p - PerSecond))
    BY <2>1, <1>1, <1>2, <1>3, <1>5, <1>7, <1>9, ClockType DEF Lower, Higher
  <2> QED BY <2>1, <2>2, <2>3, <1>4 DEF FullCovers, HalfCovered, b
<1>13. half >= 2 * PerSecond => verdict'
  BY <1>1, <1>2, <1>3, <1>6, <1>8, ClockType
<1> QED BY <1>10, <1>11, <1>12, <1>13 DEF IInv

LEMMA StepInv ==
    ASSUME IInv, [Next]_vars
    PROVE  IInv' /\ [half >= 2 * PerSecond => verdict']_vars
<1>1. CASE CheckRateLimit
  BY <1>1, CheckInv
<1>2. ASSUME NEW d \in 1 .. MaxGap, TimePasses(d)
      PROVE  IInv' /\ verdict'
  BY <1>2, TimeInv DEF TimePasses
<1>3. CASE UNCHANGED vars
  BY <1>3 DEF vars, IInv, TypeOK, NeverAhead, FullCovers, HalfCovered, Worth
<1> QED BY <1>1, <1>2, <1>3 DEF Next

----------------------------------------------------------------------------
\* The limiter's variables keep their types and the bucket its burst.
THEOREM TypeCorrect == Spec => []TypeOK
<1>1. IInv => TypeOK
  BY DEF IInv
<1> QED BY <1>1, InitInv, StepInv, PTL DEF Spec

\* CheckRateLimit never lets more through than the configured rate and burst
\* allow, rounded up to a whole packet.
THEOREM RateKept == Spec => []NeverAhead
<1>1. IInv => NeverAhead
  BY DEF IInv
<1> QED BY <1>1, InitInv, StepInv, PTL DEF Spec

\* CheckRateLimit never drops a client that keeps to half the rate and to the
\* burst.
THEOREM HalfRateSafe == Spec => HalfRateAdmitted
<1> QED BY InitInv, StepInv, PTL DEF Spec, HalfRateAdmitted
=============================================================================
