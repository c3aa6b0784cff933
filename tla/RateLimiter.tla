---------------------------- MODULE RateLimiter -----------------------------
(***************************************************************************)
(* The token bucket of ServerSession.h that HandleRecv asks before it      *)
(* dispatches a packet: InitRateLimit and CheckRateLimit.  A session has   *)
(* one receive outstanding at a time, so one worker is in it at a time.    *)
(*                                                                         *)
(* CheckRateLimit truncates the refill to whole tokens and moves the time  *)
(* of the last refill to now, so the fraction is lost.  Beside the code's  *)
(* bucket the module keeps two exact ones, which see the same packets: one *)
(* that fills at the configured rate and pays for what the code lets       *)
(* through, and one that fills at half the rate and is emptied by a packet *)
(* it cannot pay for.                                                      *)
(***************************************************************************)
EXTENDS Integers

CONSTANTS
    RatePerSec,   \* packet_rate_limit_per_sec
    PerSecond,    \* units of the clock in a second: 1000 in the code
    MaxGap        \* bound: clock units between two packets

ASSUME RateType == RatePerSec \in Nat
ASSUME ClockType == PerSecond \in Nat \ {0} /\ MaxGap \in Nat

VARIABLES
    tokens,    \* m_rateTokens
    elapsed,   \* now - m_lastRefillMs
    full,      \* the exact bucket, in tokens / PerSecond
    half,      \* the exact bucket of half the rate, in tokens / (2 * PerSecond)
    verdict    \* what CheckRateLimit returned last; a refusal ends the session

vars == <<tokens, elapsed, full, half, verdict>>

rateBurst == RatePerSec * 2      \* m_rateBurst

Lower(a, b)  == IF a < b THEN a ELSE b
Higher(a, b) == IF a > b THEN a ELSE b

\* InitRateLimit.
Init ==
    /\ tokens = rateBurst
    /\ elapsed = 0
    /\ full = PerSecond * rateBurst
    /\ half = 2 * PerSecond * rateBurst
    /\ verdict = TRUE

\* The clock advances before the next packet; the exact buckets fill with it.
TimePasses(d) ==
    /\ verdict
    /\ elapsed + d <= MaxGap
    /\ elapsed' = elapsed + d
    /\ full' = Lower(PerSecond * rateBurst, full + d * RatePerSec)
    /\ half' = Lower(2 * PerSecond * rateBurst, half + d * RatePerSec)
    /\ UNCHANGED <<tokens, verdict>>

\* elapsed * (m_rateBurst / 2) / 1000, in integers.
Refill == (elapsed * (rateBurst \div 2)) \div PerSecond

\* Mutant of Refilled: the burst does not bound the bucket.
RefilledUncapped == tokens + Refill

\* Mutant of Refilled: a fraction counts as a token.
RefilledGenerously ==
    Lower(rateBurst, tokens + (elapsed * RatePerSec + PerSecond - 1) \div PerSecond)

\* m_rateTokens before the fetch_sub.
Refilled == IF Refill > 0 THEN Lower(rateBurst, tokens + Refill) ELSE tokens

\* Mutant of SinceRefill: m_lastRefillMs moves although nothing was refilled.
StampAlways == 0

\* Without a token to add, m_lastRefillMs stays and the fraction is kept.
SinceRefill == IF Refill > 0 THEN 0 ELSE elapsed

\* prev > 0, with prev what fetch_sub returned.
Admits(prev) == prev > 0

\* CheckRateLimit for one packet.
CheckRateLimit ==
    /\ verdict
    /\ tokens' = Refilled - 1
    /\ elapsed' = SinceRefill
    /\ verdict' = Admits(Refilled)
    /\ full' = full - (IF verdict' THEN PerSecond ELSE 0)
    /\ half' = Higher(0, half - 2 * PerSecond)

----------------------------------------------------------------------------
Next == CheckRateLimit \/ \E d \in 1 .. MaxGap : TimePasses(d)

Spec == Init /\ [][Next]_vars

----------------------------------------------------------------------------
TypeOK ==
    /\ tokens \in Int /\ tokens <= rateBurst
    /\ elapsed \in 0 .. MaxGap
    /\ full \in Int /\ half \in Int
    /\ verdict \in BOOLEAN

\* The limit is never exceeded: whatever CheckRateLimit has let through, an
\* exact bucket of the configured rate and burst had a token for it, or all
\* but a fraction of one.
NeverAhead == full > -PerSecond

\* A client that an exact bucket of half the rate would let through is never
\* dropped: the lost fractions cost less than half of the rate.
HalfRateAdmitted == [][half >= 2 * PerSecond => verdict']_vars
=============================================================================
