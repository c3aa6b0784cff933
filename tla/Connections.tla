---------------------------- MODULE Connections -----------------------------
(***************************************************************************)
(* The life of connections: the accept path and its traffic policy         *)
(* (ServerCore.cpp), SessionManager and the counter currentConnections,    *)
(* the heartbeat, and everything that ends a connection.  What a session   *)
(* does in rooms is RoomServer's business.                                 *)
(*                                                                         *)
(* PostAccept is the last thing HandleAcceptCompletion does, so only one   *)
(* worker is in it.  It shares the policy's three atomics with the         *)
(* registry thread, SessionManager with the heartbeat thread, and the      *)
(* session with everybody who sends: the accesses to them are steps.       *)
(***************************************************************************)
EXTENDS Integers, FiniteSets

CONSTANTS
    Sessions,     \* the connections that clients open
    Limits,       \* answers for maxConnectionsPerMinuteTotal; 0 is null
    MaxPulls      \* bound: answers of the control plane

ASSUME SessionsFinite == IsFiniteSet(Sessions)
ASSUME LimitsType == Limits \subseteq Nat
ASSUME BoundsType == MaxPulls \in Nat

VARIABLES
    accept,       \* where the worker in HandleAcceptCompletion is
    cand,         \* the session it has added last
    limit,        \* limitPerMinute, as it has loaded it
    policy,       \* m_policyMaxConnectionsPerMinuteTotal
    tokens,       \* m_globalConnTokens
    last,         \* m_globalConnLastRefillMs: "unset", "recent" or "elapsed"
    refresh,      \* where the registry thread is in RefreshTrafficPolicy
    pulls,        \* answers so far
    credit,       \* tokens ever stored, less the connections let in for one
    opened,       \* sessions that have been created
    managed,      \* SessionManager::m_sessions
    count,        \* currentConnections
    disconnected, \* sessions whose m_disconnected is set
    broken,       \* those of them where PostSend has set it
    closing,      \* how far HandleDisconnect is with each session
    recv,         \* sessions with a receive posted or being handled
    quiet,        \* sessions not heard of for heartbeatTimeoutMs
    beat          \* what HeartbeatThread still has to look at

acceptVars == <<accept, cand, limit>>
policyVars == <<policy, tokens, last, refresh, pulls, credit>>
liveVars   == <<opened, managed, count>>
closeVars  == <<disconnected, broken, closing, recv, quiet, beat>>
vars == <<acceptVars, policyVars, liveVars, closeVars>>

AcceptSteps == {"posted",   \* AcceptEx is outstanding
                "lost",     \* PostAccept has failed: nobody accepts any more
                "added", "window", "refill", "stamp", "take",  \* in Consume...
                "admit", "reject"}

\* After Start(): one accept posted, no policy known.
Init ==
    /\ accept = "posted" /\ cand \in Sessions /\ limit = 0
    /\ policy = 0 /\ tokens = 0 /\ last = "unset"
    /\ refresh = "idle" /\ pulls = 0
    /\ credit = 0
    /\ opened = {} /\ managed = {} /\ count = 0
    /\ disconnected = {} /\ broken = {}
    /\ closing = [s \in Sessions |-> "no"]
    /\ recv = {} /\ quiet = {} /\ beat = {}

----------------------------------------------------------------------------
(* Accepting.                                                               *)

\* WSASocket or AcceptEx may fail; nothing tries again.
PostAccept == accept' \in {"posted", "lost"}

\* The accept, or the association with the completion port, fails.
AcceptFails ==
    /\ accept = "posted"
    /\ PostAccept
    /\ UNCHANGED <<cand, limit, policyVars, liveVars, closeVars>>

\* A session is created and added; Init stamps its activity.
AcceptAdds(s) ==
    /\ accept = "posted" /\ s \notin opened
    /\ accept' = "added" /\ cand' = s
    /\ opened' = opened \cup {s}
    /\ managed' = managed \cup {s}
    /\ UNCHANGED <<limit, policyVars, count, closeVars>>

\* ConsumeGlobalConnectionToken: no policy lets everybody in.
LoadLimit ==
    /\ accept = "added"
    /\ limit' = policy
    /\ accept' = IF policy <= 0 THEN "admit" ELSE "window"
    /\ UNCHANGED <<cand, policyVars, liveVars, closeVars>>

LoadLastRefill ==
    /\ accept = "window"
    /\ accept' = IF last = "recent" THEN "take" ELSE "refill"
    /\ UNCHANGED <<cand, limit, policyVars, liveVars, closeVars>>

RefillTokens ==
    /\ accept = "refill"
    /\ tokens' = limit /\ credit' = credit + limit
    /\ accept' = "stamp"
    /\ UNCHANGED <<cand, limit, policy, last, refresh, pulls,
                   liveVars, closeVars>>

StampRefill ==
    /\ accept = "stamp"
    /\ last' = "recent"
    /\ accept' = "take"
    /\ UNCHANGED <<cand, limit, policy, tokens, refresh, pulls, credit,
                   liveVars, closeVars>>

\* Mutant of TakeToken: the value after the subtraction is taken for prev.
TakeTokenLate ==
    /\ accept = "take"
    /\ tokens' = tokens - 1
    /\ \/ tokens >= 0 /\ accept' = "admit" /\ credit' = credit - 1
       \/ tokens < 0 /\ accept' = "reject" /\ UNCHANGED credit
    /\ UNCHANGED <<cand, limit, policy, last, refresh, pulls,
                   liveVars, closeVars>>

\* fetch_sub, which also counts below zero.
TakeToken ==
    /\ accept = "take"
    /\ tokens' = tokens - 1
    /\ \/ tokens > 0 /\ accept' = "admit" /\ credit' = credit - 1
       \/ tokens <= 0 /\ accept' = "reject" /\ UNCHANGED credit
    /\ UNCHANGED <<cand, limit, policy, last, refresh, pulls,
                   liveVars, closeVars>>

\* The counters, the first PostRecv, the next PostAccept.
Admit ==
    /\ accept = "admit"
    /\ count' = count + 1
    /\ recv' = recv \cup {cand}
    /\ PostAccept
    /\ UNCHANGED <<cand, limit, policyVars, opened, managed, disconnected, broken, closing,
                   quiet, beat>>

\* Mutant of Reject: HandleDisconnect in the place of Disconnect and Remove.
RejectHandlesDisconnect ==
    /\ accept = "reject"
    /\ disconnected' = disconnected \cup {cand}
    /\ closing' = [closing EXCEPT ![cand] = "count"]
    /\ PostAccept
    /\ UNCHANGED <<cand, limit, policyVars, liveVars, broken, recv, quiet, beat>>

\* Disconnect(), not HandleDisconnect, then Remove.
Reject ==
    /\ accept = "reject"
    /\ disconnected' = disconnected \cup {cand}
    /\ managed' = managed \ {cand}
    /\ PostAccept
    /\ UNCHANGED <<cand, limit, policyVars, opened, count, broken, closing, recv, quiet, beat>>

----------------------------------------------------------------------------
(* The registry thread: RefreshTrafficPolicy.  A pull that fails, or an      *)
(* answer without the key, changes nothing.                                 *)

PullPolicy(n) ==
    /\ refresh = "idle" /\ pulls < MaxPulls
    /\ policy' = n /\ pulls' = pulls + 1
    /\ refresh' = "tokens"
    /\ UNCHANGED <<tokens, last, credit, acceptVars, liveVars, closeVars>>

\* Whether or not the policy has changed.
ResetTokens ==
    /\ refresh = "tokens"
    /\ tokens' = policy /\ credit' = credit + policy
    /\ refresh' = "stamp"
    /\ UNCHANGED <<policy, last, pulls, acceptVars, liveVars, closeVars>>

ResetStamp ==
    /\ refresh = "stamp"
    /\ last' = "recent"
    /\ refresh' = "idle"
    /\ UNCHANGED <<policy, tokens, pulls, credit, acceptVars, liveVars,
                   closeVars>>

\* A minute has passed since the last refill.
WindowPasses ==
    /\ last = "recent"
    /\ last' = "elapsed"
    /\ UNCHANGED <<policy, tokens, refresh, pulls, credit, acceptVars, liveVars,
                   closeVars>>

----------------------------------------------------------------------------
(* Losing a connection.                                                     *)

\* Mutant of HandleDisconnect: the result of Disconnect() is ignored.
HandleDisconnectAgain(s) ==
    /\ disconnected' = disconnected \cup {s}
    /\ closing' = [closing EXCEPT ![s] = "count"]

\* Disconnect(), and whether there is anything more to do.
HandleDisconnect(s) ==
    /\ disconnected' = disconnected \cup {s}
    /\ closing' = IF s \in disconnected THEN closing ELSE [closing EXCEPT ![s] = "count"]

CloseCounts(s) ==
    /\ closing[s] = "count"
    /\ count' = count - 1
    /\ closing' = [closing EXCEPT ![s] = "remove"]
    /\ UNCHANGED <<acceptVars, policyVars, opened, managed, disconnected, broken, recv, quiet, beat>>

\* Mutant of CloseRemoves: the session stays in the map.
CloseKeeps(s) ==
    /\ closing[s] = "remove"
    /\ closing' = [closing EXCEPT ![s] = "done"]
    /\ UNCHANGED <<acceptVars, policyVars, liveVars, disconnected, broken, recv, quiet, beat>>

CloseRemoves(s) ==
    /\ closing[s] = "remove"
    /\ managed' = managed \ {s}
    /\ closing' = [closing EXCEPT ![s] = "done"]
    /\ UNCHANGED <<acceptVars, policyVars, opened, count, disconnected, broken, recv, quiet, beat>>

\* The receive fails or has 0 bytes, or HandleRecv rejects a packet; the
\* UpdateActivity before a rejection is a ReceiveCompletes of its own.
ReceiveEnds(s) ==
    /\ s \in recv
    /\ recv' = recv \ {s}
    /\ HandleDisconnect(s)
    /\ UNCHANGED <<acceptVars, policyVars, liveVars, broken, quiet, beat>>

\* HandleRecv; its PostRecv does nothing for a session that has disconnected.
ReceiveCompletes(s) ==
    /\ s \in recv
    /\ quiet' = quiet \ {s}
    /\ recv' = recv \ (disconnected \cap {s})
    /\ UNCHANGED <<acceptVars, policyVars, liveVars, disconnected, broken, closing, beat>>

----------------------------------------------------------------------------
(* The heartbeat thread.                                                    *)

Accepting == IF accept \in {"posted", "lost"} THEN {} ELSE {cand}

\* heartbeatTimeoutMs without a packet; HandleAcceptCompletion is quicker.
GoesQuiet(s) ==
    /\ s \in (managed \ Accepting) \ quiet
    /\ quiet' = quiet \cup {s}
    /\ UNCHANGED <<acceptVars, policyVars, liveVars, disconnected, broken, closing, recv, beat>>

\* GetAll.
HeartbeatSnapshot ==
    /\ beat = {}
    /\ beat' = managed
    /\ UNCHANGED <<acceptVars, policyVars, liveVars, disconnected, broken, closing, recv, quiet>>

\* Mutant of HeartbeatChecks: the loop ends at a session that is not timed out.
HeartbeatBreaks(s) ==
    /\ s \in beat
    /\ \/ s \in quiet /\ HandleDisconnect(s) /\ beat' = beat \ {s}
       \/ s \notin quiet /\ beat' = {} /\ UNCHANGED <<disconnected, closing>>
    /\ UNCHANGED <<acceptVars, policyVars, liveVars, broken, recv, quiet>>

HeartbeatChecks(s) ==
    /\ s \in beat
    /\ beat' = beat \ {s}
    /\ \/ s \in quiet /\ HandleDisconnect(s)
       \/ s \notin quiet /\ UNCHANGED <<disconnected, closing>>
    /\ UNCHANGED <<acceptVars, policyVars, liveVars, broken, recv, quiet>>

----------------------------------------------------------------------------
(* Sending, by any thread, to a session that is known to it.                *)

\* WSASend fails at once: Disconnect(), and not HandleDisconnect.
SendFails(s) ==
    /\ s \in opened \ (disconnected \cup Accepting)
    /\ disconnected' = disconnected \cup {s}
    /\ broken' = broken \cup {s}
    /\ UNCHANGED <<acceptVars, policyVars, liveVars, closing, recv, quiet, beat>>

\* The completion of a send reports failure.
SendAborted(s) ==
    /\ s \in opened \ Accepting
    /\ HandleDisconnect(s)
    /\ UNCHANGED <<acceptVars, policyVars, liveVars, broken, recv, quiet, beat>>

----------------------------------------------------------------------------
AcceptThread ==
    \/ AcceptFails \/ (\E s \in Sessions : AcceptAdds(s))
    \/ LoadLimit \/ LoadLastRefill \/ RefillTokens \/ StampRefill \/ TakeToken
    \/ Admit \/ Reject

RegistryThread == (\E n \in Limits : PullPolicy(n)) \/ ResetTokens \/ ResetStamp

Closes(s) == CloseCounts(s) \/ CloseRemoves(s)

Next ==
    \/ AcceptThread
    \/ RegistryThread \/ WindowPasses
    \/ HeartbeatSnapshot
    \/ \E s \in Sessions :
         \/ ReceiveEnds(s) \/ ReceiveCompletes(s) \/ Closes(s)
         \/ GoesQuiet(s) \/ HeartbeatChecks(s)
         \/ SendFails(s) \/ SendAborted(s)

Spec == Init /\ [][Next]_vars

\* HeartbeatThread runs for as long as the server, and a HandleDisconnect that
\* has begun goes on.
Fairness ==
    /\ WF_vars(HeartbeatSnapshot)
    /\ \A s \in Sessions : WF_vars(HeartbeatChecks(s)) /\ WF_vars(Closes(s))

FairSpec == Spec /\ Fairness

----------------------------------------------------------------------------
\* count is a uint64_t: that it stays in Nat says that it never wraps.
TypeOK ==
    /\ accept \in AcceptSteps /\ cand \in Sessions
    /\ limit \in Nat /\ policy \in Nat /\ tokens \in Int
    /\ last \in {"unset", "recent", "elapsed"}
    /\ refresh \in {"idle", "tokens", "stamp"}
    /\ pulls \in Nat /\ credit \in Int
    /\ opened \subseteq Sessions /\ managed \subseteq opened
    /\ count \in Nat
    /\ disconnected \subseteq opened /\ broken \subseteq disconnected
    /\ closing \in [Sessions -> {"no", "count", "remove", "done"}]
    /\ recv \subseteq opened /\ quiet \subseteq opened /\ beat \subseteq opened

\* currentConnections, which the control plane is told, is the number of
\* sessions in SessionManager, except for the one being accepted and those a
\* HandleDisconnect has counted off and not removed yet, although four kinds
\* of threads may give up the same connection at the same time.
Removing == {s \in Sessions : closing[s] = "remove"}

CountAgrees == count = Cardinality(managed \ (Accepting \cup Removing))

\* No more connections are let in under a policy than tokens were issued by
\* refills and by pulls, however the registry thread's three stores interleave
\* with ConsumeGlobalConnectionToken.
TokensCover == credit >= 0

\* A disconnected session that is still in SessionManager is on its way out in a
\* HandleDisconnect, whichever thread was the first to notice, unless that was
\* PostSend: then no HandleDisconnect ever gets past Disconnect().
Leaving(s) == closing[s] \in {"count", "remove"}

OnlySendLeaks == \A s \in managed \cap disconnected : Leaving(s) <=> s \notin broken

\* A session that has disconnected leaves SessionManager, unless it was PostSend
\* that disconnected it: then HandleDisconnect always returns early.
GoneIsForgotten ==
    \A s \in Sessions : s \in disconnected ~> s \notin managed \/ s \in broken

\* The heartbeat finds every session that stays silent.
SilentDropped ==
    \A s \in Sessions : s \in managed \cap quiet ~> s \in disconnected \/ s \notin quiet
=============================================================================
