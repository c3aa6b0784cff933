------------------------- MODULE ConnectionsProofs --------------------------
(***************************************************************************)
(* Connections' safety for every number of sessions and every policy.      *)
(***************************************************************************)
EXTENDS Connections, FiniteSetTheorems, TLAPS

\* The sessions that currentConnections is to count.
Counted == managed \ (Accepting \cup Removing)

\* Tokens that are still there have been issued and not been used.
TokensBacked == tokens <= credit

\* Who may be in which part of a connection's life.  A session whose
\* m_disconnected is not set is in SessionManager and nobody closes it; a
\* HandleDisconnect that goes on has found it there; and nobody but its own
\* worker knows a session that is being accepted.
LifeCycle ==
    /\ opened \ disconnected \subseteq managed
    /\ Accepting \subseteq managed \ (disconnected \cup recv \cup quiet)
    /\ \A s \in Sessions :
         /\ closing[s] # "no" => s \in disconnected
         /\ closing[s] \in {"count", "remove"} => s \in managed

IInv == TypeOK /\ CountAgrees /\ TokensCover /\ TokensBacked /\ LifeCycle

LEMMA InitIInv == Init => IInv
  <1> SUFFICES ASSUME Init PROVE IInv
    OBVIOUS
  <1> USE DEF Init
  <1>1. TypeOK
    BY DEF TypeOK, AcceptSteps
  <1>2. Counted = {}
    BY DEF Counted
  <1>3. CountAgrees
    BY <1>2, FS_EmptySet DEF CountAgrees, Counted
  <1>4. TokensCover /\ TokensBacked
    BY DEF TokensCover, TokensBacked
  <1>5. LifeCycle
    BY DEF LifeCycle, Accepting
  <1> QED
    BY <1>1, <1>3, <1>4, <1>5 DEF IInv

LEMMA CountedFinite == TypeOK => IsFiniteSet(Counted)
  BY SessionsFinite, FS_Subset DEF TypeOK, Counted

\* A step that leaves the policy alone keeps what is said about tokens, and a
\* step that keeps Counted and the counter keeps their agreement.
LEMMA TokensSame ==
    ASSUME IInv, UNCHANGED <<tokens, credit>>
    PROVE  TokensCover' /\ TokensBacked'
  BY DEF IInv, TokensCover, TokensBacked

LEMMA CountSame ==
    ASSUME IInv, Counted' = Counted, UNCHANGED count
    PROVE  CountAgrees'
  BY DEF IInv, CountAgrees, Counted

\* The steps of the accept path before the decision, and the policy's.
LEMMA PolicyKeeps ==
    ASSUME IInv,
           \/ LoadLimit \/ LoadLastRefill \/ RefillTokens \/ StampRefill \/ TakeToken
           \/ RegistryThread \/ WindowPasses
    PROVE  IInv'
  <1> USE DEF policyVars, acceptVars, liveVars, closeVars
  <1>1. TypeOK /\ LifeCycle /\ TokensCover /\ TokensBacked
    BY DEF IInv
  <1>2. UNCHANGED <<liveVars, closeVars, cand>> /\ (accept' # accept => accept' \in
          {"window", "refill", "stamp", "take", "admit", "reject"})
    BY DEF LoadLimit, LoadLastRefill, RefillTokens, StampRefill, TakeToken, RegistryThread,
           PullPolicy, ResetTokens, ResetStamp, WindowPasses
  <1>3. Accepting' = Accepting
    BY <1>2 DEF LoadLimit, LoadLastRefill, RefillTokens, StampRefill, TakeToken, RegistryThread,
           PullPolicy, ResetTokens, ResetStamp, WindowPasses, Accepting
  <1>4. TypeOK'
    <2>1. UNCHANGED <<liveVars, closeVars, cand>> /\ accept' \in AcceptSteps
      BY <1>1, <1>2 DEF TypeOK, AcceptSteps
    <2>2. /\ limit' \in Nat /\ policy' \in Nat /\ tokens' \in Int /\ pulls' \in Nat /\ credit' \in Int
          /\ last' \in {"unset", "recent", "elapsed"} /\ refresh' \in {"idle", "tokens", "stamp"}
      BY <1>1, LimitsType DEF TypeOK, LoadLimit, LoadLastRefill, RefillTokens, StampRefill, TakeToken,
           RegistryThread, PullPolicy, ResetTokens, ResetStamp, WindowPasses
    <2> QED
      BY <1>1, <2>1, <2>2 DEF TypeOK
  <1>5. TokensCover' /\ TokensBacked'
    BY <1>1 DEF TypeOK, TokensCover, TokensBacked, LoadLimit, LoadLastRefill, RefillTokens,
         StampRefill, TakeToken, RegistryThread, PullPolicy, ResetTokens, ResetStamp, WindowPasses
  <1>6. LifeCycle'
    BY <1>1, <1>2, <1>3 DEF LifeCycle
  <1>7. CountAgrees'
    BY <1>2, <1>3, CountSame DEF Counted, Removing
  <1> QED
    BY <1>4, <1>5, <1>6, <1>7 DEF IInv

\* A session appears, and is admitted or rejected.
LEMMA AcceptKeeps ==
    ASSUME IInv,
           AcceptFails \/ (\E s \in Sessions : AcceptAdds(s)) \/ Admit \/ Reject
    PROVE  IInv'
  <1> USE DEF policyVars
  <1>1. TypeOK /\ LifeCycle
    BY DEF IInv
  <1>2. TokensCover' /\ TokensBacked'
    BY TokensSame DEF AcceptFails, AcceptAdds, Admit, Reject
  <1>3. CASE AcceptFails
    <2> USE <1>3 DEF AcceptFails, PostAccept, liveVars, closeVars
    <2>1. TypeOK'
      BY <1>1 DEF TypeOK, AcceptSteps
    <2>2. Accepting = {} /\ Accepting' = {}
      BY DEF Accepting
    <2>3. LifeCycle'
      BY <1>1, <2>2 DEF LifeCycle
    <2>4. CountAgrees'
      BY <2>2, CountSame DEF Counted, Removing
    <2> QED
      BY <1>2, <2>1, <2>3, <2>4 DEF IInv
  <1>4. ASSUME NEW s \in Sessions, AcceptAdds(s) PROVE IInv'
    <2> USE <1>4 DEF AcceptAdds, closeVars
    <2>1. TypeOK'
      BY <1>1 DEF TypeOK, AcceptSteps
    <2>2. Accepting = {} /\ Accepting' = {s}
      BY DEF Accepting
    <2>3. s \notin managed /\ s \notin disconnected /\ s \notin recv /\ s \notin quiet
      BY <1>1 DEF TypeOK
    <2>4. LifeCycle'
      BY <1>1, <2>2, <2>3 DEF LifeCycle
    <2>5. Counted' = Counted
      BY <2>2, <2>3 DEF Counted, Removing
    <2> QED
      BY <1>2, <2>1, <2>4, <2>5, CountSame DEF IInv
  <1>5. CASE Admit
    <2> USE <1>5 DEF Admit, PostAccept
    <2>1. Accepting = {cand} /\ Accepting' = {}
      BY DEF Accepting
    <2>2. cand \in managed /\ cand \notin disconnected /\ cand \in opened
      BY <1>1, <2>1 DEF LifeCycle, TypeOK
    <2>3. TypeOK'
      BY <1>1, <2>2 DEF TypeOK, AcceptSteps
    <2>4. LifeCycle'
      BY <1>1, <2>1 DEF LifeCycle
    <2>5. cand \notin Removing
      BY <1>1, <2>2 DEF LifeCycle, Removing
    <2>6. Counted' = Counted \cup {cand} /\ cand \notin Counted
      BY <2>1, <2>2, <2>5 DEF Counted, Removing
    <2>7. Cardinality(Counted') = Cardinality(Counted) + 1
      BY <1>1, <2>6, CountedFinite, FS_AddElement
    <2>8. CountAgrees'
      BY <2>7 DEF IInv, CountAgrees, Counted
    <2> QED
      BY <1>2, <2>3, <2>4, <2>8 DEF IInv
  <1>6. CASE Reject
    <2> USE <1>6 DEF Reject, PostAccept
    <2>1. Accepting = {cand} /\ Accepting' = {}
      BY DEF Accepting
    <2>2. cand \in managed /\ cand \notin disconnected /\ cand \in opened
      BY <1>1, <2>1 DEF LifeCycle, TypeOK
    <2>3. TypeOK'
      BY <1>1, <2>2 DEF TypeOK, AcceptSteps
    <2>4. LifeCycle'
      BY <1>1, <2>1, <2>2 DEF LifeCycle
    <2>5. Counted' = Counted
      BY <2>1 DEF Counted, Removing
    <2> QED
      BY <1>2, <2>3, <2>4, <2>5, CountSame DEF IInv
  <1> QED
    BY <1>3, <1>4, <1>5, <1>6

\* HandleDisconnect on a session that is known begins at most once.
LEMMA DisconnectKeeps ==
    ASSUME IInv, NEW s \in opened \ Accepting, HandleDisconnect(s),
           UNCHANGED <<acceptVars, policyVars, liveVars, broken>>,
           recv' \subseteq recv, quiet' = quiet, beat' \subseteq beat
    PROVE  IInv'
  <1> USE DEF HandleDisconnect, acceptVars, policyVars, liveVars
  <1>1. TypeOK /\ LifeCycle /\ s \in Sessions
    BY DEF IInv, TypeOK
  <1>2. TypeOK'
    BY <1>1 DEF TypeOK
  <1>3. Accepting' = Accepting
    BY DEF Accepting
  <1>4. LifeCycle'
    BY <1>1, <1>3 DEF LifeCycle, TypeOK
  <1>5. Removing' = Removing
    BY <1>1 DEF Removing, LifeCycle, TypeOK
  <1>6. CountAgrees'
    BY <1>3, <1>5, CountSame DEF Counted
  <1> QED
    BY <1>2, <1>4, <1>6, TokensSame DEF IInv

\* The rest of HandleDisconnect counts the session off, then removes it.
LEMMA ClosesKeeps ==
    ASSUME IInv, NEW s \in Sessions, Closes(s)
    PROVE  IInv'
  <1> USE DEF acceptVars, policyVars
  <1>1. TypeOK /\ LifeCycle
    BY DEF IInv
  <1>2. TokensCover' /\ TokensBacked' /\ Accepting' = Accepting
    BY TokensSame DEF Closes, CloseCounts, CloseRemoves, Accepting
  <1>3. CASE CloseCounts(s)
    <2> USE <1>3 DEF CloseCounts
    <2>1. s \in managed /\ s \in disconnected /\ s \notin Accepting /\ s \notin Removing
      BY <1>1 DEF LifeCycle, Removing
    <2>2. s \in Counted
      BY <2>1 DEF Counted
    <2>3. Counted' = Counted \ {s}
      BY <1>1, <1>2, <2>1 DEF Counted, Removing, TypeOK
    <2>4. Cardinality(Counted') = Cardinality(Counted) - 1 /\ Cardinality(Counted') \in Nat
      <3>1. IsFiniteSet(Counted)
        BY <1>1, CountedFinite
      <3>2. Cardinality(Counted \ {s}) = Cardinality(Counted) - 1
        BY <3>1, <2>2, FS_RemoveElement
      <3>3. IsFiniteSet(Counted \ {s}) /\ Cardinality(Counted \ {s}) \in Nat
        BY <3>1, FS_RemoveElement, FS_CardinalityType
      <3> QED
        BY <2>3, <3>2, <3>3
    <2>5. CountAgrees' /\ count' \in Nat
      BY <2>4 DEF IInv, CountAgrees, Counted
    <2>6. TypeOK'
      BY <1>1, <2>5 DEF TypeOK
    <2>7. LifeCycle'
      BY <1>1, <1>2, <2>1 DEF LifeCycle, TypeOK
    <2> QED
      BY <1>2, <2>5, <2>6, <2>7 DEF IInv
  <1>4. CASE CloseRemoves(s)
    <2> USE <1>4 DEF CloseRemoves
    <2>1. s \in managed /\ s \in disconnected /\ s \notin Accepting
      BY <1>1 DEF LifeCycle
    <2>2. TypeOK'
      BY <1>1 DEF TypeOK
    <2>3. LifeCycle'
      BY <1>1, <1>2, <2>1 DEF LifeCycle, TypeOK
    <2>4. Counted' = Counted
      BY <1>1, <1>2 DEF Counted, Removing, TypeOK
    <2> QED
      BY <1>2, <2>2, <2>3, <2>4, CountSame DEF IInv
  <1> QED
    BY <1>3, <1>4 DEF Closes

\* Steps that change neither the counter nor who is being closed.
LEMMA QuietStepsKeep ==
    ASSUME IInv, NEW s \in Sessions,
           ReceiveCompletes(s) \/ GoesQuiet(s) \/ SendFails(s) \/ HeartbeatSnapshot
    PROVE  IInv'
  <1> USE DEF acceptVars, policyVars, liveVars, ReceiveCompletes, GoesQuiet, SendFails,
              HeartbeatSnapshot
  <1>1. TypeOK /\ LifeCycle
    BY DEF IInv
  <1>2. Accepting' = Accepting
    BY DEF Accepting
  <1>3. TypeOK'
    BY <1>1 DEF TypeOK
  <1>4. LifeCycle'
    BY <1>1, <1>2 DEF LifeCycle, TypeOK
  <1>5. CountAgrees'
    BY <1>2, CountSame DEF Counted, Removing
  <1> QED
    BY <1>3, <1>4, <1>5, TokensSame DEF IInv

LEMMA HeartbeatKeeps ==
    ASSUME IInv, NEW s \in Sessions, HeartbeatChecks(s)
    PROVE  IInv'
  <1>1. TypeOK /\ LifeCycle
    BY DEF IInv
  <1>2. CASE s \in quiet /\ HandleDisconnect(s)
    <2>1. s \in opened \ Accepting
      BY <1>1, <1>2 DEF LifeCycle, TypeOK
    <2> QED
      BY <1>2, <2>1, DisconnectKeeps DEF HeartbeatChecks
  <1>3. CASE s \notin quiet /\ UNCHANGED <<disconnected, closing>>
    <2> USE <1>3 DEF HeartbeatChecks, acceptVars, policyVars, liveVars
    <2>1. Accepting' = Accepting
      BY DEF Accepting
    <2>2. TypeOK'
      BY <1>1 DEF TypeOK
    <2>3. LifeCycle'
      BY <1>1, <2>1 DEF LifeCycle
    <2>4. CountAgrees'
      BY <2>1, CountSame DEF Counted, Removing
    <2> QED
      BY <2>2, <2>3, <2>4, TokensSame DEF IInv
  <1> QED
    BY <1>2, <1>3 DEF HeartbeatChecks

LEMMA LossKeeps ==
    ASSUME IInv, NEW s \in Sessions, ReceiveEnds(s) \/ SendAborted(s)
    PROVE  IInv'
  <1>1. s \in opened \ Accepting
    BY DEF IInv, TypeOK, LifeCycle, ReceiveEnds, SendAborted
  <1>2. /\ HandleDisconnect(s) /\ UNCHANGED <<acceptVars, policyVars, liveVars, broken>>
        /\ recv' \subseteq recv /\ quiet' = quiet /\ beat' \subseteq beat
    BY DEF ReceiveEnds, SendAborted
  <1> QED
    BY <1>1, <1>2, DisconnectKeeps

\* Every step of every thread keeps the inductive invariant.
THEOREM NextIInv == IInv /\ [Next]_vars => IInv'
  <1> SUFFICES ASSUME IInv, [Next]_vars PROVE IInv'
    OBVIOUS
  <1>1. CASE AcceptThread
    BY <1>1, AcceptKeeps, PolicyKeeps DEF AcceptThread
  <1>2. CASE RegistryThread \/ WindowPasses
    BY <1>2, PolicyKeeps
  <1>3. CASE HeartbeatSnapshot
    <2>1. cand \in Sessions
      BY DEF IInv, TypeOK
    <2> QED
      BY <1>3, <2>1, QuietStepsKeep
  <1>4. ASSUME NEW s \in Sessions,
               \/ ReceiveEnds(s) \/ ReceiveCompletes(s) \/ Closes(s)
               \/ GoesQuiet(s) \/ HeartbeatChecks(s)
               \/ SendFails(s) \/ SendAborted(s)
        PROVE IInv'
    BY <1>4, LossKeeps, ClosesKeeps, QuietStepsKeep, HeartbeatKeeps
  <1>5. CASE UNCHANGED vars
    BY <1>5 DEF vars, acceptVars, policyVars, liveVars, closeVars, IInv, TypeOK, CountAgrees,
         TokensCover, TokensBacked, LifeCycle, Accepting, Removing
  <1> QED
    BY <1>1, <1>2, <1>3, <1>4, <1>5 DEF Next

LEMMA Invariance == Spec => []IInv
  BY InitIInv, NextIInv, PTL DEF Spec

\* Every variable of Connections keeps its type; in particular the unsigned
\* currentConnections never goes below zero.
THEOREM TypeCorrect == Spec => []TypeOK
  <1>1. IInv => TypeOK
    BY DEF IInv
  <1> QED
    BY <1>1, Invariance, PTL

\* currentConnections agrees with SessionManager, whoever gives up whichever
\* connection in whichever order.
THEOREM CounterAgrees == Spec => []CountAgrees
  <1>1. IInv => CountAgrees
    BY DEF IInv
  <1> QED
    BY <1>1, Invariance, PTL

\* Nobody is let in under a policy without a token of his own, for every
\* interleaving of the accept path with the registry thread.
THEOREM TokensSuffice == Spec => []TokensCover
  <1>1. IInv => TokensCover
    BY DEF IInv
  <1> QED
    BY <1>1, Invariance, PTL
----------------------------------------------------------------------------
(* Who removes a disconnected session.                                      *)

\* HandleDisconnect goes on only if it was the one to set m_disconnected, so it
\* never goes on for a session that PostSend has disconnected, and it always
\* does for any other that is still to be removed.
Responsible ==
    /\ \A s \in broken : closing[s] = "no"
    /\ \A s \in managed \cap disconnected : s \in broken \/ Leaving(s)

\* A HandleDisconnect, by whichever thread, of a session that is known to it.
LEMMA DisconnectResponsible ==
    ASSUME IInv, Responsible, NEW s \in opened, HandleDisconnect(s), UNCHANGED <<managed, broken>>
    PROVE  Responsible'
  <1>1. closing \in [Sessions -> {"no", "count", "remove", "done"}] /\ s \in Sessions
        /\ broken \subseteq disconnected /\ broken \subseteq Sessions
        /\ managed \subseteq Sessions
    BY DEF IInv, TypeOK
  <1>2. CASE s \in disconnected
    BY <1>2 DEF HandleDisconnect, Responsible, Leaving
  <1>3. CASE s \notin disconnected
    <2>1. /\ closing'[s] = "count" /\ disconnected' = disconnected \cup {s}
          /\ \A t \in Sessions : t # s => closing'[t] = closing[t]
      BY <1>1, <1>3 DEF HandleDisconnect
    <2> QED
      BY <1>1, <1>3, <2>1 DEF Responsible, Leaving
  <1> QED
    BY <1>2, <1>3

LEMMA NextResponsible == IInv /\ Responsible /\ [Next]_vars => Responsible'
  <1> SUFFICES ASSUME IInv, Responsible, [Next]_vars PROVE Responsible'
    OBVIOUS
  <1>1. /\ closing \in [Sessions -> {"no", "count", "remove", "done"}]
        /\ broken \subseteq disconnected /\ disconnected \subseteq opened
        /\ managed \subseteq Sessions /\ opened \subseteq Sessions
        /\ recv \subseteq opened /\ beat \subseteq opened
    BY DEF IInv, TypeOK
  <1>2. CASE UNCHANGED <<managed, disconnected, broken, closing>>
    BY <1>2 DEF Responsible, Leaving
  <1>3. ASSUME NEW s \in Sessions, AcceptAdds(s) PROVE Responsible'
    <2>1. managed' = managed \cup {s} /\ s \notin disconnected /\ UNCHANGED <<disconnected, broken, closing>>
      BY <1>1, <1>3 DEF AcceptAdds, closeVars
    <2> QED
      BY <2>1 DEF Responsible, Leaving
  <1>4. CASE Reject
    <2>1. /\ managed' = managed \ {cand} /\ disconnected' = disconnected \cup {cand}
          /\ UNCHANGED <<broken, closing>>
      BY <1>4 DEF Reject
    <2> QED
      BY <2>1 DEF Responsible, Leaving
  <1>5. ASSUME NEW s \in Sessions, ReceiveEnds(s) \/ SendAborted(s) \/ (HeartbeatChecks(s) /\ s \in quiet)
        PROVE  Responsible'
    <2>1. s \in opened /\ HandleDisconnect(s) /\ UNCHANGED <<managed, broken>>
      BY <1>1, <1>5 DEF ReceiveEnds, SendAborted, HeartbeatChecks, liveVars
    <2> QED
      BY <2>1, DisconnectResponsible
  <1>6. ASSUME NEW s \in Sessions, Closes(s) PROVE Responsible'
    <2>1. /\ closing[s] # "no" /\ UNCHANGED <<disconnected, broken>>
          /\ \A t \in Sessions : t # s => closing'[t] = closing[t]
          /\ \/ closing'[s] = "remove" /\ UNCHANGED managed
             \/ managed' = managed \ {s}
      BY <1>1, <1>6 DEF Closes, CloseCounts, CloseRemoves
    <2> QED
      BY <1>1, <2>1 DEF Responsible, Leaving
  <1>7. ASSUME NEW s \in Sessions, SendFails(s) PROVE Responsible'
    <2>1. /\ s \notin disconnected /\ disconnected' = disconnected \cup {s}
          /\ broken' = broken \cup {s} /\ UNCHANGED <<managed, closing>>
      BY <1>7 DEF SendFails, liveVars
    <2>2. closing[s] = "no"
      BY <2>1 DEF IInv, LifeCycle
    <2> QED
      BY <2>1, <2>2 DEF Responsible, Leaving
  <1>8. CASE \/ AcceptFails \/ LoadLimit \/ LoadLastRefill \/ RefillTokens \/ StampRefill \/ TakeToken \/ Admit
             \/ RegistryThread \/ WindowPasses \/ HeartbeatSnapshot \/ UNCHANGED vars
    BY <1>2, <1>8
    DEF AcceptFails, LoadLimit, LoadLastRefill, RefillTokens, StampRefill, TakeToken, Admit, RegistryThread,
        PullPolicy, ResetTokens, ResetStamp, WindowPasses, HeartbeatSnapshot, vars, liveVars, closeVars
  <1>9. ASSUME NEW s \in Sessions, ReceiveCompletes(s) \/ GoesQuiet(s) \/ (HeartbeatChecks(s) /\ s \notin quiet)
        PROVE  Responsible'
    BY <1>2, <1>9 DEF ReceiveCompletes, GoesQuiet, HeartbeatChecks, liveVars
  <1> QED
    BY <1>3, <1>4, <1>5, <1>6, <1>7, <1>8, <1>9 DEF Next, AcceptThread

\* Whoever gives a connection up, in whichever order, its session is on the way out
\* of SessionManager, except for a session that PostSend has disconnected, which
\* nobody ever removes.
THEOREM LeaksBySendOnly == Spec => []OnlySendLeaks
  <1>1. Init => Responsible
    BY DEF Init, Responsible
  <1>2. Responsible => OnlySendLeaks
    BY DEF Responsible, OnlySendLeaks, Leaving
  <1> QED
    BY <1>1, <1>2, NextResponsible, Invariance, PTL DEF Spec
=============================================================================
