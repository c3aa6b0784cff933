---------------------------- MODULE PolicyMinute ----------------------------
(***************************************************************************)
(* The first minute under a traffic policy.  It begins when the first      *)
(* RefreshTrafficPolicy has stored it; policy_refresh_interval_ms is 30000 *)
(* in server.cfg, so one more pull falls into it, and MaxPulls is 2.       *)
(***************************************************************************)
EXTENDS Connections

VARIABLE letIn   \* connections let in for a token in this minute

MinuteInit == Init /\ letIn = 0

MinuteBegins == pulls = 1 /\ refresh = "stamp" /\ refresh' = "idle"

LetsIn == accept = "take" /\ accept' = "admit"

\* No stamp gets a minute old before the minute is over.
MinuteNext ==
    /\ Next /\ last' # "elapsed"
    /\ letIn' = IF MinuteBegins THEN 0 ELSE IF LetsIn THEN letIn + 1 ELSE letIn

MinuteSpec == MinuteInit /\ [][MinuteNext]_<<vars, letIn>>

----------------------------------------------------------------------------
\* The README says that maxConnectionsPerMinuteTotal limits the new connections
\* per minute: once it is stored, no more than that many are let in.  But
\* RefreshTrafficPolicy fills m_globalConnTokens with every answer, also when the
\* limit is what it was.
LimitPerMinute == pulls >= 1 /\ refresh = "idle" => letIn <= policy
=============================================================================
