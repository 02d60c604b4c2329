----------------------------- MODULE MCSendTail -----------------------------
(***************************************************************************)
(* Instances of SendTail for TLC: who runs what, and which replies come.   *)
(***************************************************************************)
EXTENDS SendTail

\* One task runs every loop in turn (as one operator clicking through the
\* API does); the ERP's signals and the buttons interleave with it.
OneAgentWorkers == {"agent", "erp"}
OneAgent == [agent |-> LoopKinds, erp |-> SignalKinds]

\* The tick poller against the API's manual follow-up.
TwoAgentWorkers == {"poller", "api"}
TwoAgents == [poller |-> {"tick"}, api |-> {"follow_up"}]

Reply(t) == [type |-> t, dated |-> FALSE, past |-> FALSE]
Dated(t) == [type |-> t, dated |-> TRUE, past |-> FALSE]

AllReplies ==
    {Reply("vague"), Reply("unsubscribe"), Reply("dispute"),
     Reply("hostile"), Reply("paid_claim"),
     Dated("payment_date"), Dated("checkback"), Dated("blocker")}
FewReplies == {Reply("vague"), Reply("unsubscribe"), Dated("checkback")}
NoReplies == {}
=============================================================================
