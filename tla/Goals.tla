-------------------------------- MODULE Goals --------------------------------
(***************************************************************************)
(* How the agent decides what to say (src/app/outcome_agent/domain/goals.py*)
(* and loop/action_simulator.py): from a case to an objective, from the    *)
(* objective to a tactic, and the pool the planner picks its action from.  *)
(* Constant-level operators on a case record; CaseLifecycle runs them.     *)
(***************************************************************************)
EXTENDS CaseDomain

-----------------------------------------------------------------------------
(* The part of a case the decision reads *)

Tactic ==
    {"pm_awareness_check", "polite_outreach", "soft_nudge", "firm_reminder",
     "clarify_ask", "confirm_promise", "blocker_ack", "verify_payment_ask",
     "reflexion_reask", "escalation_pack", "dispute_route", "followup_nudge"}

Objective ==
    {"establish_contact", "obtain_commitment", "verify_payment",
     "clarify_date", "resolve_blocker", "recover_missed_promise",
     "escalate_handoff", "suppress_collections"}

\* blocker_resolution_date exists in the code and nothing ever records one.
CommitmentType == {"payment_date", "follow_up_date"}

Party == {"pm", "customer"}

\* inbound, outbound: a reply came, an email went out; vague, unsure: how the
\* latest reply was read; claimedPaid is never taken back.
Dialogue ==
    [inbound : BOOLEAN, outbound : BOOLEAN, vague : BOOLEAN, unsure : BOOLEAN,
     claimedPaid : BOOLEAN, lastTactic : Tactic \cup {"none"}]

NoDialogue ==
    [inbound |-> FALSE, outbound |-> FALSE, vague |-> FALSE, unsure |-> FALSE,
     claimedPaid |-> FALSE, lastTactic |-> "none"]

\* Seeded defect: the type of the commitment is erased (before 2026-08-20).
ActiveCommitmentType_Erased(commitments) ==
    IF commitments = {} THEN "none" ELSE "payment_date"

\* commitments: the active ones.  A promise to pay outranks a check-back.
ActiveCommitmentType(commitments) ==
    IF \E c \in commitments : c.type = "payment_date" THEN "payment_date"
    ELSE IF commitments # {} THEN "follow_up_date"
    ELSE "none"

ConflictsWithWorld(case) ==
    case.dialogue.claimedPaid /\ ~IsPaid(case.world)

NeedsClarification(case) == case.dialogue.vague \/ case.dialogue.unsure

-----------------------------------------------------------------------------
(* choose_objective: the first branch that applies *)

\* The PM has not sent the agent to the customer yet.
AwaitingPm(case) ==
    /\ case.target = "pm"
    /\ case.state \notin {"blocked", "promise_to_pay", "promise_missed"}
    /\ ~(case.state = "waiting_for_customer" /\ case.dialogue.inbound)

EngagedObjective(case) ==
    IF /\ ActiveCommitmentType(case.commitments) = "payment_date"
       /\ \/ case.state = "follow_up_scheduled"
          \/ /\ case.state \in {"overdue", "due", "outreach_ready",
                                "waiting_for_customer"}
             /\ case.dialogue.inbound
    THEN "obtain_commitment"
    ELSE "establish_contact"

ChooseObjective(case) ==
    IF IsPaid(case.world) \/ OptedOut(case.world) THEN "suppress_collections"
    ELSE IF \/ IsDisputed(case.world)
            \/ case.state \in {"disputed", "escalation_required",
                               "escalated_to_human"}
            \/ Exhausted(case.budget) THEN "escalate_handoff"
    ELSE IF ConflictsWithWorld(case) THEN "verify_payment"
    ELSE IF NeedsClarification(case) THEN "clarify_date"
    ELSE IF AwaitingPm(case) THEN "establish_contact"
    ELSE IF case.state = "promise_missed" THEN "recover_missed_promise"
    ELSE IF case.state = "blocked" THEN "resolve_blocker"
    ELSE IF /\ case.state = "promise_to_pay"
            /\ ActiveCommitmentType(case.commitments) = "payment_date"
         THEN "obtain_commitment"
    ELSE IF case.failedAsks >= 2 THEN "clarify_date"
    ELSE EngagedObjective(case)

-----------------------------------------------------------------------------
(* choose_tactic: learned weights and failed asks reorder the candidates   *)
(* of an objective, so any of them may come first.                         *)

PmCheckFirst(case, objective) ==
    /\ objective = "establish_contact"
    /\ case.target = "pm" \/ ~case.dialogue.outbound
    /\ ~case.pmCheckFailed

Tactics(case, objective) ==
    IF PmCheckFirst(case, objective) THEN {"pm_awareness_check"}
    ELSE CASE objective = "verify_payment" -> {"verify_payment_ask"}
           [] objective = "clarify_date" -> {"clarify_ask"}
           [] objective = "escalate_handoff" -> {"escalation_pack"}
           [] objective = "suppress_collections" ->
                  IF case.state = "disputed" THEN {"dispute_route"}
                  ELSE {"escalation_pack"}
           [] objective = "resolve_blocker" -> {"blocker_ack", "soft_nudge"}
           [] objective = "recover_missed_promise" ->
                  {"reflexion_reask", "firm_reminder", "clarify_ask"}
           [] objective = "obtain_commitment" ->
                  {"clarify_ask", "firm_reminder"} \cup
                  (IF ActiveCommitmentType(case.commitments) = "payment_date"
                   THEN {"confirm_promise"} ELSE {})
           [] objective = "establish_contact" ->
                  IF ActiveCommitmentType(case.commitments) = "follow_up_date"
                  THEN {"followup_nudge", "clarify_ask", "soft_nudge"}
                  ELSE {"polite_outreach", "soft_nudge", "firm_reminder"}

-----------------------------------------------------------------------------
(* simulate_candidates: the goal's own tactic and five stock candidates.   *)
(* Scores and the language model decide between them; either may choose    *)
(* any.                                                                    *)

Act(t, o) == [tactic |-> t, objective |-> o]

Pool(case) ==
    LET o == ChooseObjective(case)
    IN {Act(t, o) : t \in Tactics(case, o)}
         \cup {Act("clarify_ask", "clarify_date"),
               Act("soft_nudge", "establish_contact"),
               Act("firm_reminder", "obtain_commitment"),
               Act("verify_payment_ask", "verify_payment"),
               Act("escalation_pack", "escalate_handoff")}

\* resolve_recipient, the address of either party being known.
Recipient(case, t) ==
    IF case.target = "pm" \/ t = "pm_awareness_check" THEN "pm" ELSE "customer"
=============================================================================
