----------------------------- MODULE CaseDomain -----------------------------
(***************************************************************************)
(* The vocabulary of the outcome agent (src/app/outcome_agent/domain): the *)
(* states of a collections case, what the ERP says of the invoice (the     *)
(* world), the autonomy budget, the state machine, and the guardrail that  *)
(* every outgoing email passes.  Constant-level: no variables.             *)
(***************************************************************************)
EXTENDS Integers

CONSTANTS MaxUnanswered,      \* AutonomyBudget.max_unanswered
          MaxPostponements,   \* AutonomyBudget.max_postponements
          MaxMissedPromises   \* AutonomyBudget.max_missed_promises

ASSUME BudgetAssumption ==
    /\ MaxUnanswered \in Nat \ {0}
    /\ MaxPostponements \in Nat \ {0}
    /\ MaxMissedPromises \in Nat \ {0}

-----------------------------------------------------------------------------
(* Case states *)

CaseState ==
    {"not_due", "due", "overdue", "outreach_ready", "waiting_for_customer",
     "customer_responded", "blocked", "follow_up_scheduled",
     "promise_to_pay", "promise_missed", "disputed", "suppressed",
     "escalation_required", "escalated_to_human", "paid", "closed", "paused"}

TERMINAL_STATES == {"disputed", "suppressed", "paid", "closed"}

\* Seeded defect: a case that waits for its escalation is not listed as due.
COLLECTIONS_SUPPRESSED_STATES_Escalating ==
    TERMINAL_STATES \cup {"escalated_to_human", "paused", "escalation_required"}

COLLECTIONS_SUPPRESSED_STATES ==
    TERMINAL_STATES \cup {"escalated_to_human", "paused"}

\* States a stale in-memory copy must never overwrite.
IsDbStateTerminal(s) == s \in TERMINAL_STATES \cup {"escalated_to_human"}

\* States both loops return on at once; "disputed" is left out on purpose.
SKIPPED_STATES == {"suppressed", "closed", "paused", "escalated_to_human"}

\* States an outreach email moves to waiting_for_customer.
OUTREACH_STATES ==
    {"customer_responded", "promise_missed", "outreach_ready", "overdue",
     "due"}

-----------------------------------------------------------------------------
(* World truth.  balance_due is an amount; consent_ok outlives a later     *)
(* write of the single-valued status.                                      *)

WorldSnapshot ==
    [balance_due : Nat,
     status      : {"open", "paid", "disputed", "opted_out"},
     consent_ok  : BOOLEAN]

OpenWorld(amount) ==
    [balance_due |-> amount, status |-> "open", consent_ok |-> TRUE]

IsPaid(world)     == world.balance_due = 0 \/ world.status = "paid"
IsDisputed(world) == world.status = "disputed"
OptedOut(world)   == world.status = "opted_out" \/ ~world.consent_ok

-----------------------------------------------------------------------------
(* Autonomy budget (P3) *)

AutonomyBudget ==
    [unanswered_used : Nat, postponements_used : Nat, misses_used : Nat]

FreshBudget ==
    [unanswered_used |-> 0, postponements_used |-> 0, misses_used |-> 0]

Exhausted(b) ==
    \/ b.unanswered_used >= MaxUnanswered
    \/ b.misses_used >= MaxMissedPromises
    \/ b.postponements_used >= MaxPostponements

\* hard_stop_reason is not None: postponements are not looked at here.
HardStop(b) ==
    \/ b.unanswered_used >= MaxUnanswered
    \/ b.misses_used >= MaxMissedPromises

ConsumeUnanswered(b) == [b EXCEPT !.unanswered_used = @ + 1]

ResetUnansweredOnReply(b) == [b EXCEPT !.unanswered_used = 0]

\* The two counters below are only ever compared with >= their maximum, so
\* they stop there: an unbounded count says nothing more.
ConsumePostponement(b) ==
    IF b.postponements_used < MaxPostponements
    THEN [b EXCEPT !.postponements_used = @ + 1]
    ELSE b

ConsumeMiss(b) ==
    IF b.misses_used < MaxMissedPromises
    THEN [b EXCEPT !.misses_used = @ + 1]
    ELSE b

-----------------------------------------------------------------------------
(* The state machine, for the events the code raises: transition()         *)
(* hard-codes these whatever the state; a paid_claim moves only            *)
(* customer_responded; a pair it does not know leaves the state alone.     *)

HardRule ==
    [opt_out |-> "suppressed", dispute |-> "disputed",
     hostile |-> "escalation_required"]

Transition(from, event) ==
    CASE event \in DOMAIN HardRule -> HardRule[event]
      [] event = "paid_claim" /\ from = "customer_responded" ->
             "waiting_for_customer"
      [] OTHER -> from

-----------------------------------------------------------------------------
(* What an interpreted reply does to the state and to world truth *)

ReplyType ==
    {"payment_date", "checkback", "blocker", "paid_claim", "dispute",
     "unsubscribe", "vague", "hostile", "handoff", "unknown"}

\* dated: the reply names a date; past: that date is already behind today.
ReplyState(state, type, dated, past) ==
    CASE type = "unsubscribe" -> Transition(state, "opt_out")
      [] type = "dispute" -> Transition(state, "dispute")
      [] type \in {"hostile", "handoff"} -> Transition(state, "hostile")
      [] type = "paid_claim" ->
             IF Transition(state, "paid_claim") = state
             THEN "waiting_for_customer"
             ELSE Transition(state, "paid_claim")
      [] type = "payment_date" /\ dated /\ ~past -> "promise_to_pay"
      [] type = "blocker" -> "blocked"
      [] type = "checkback" -> "follow_up_scheduled"
      [] OTHER -> "customer_responded"

\* Seeded defect: an opt-out only suppresses the case, not the contact.
ReplyWorld_StateOnly(world, type) == world

ReplyWorld(world, type) ==
    IF type = "unsubscribe"
    THEN [world EXCEPT !.consent_ok = FALSE, !.status = "opted_out"]
    ELSE world

\* A reply clears the unanswered count; one that only names a later date to
\* come back on is a postponement.
ReplyBudget(budget, type, dated) ==
    IF type \in {"blocker", "checkback"} /\ dated
    THEN ConsumePostponement(ResetUnansweredOnReply(budget))
    ELSE ResetUnansweredOnReply(budget)

-----------------------------------------------------------------------------
(* The guardrail before a send, on the row that was just re-read.  Its     *)
(* other checks (blackout day, language, placeholder, allowlist) may block *)
(* any draft and are left to the modules that use it.                      *)

CheckBeforeSend(state, world) ==
    /\ ~IsPaid(world) /\ state # "paid"
    /\ ~OptedOut(world) /\ state # "suppressed"
    /\ ~IsDisputed(world) /\ state # "disputed"

\* choose_objective() returns escalate_handoff, or the budget hard-stops.
MustEscalate(state, world, budget) ==
    \/ HardStop(budget)
    \/ /\ ~IsPaid(world) /\ ~OptedOut(world)
       /\ \/ IsDisputed(world)
          \/ state \in {"disputed", "escalation_required",
                        "escalated_to_human"}
          \/ Exhausted(budget)
=============================================================================
