---------------------------- MODULE CaseLifecycle ----------------------------
(***************************************************************************)
(* The life of one case over days (src/app/outcome_agent/loop): ticks that *)
(* judge promises, promote the invoice when it is due and run the case     *)
(* loop when the case is due; replies, applied and answered; the clock     *)
(* jump; the signals of the ERP and the buttons.  Each handler is one step *)
(* here: SendTail has what happens between its awaits.                     *)
(*                                                                         *)
(* Times are whole days.  The contact addresses are known, a draft always  *)
(* passes the content checks of the guardrail or is blocked as a whole.    *)
(***************************************************************************)
EXTENDS Goals

CONSTANTS
    DueDay,         \* the invoice's due date, in days from the first sync
    NudgeInterval,  \* policy.nudge_interval_days
    Horizon,        \* bound: the last day looked at
    Replies,        \* the replies that may come, with dates in days from then
    MaxReplies      \* bound on replies and edits of the promise

\* unsure: the interpreter asks for clarification; authorizes: the PM lets
\* the agent write to the customer, or names a contact there.
ReplyRecord ==
    [type : ReplyType, dated : BOOLEAN, in : Int, unsure : BOOLEAN,
     authorizes : BOOLEAN]

ASSUME LifecycleAssumption ==
    /\ DueDay \in Nat
    /\ NudgeInterval \in Nat \ {0}
    /\ Horizon \in Nat
    /\ Replies \subseteq ReplyRecord
    /\ MaxReplies \in Nat

VARIABLES
    day,         \* sim_clock.now, in days
    case,        \* the row of the case
    sent,        \* the email the last step sent, or NoEmail
    \* history, for the properties only
    replies,     \* replies, and edits of the promise, so far
    promises,    \* promises to pay recorded so far
    deferred,    \* the customer asked not to be written to before this day
    authorised   \* the PM has let the agent write to the customer

history == <<replies, promises, deferred, authorised>>
vars == <<day, case, sent, replies, promises, deferred, authorised>>

Never == -1    \* next_action_at is NULL

Commitment == [type : CommitmentType, date : Int]

\* commitments: the active ones; lastFollowUp: the date of the one of them
\* that was added last as a check-back; failedAsks counts to 2, which is all
\* that is asked of it.
Case ==
    [state : CaseState, world : WorldSnapshot, budget : AutonomyBudget,
     dialogue : Dialogue, commitments : SUBSET Commitment,
     lastFollowUp : Int, failedAsks : 0 .. 2, pmCheckFailed : BOOLEAN,
     next : Int, target : Party]

NoEmail == [tactic |-> "none", to |-> "none"]
Email == [tactic : Tactic, to : Party]

TypeOK ==
    /\ day \in 0 .. Horizon
    /\ case \in Case
    /\ sent \in Email \cup {NoEmail}
    /\ replies \in 0 .. MaxReplies
    /\ promises \in 0 .. replies
    /\ deferred \in Int
    /\ authorised \in BOOLEAN

\* sync_due_invoices_from_erp creates the case.
NewCase ==
    [state         |-> IF DueDay > 0 THEN "not_due"
                       ELSE IF DueDay = 0 THEN "due" ELSE "overdue",
     world         |-> OpenWorld(1),
     budget        |-> FreshBudget,
     dialogue      |-> NoDialogue,
     commitments   |-> {},
     lastFollowUp  |-> Never,
     failedAsks    |-> 0,
     pmCheckFailed |-> FALSE,
     next          |-> IF DueDay > 0 THEN DueDay ELSE Never,
     target        |-> "pm"]

Init ==
    /\ day = 0
    /\ case = NewCase
    /\ sent = NoEmail
    /\ replies = 0
    /\ promises = 0
    /\ deferred = Never
    /\ authorised = FALSE

-----------------------------------------------------------------------------
(* The case loop: what it may make of a case, and the email it sends       *)

Outcome(c, email) == [case |-> c, email |-> email]

Escalated(c) == [c EXCEPT !.state = "escalated_to_human", !.next = Never]

\* State after outreach.
AfterSend(c, act, d) ==
    LET budget == ConsumeUnanswered(c.budget)
        state  == IF act.objective \in {"verify_payment", "clarify_date"}
                     \/ c.state \in OUTREACH_STATES
                  THEN "waiting_for_customer" ELSE c.state
    IN [c EXCEPT !.budget = budget,
                 !.dialogue.outbound = TRUE,
                 !.dialogue.lastTactic = act.tactic,
                 !.next = d + NudgeInterval,
                 !.state = IF Exhausted(budget) THEN "escalation_required"
                           ELSE state]

\* One action of the pool, carried out; the guardrail may block any draft.
Execute(c, act, d) ==
    IF act.tactic = "escalation_pack" THEN {Outcome(Escalated(c), NoEmail)}
    ELSE {Outcome(c, NoEmail)} \cup
         (IF CheckBeforeSend(c.state, c.world)
          THEN {Outcome(AfterSend(c, act, d),
                        [tactic |-> act.tactic,
                         to |-> Recipient(c, act.tactic)])}
          ELSE {})

RunCaseLoop(c, d) ==
    IF IsPaid(c.world) \/ c.state = "paid"
    THEN {Outcome([c EXCEPT !.state = "paid", !.next = Never], NoEmail)}
    ELSE IF c.state \in SKIPPED_STATES THEN {Outcome(c, NoEmail)}
    ELSE IF HardStop(c.budget) \/ ChooseObjective(c) = "escalate_handoff"
    THEN {Outcome(Escalated(c), NoEmail)}
    ELSE UNION {Execute(c, act, d) : act \in Pool(c)}

-----------------------------------------------------------------------------
(* The tick *)

DuePromises(c, d) ==
    {p \in c.commitments : p.type = "payment_date" /\ p.date <= d}

\* A confirmation solicits nothing, so no miss is blamed on it.
Blamed(c) == c.dialogue.lastTactic \notin {"confirm_promise", "blocker_ack"}

\* Seeded defect: a missed promise stays active.
Judge_StaysActive(c, d) ==
    IF c.state \notin {"promise_to_pay", "promise_missed"}
       \/ DuePromises(c, d) = {} \/ IsPaid(c.world)
    THEN c
    ELSE [c EXCEPT !.budget = ConsumeMiss(@), !.state = "promise_missed",
                   !.next = d]

\* judge_due_commitments, and what the tick makes of its result.
Judge(c, d) ==
    IF c.state \notin {"promise_to_pay", "promise_missed"}
       \/ DuePromises(c, d) = {}
    THEN c
    ELSE IF IsPaid(c.world) THEN [c EXCEPT !.commitments = @ \ DuePromises(c, d)]
    ELSE [c EXCEPT
            !.commitments = @ \ DuePromises(c, d),
            !.budget = ConsumeMiss(@),
            !.state = "promise_missed",
            !.next = d,
            !.failedAsks = IF Blamed(c) /\ @ < 2 THEN @ + 1 ELSE @,
            !.pmCheckFailed =
                @ \/ c.dialogue.lastTactic = "pm_awareness_check"]

Promote(c, d) ==
    IF c.state \in {"not_due", "due"} /\ DueDay <= d
    THEN [c EXCEPT !.state = "overdue", !.next = d]
    ELSE c

\* Seeded defect: a case that was just resumed is not looked for.
EXTRA_STATES_NoResumed ==
    {"customer_responded", "escalation_required", "promise_missed", "overdue"}

\* States a tick processes even without a date for the next action.
EXTRA_STATES ==
    {"outreach_ready", "customer_responded", "escalation_required",
     "promise_missed", "overdue"}

\* Seeded defect: a tick does not wait for next_action_at.
Selected_Always(c, d) == c.state \notin COLLECTIONS_SUPPRESSED_STATES

\* list_due, and the extras beside it.
Selected(c, d) ==
    \/ /\ c.next # Never /\ c.next <= d
       /\ c.state \notin COLLECTIONS_SUPPRESSED_STATES
    \/ c.next = Never /\ c.state \in EXTRA_STATES

TickOutcomes(c, d) ==
    LET swept == Promote(Judge(c, d), d)
    IN IF Selected(swept, d) THEN RunCaseLoop(swept, d)
       ELSE {Outcome(swept, NoEmail)}

Become(outcomes) ==
    \E o \in outcomes : case' = o.case /\ sent' = o.email

Tick ==
    /\ day' = day
    /\ Become(TickOutcomes(case, day))
    /\ UNCHANGED history

Midnight ==
    /\ day < Horizon
    /\ day' = day + 1
    /\ sent' = NoEmail
    /\ UNCHANGED <<case, history>>

\* An operator moves the clock; a check-back whose day has come wakes the
\* case, and a tick follows.
Woken(c, d) ==
    IF /\ c.state \in {"follow_up_scheduled", "blocked"}
       /\ \E p \in c.commitments :
            p.type = "follow_up_date" /\ p.date <= d
    THEN [c EXCEPT !.state = "outreach_ready", !.next = d]
    ELSE IF IsDbStateTerminal(c.state) THEN [c EXCEPT !.next = Never]
    ELSE [c EXCEPT !.next = IF @ = Never THEN d ELSE @]

JumpClock ==
    /\ day' \in day + 1 .. Horizon
    /\ Become(TickOutcomes(Woken(case, day'), day'))
    /\ deferred' = Never
    /\ UNCHANGED <<replies, promises, authorised>>

-----------------------------------------------------------------------------
(* A reply: interpreted, applied, saved, and answered unless it put the    *)
(* case off to a date.                                                     *)

ReplyDate(r, d) == d + r.in

Promises(r) ==
    \/ r.type = "payment_date" /\ r.dated /\ r.in >= 0
    \/ r.type = "hostile" /\ r.dated

ChecksBack(r) == r.type \in {"blocker", "checkback"} /\ r.dated

\* Seeded defect: a new promise does not supersede what was active.
Recorded_KeepsOld(c, r, d) ==
    IF Promises(r)
    THEN [c EXCEPT !.commitments =
              @ \cup {[type |-> "payment_date", date |-> ReplyDate(r, d)]},
                   !.lastFollowUp = Never]
    ELSE IF ChecksBack(r)
    THEN [c EXCEPT !.commitments =
              @ \cup {[type |-> "follow_up_date", date |-> ReplyDate(r, d)]},
                   !.lastFollowUp = ReplyDate(r, d)]
    ELSE c

\* A promise supersedes every active commitment; a check-back joins them.
Recorded(c, r, d) ==
    IF Promises(r)
    THEN [c EXCEPT !.commitments =
              {[type |-> "payment_date", date |-> ReplyDate(r, d)]},
                   !.lastFollowUp = Never]
    ELSE IF ChecksBack(r)
    THEN [c EXCEPT !.commitments =
              @ \cup {[type |-> "follow_up_date", date |-> ReplyDate(r, d)]},
                   !.lastFollowUp = ReplyDate(r, d)]
    ELSE c

\* Seeded defect: any answer of the PM opens the way to the customer.
Retargeted_AnyReply(c, r) == [c EXCEPT !.target = "customer"]

Retargeted(c, r) ==
    IF r.authorizes THEN [c EXCEPT !.target = "customer"] ELSE c

Read(c, r) ==
    [c EXCEPT
       !.state = ReplyState(@, r.type, r.dated, r.in < 0),
       !.world = ReplyWorld(@, r.type),
       !.budget = ReplyBudget(@, r.type, r.dated),
       !.dialogue.inbound = TRUE,
       !.dialogue.vague = r.type = "vague",
       !.dialogue.unsure =
           r.unsure \/ (r.type = "payment_date" /\ r.dated /\ r.in < 0),
       !.dialogue.claimedPaid = @ \/ r.type = "paid_claim"]

Applied(c, r, d) == Recorded(Retargeted(Read(c, r), r), r, d)

\* The last check-back still active is ahead: the case is parked until then.
PutOff(c, r, d) ==
    /\ c.state \in {"follow_up_scheduled", "blocked"}
    /\ ~r.unsure
    /\ c.lastFollowUp > d

ReplyOutcomes(c, r, d) ==
    IF PutOff(c, r, d)
    THEN {Outcome([c EXCEPT !.next = c.lastFollowUp], NoEmail)}
    ELSE IF c.state \in {"paid", "disputed", "suppressed"}
    THEN {Outcome([c EXCEPT !.next = d], NoEmail)}
    ELSE RunCaseLoop([c EXCEPT !.next = d], d)

Reply(r) ==
    /\ replies < MaxReplies
    /\ day' = day
    /\ replies' = replies + 1
    /\ Become(ReplyOutcomes(Applied(case, r, day), r, day))
    /\ promises' = IF Promises(r) THEN promises + 1 ELSE promises
    /\ deferred' = IF ChecksBack(r) /\ r.in > 0 /\ ~r.unsure
                   THEN ReplyDate(r, day) ELSE Never
    /\ authorised' = (authorised \/ r.authorizes)

-----------------------------------------------------------------------------
(* The ERP's signals and the buttons *)

Payment ==
    /\ case' = [case EXCEPT !.state = "paid", !.next = Never,
                            !.world.status = "paid", !.world.balance_due = 0,
                            !.commitments = {}, !.lastFollowUp = Never]
    /\ sent' = NoEmail
    /\ UNCHANGED <<day, history>>

Dispute ==
    /\ case' = [case EXCEPT !.state = "disputed", !.next = Never,
                            !.world.status = "disputed"]
    /\ sent' = NoEmail
    /\ UNCHANGED <<day, history>>

Button(s, next) ==
    /\ case' = [case EXCEPT !.state = s, !.next = next]
    /\ sent' = NoEmail
    /\ UNCHANGED <<day, replies, promises, authorised>>

Pause == Button("paused", case.next) /\ UNCHANGED deferred
Close == Button("closed", Never) /\ UNCHANGED deferred
Resume == Button("outreach_ready", case.next) /\ deferred' = Never
Restart == Button("overdue", day) /\ deferred' = Never

\* edit_case_commitment_endpoint: a person sets the promised date, whatever
\* became of the case.  The date is checked against the real clock, which a
\* jump leaves behind: by the case's clock it may be past.
EditCommitment ==
    /\ replies < MaxReplies
    /\ \E n \in 0 .. Horizon :
         case' = [case EXCEPT
                    !.state = "promise_to_pay",
                    !.commitments = {[type |-> "payment_date", date |-> n]},
                    !.lastFollowUp = Never]
    /\ sent' = NoEmail
    /\ replies' = replies + 1
    /\ promises' = promises + 1
    /\ deferred' = Never
    /\ UNCHANGED <<day, authorised>>

Next ==
    \/ Tick \/ Midnight \/ JumpClock
    \/ \E r \in Replies : Reply(r)
    \/ Payment \/ Dispute
    \/ Pause \/ Close \/ Resume \/ Restart \/ EditCommitment

Spec == Init /\ [][Next]_vars

-----------------------------------------------------------------------------
(* Properties *)

(***************************************************************************)
(* One promise at a time: whatever was promised before, by whom and in     *)
(* which tone, a new date supersedes it (signal_ingestion.py, and web.py   *)
(* for the date a person sets), so there is never a choice of dates to     *)
(* confirm or to judge.                                                    *)
(***************************************************************************)
OnePromise ==
    \A p, q \in case.commitments :
        p.type = "payment_date" /\ q.type = "payment_date" => p = q

(***************************************************************************)
(* A promise is judged at most once: the misses charged to the budget      *)
(* never outnumber the promises that were made or set, over any number of  *)
(* ticks on any number of days.                                            *)
(***************************************************************************)
OneMissPerPromise == case.budget.misses_used <= promises

(***************************************************************************)
(* "confirm_promise must be unreachable unless an active payment_date      *)
(* commitment exists" (FIX_PLAN_commitment_grounding.md): an email that    *)
(* acknowledges a promise leaves a row in which there is one.              *)
(***************************************************************************)
ConfirmGrounded ==
    sent.tactic = "confirm_promise" =>
        \E p \in case.commitments : p.type = "payment_date"

(***************************************************************************)
(* A case that was put off to a date is left alone until that date by      *)
(* every tick and by the reply itself, unless the customer writes again or *)
(* an operator takes the case in hand.                                     *)
(***************************************************************************)
DeferralKept == day < deferred => sent = NoEmail

(***************************************************************************)
(* The customer hears nothing before the PM has let the agent write to     *)
(* them, whatever tactic the planner picks.                                *)
(***************************************************************************)
PmFirst == sent.to = "customer" => authorised

(***************************************************************************)
(* No open case sleeps for ever: a case the agent still works on has a day *)
(* on which a tick looks at it, or a promise it judges, through closing,   *)
(* resuming, edits of the promise, disputes and jumps of the clock; unless *)
(* the invoice is paid.                                                    *)
(***************************************************************************)
AlwaysWoken ==
    case.state \notin COLLECTIONS_SUPPRESSED_STATES =>
        \/ case.next # Never
        \/ case.state \in EXTRA_STATES \cup {"not_due", "due"}
        \/ /\ case.state = "promise_to_pay"
           /\ \/ IsPaid(case.world)
              \/ \E p \in case.commitments : p.type = "payment_date"
=============================================================================
