----------------------------- MODULE GoalsProofs -----------------------------
(***************************************************************************)
(* Lemmas about the operators of the domain (CaseDomain): what they        *)
(* return, what they clear and what they keep; and theorems about the      *)
(* planner (Goals).  For every case and every budget.                      *)
(***************************************************************************)
EXTENDS Goals, TLAPS

(* The domain *)

LEMMA ReplyStateTyped ==
  ASSUME NEW state \in CaseState, NEW type \in ReplyType,
         NEW dated \in BOOLEAN, NEW past \in BOOLEAN
  PROVE  ReplyState(state, type, dated, past) \in CaseState
BY DEF ReplyState, Transition, HardRule, CaseState, ReplyType

(***************************************************************************)
(* A reply never closes or pauses a case, and none makes it paid.          *)
(***************************************************************************)
LEMMA ReplyStateOpen ==
  ASSUME NEW state, NEW type \in ReplyType,
         NEW dated \in BOOLEAN, NEW past \in BOOLEAN
  PROVE  ReplyState(state, type, dated, past)
           \notin {"closed", "paused", "paid", "escalated_to_human"}
BY DEF ReplyState, Transition, HardRule, ReplyType

LEMMA ReplyWorldTyped ==
  ASSUME NEW world \in WorldSnapshot, NEW type
  PROVE  ReplyWorld(world, type) \in WorldSnapshot
BY DEF ReplyWorld, WorldSnapshot

LEMMA ConsumeMissTyped ==
  ASSUME NEW b \in AutonomyBudget
  PROVE  /\ ConsumeMiss(b) \in AutonomyBudget
         /\ ConsumeMiss(b).unanswered_used = b.unanswered_used
         /\ ConsumeMiss(b).misses_used <= b.misses_used + 1
BY DEF AutonomyBudget, ConsumeMiss

LEMMA ConsumeUnansweredTyped ==
  ASSUME NEW b \in AutonomyBudget
  PROVE  /\ ConsumeUnanswered(b) \in AutonomyBudget
         /\ ConsumeUnanswered(b).misses_used = b.misses_used
BY DEF AutonomyBudget, ConsumeUnanswered

(***************************************************************************)
(* The budget a reply leaves: the unanswered count is cleared, the misses  *)
(* stay, and the rest is well-formed.                                      *)
(***************************************************************************)
LEMMA ReplyBudgetTyped ==
  ASSUME NEW b \in AutonomyBudget, NEW type, NEW dated
  PROVE  /\ ReplyBudget(b, type, dated) \in AutonomyBudget
         /\ ReplyBudget(b, type, dated).unanswered_used = 0
         /\ ReplyBudget(b, type, dated).misses_used = b.misses_used
<1> DEFINE c == ResetUnansweredOnReply(b)
<1>1. /\ c \in AutonomyBudget
      /\ c.unanswered_used = 0 /\ c.misses_used = b.misses_used
  BY DEF AutonomyBudget, ResetUnansweredOnReply
<1>2. /\ ConsumePostponement(c) \in AutonomyBudget
      /\ ConsumePostponement(c).unanswered_used = 0
      /\ ConsumePostponement(c).misses_used = b.misses_used
  <2> HIDE DEF c
  <2> DEFINE e == [c EXCEPT !.postponements_used = c.postponements_used + 1]
  <2>1. c.postponements_used + 1 \in Nat
    BY <1>1 DEF AutonomyBudget
  <2>2. e \in AutonomyBudget
    BY <1>1, <2>1 DEF AutonomyBudget
  <2>3. e.unanswered_used = 0 /\ e.misses_used = b.misses_used
    BY <1>1 DEF AutonomyBudget
  <2>4. QED
    BY <1>1, <2>2, <2>3 DEF ConsumePostponement
<1>3. QED
  BY <1>1, <1>2 DEF ReplyBudget

-----------------------------------------------------------------------------
(* The planner *)

(***************************************************************************)
(* SendTail sees the planner only as MustEscalate: a run hands off without *)
(* planning exactly when the budget hard-stops or choose_objective         *)
(* (goals.py) returns escalate_handoff, whatever the dialogue and the      *)
(* commitments say.                                                        *)
(***************************************************************************)
THEOREM PlannerEscalates ==
  ASSUME NEW case
  PROVE  MustEscalate(case.state, case.world, case.budget)
           <=> \/ HardStop(case.budget)
               \/ ChooseObjective(case) = "escalate_handoff"
<1>1. EngagedObjective(case) # "escalate_handoff"
  BY DEF EngagedObjective
<1>2. QED
  BY <1>1 DEF MustEscalate, ChooseObjective

LEMMA ObjectiveTyped ==
  ASSUME NEW case
  PROVE  ChooseObjective(case) \in Objective
BY DEF ChooseObjective, EngagedObjective, Objective

(***************************************************************************)
(* "confirm_promise must be unreachable unless an active payment_date      *)
(* commitment exists": no objective, tactic order or stock candidate puts  *)
(* it in the pool (goals.py, action_simulator.py) without one.             *)
(***************************************************************************)
THEOREM ConfirmNeedsPromise ==
  ASSUME NEW case, NEW act \in Pool(case), act.tactic = "confirm_promise"
  PROVE  \E c \in case.commitments : c.type = "payment_date"
<1> DEFINE o == ChooseObjective(case)
<1>1. "confirm_promise" \in Tactics(case, o)
  BY DEF Pool, Act
<1>2. ActiveCommitmentType(case.commitments) = "payment_date"
  <2>1. o \in Objective
    BY ObjectiveTyped
  <2> HIDE DEF o
  <2>2. QED
    BY <1>1, <2>1 DEF Tactics, Objective
<1>3. QED
  BY <1>2 DEF ActiveCommitmentType

(***************************************************************************)
(* Whatever is written while the case is directed at the PM goes to the PM *)
(* (communication.py).                                                     *)
(***************************************************************************)
LEMMA PmHearsFirst ==
  ASSUME NEW case, case.target = "pm", NEW t
  PROVE  Recipient(case, t) = "pm"
BY DEF Recipient

LEMMA RecipientTyped ==
  ASSUME NEW case, NEW t
  PROVE  Recipient(case, t) \in Party
BY DEF Recipient, Party

(***************************************************************************)
(* Every candidate is a tactic and an objective the agent knows.           *)
(***************************************************************************)
LEMMA PoolTyped ==
  ASSUME NEW case, NEW act \in Pool(case)
  PROVE  act.tactic \in Tactic /\ act.objective \in Objective
<1> DEFINE o == ChooseObjective(case)
<1>1. o \in Objective
  BY ObjectiveTyped
<1>2. Tactics(case, o) \subseteq Tactic
  <2> HIDE DEF o
  <2>1. QED
    BY <1>1 DEF Tactics, Tactic, Objective
<1>3. CASE act \in {Act(t, o) : t \in Tactics(case, o)}
  <2> HIDE DEF o
  <2>1. QED
    BY <1>1, <1>2, <1>3 DEF Act
<1>4. CASE act \in {Act("clarify_ask", "clarify_date"),
                    Act("soft_nudge", "establish_contact"),
                    Act("firm_reminder", "obtain_commitment"),
                    Act("verify_payment_ask", "verify_payment"),
                    Act("escalation_pack", "escalate_handoff")}
  BY <1>4 DEF Act, Tactic, Objective
<1>5. QED
  BY <1>3, <1>4 DEF Pool
=============================================================================
