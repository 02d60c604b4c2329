------------------------- MODULE CaseLifecycleProofs -------------------------
(***************************************************************************)
(* Proofs about CaseLifecycle, for every due date, nudge interval, horizon,*)
(* budget and set of replies.                                              *)
(*                                                                         *)
(* The case loop, the tick and the answer to a reply are sets of outcomes. *)
(* Faithful says what the case loop may do to a case, Sound what the sweeps*)
(* of a tick may do besides; the theorems need nothing else of the planner.*)
(***************************************************************************)
EXTENDS CaseLifecycle, GoalsProofs

IsPromise(p) == p.type = "payment_date"

\* AlwaysWoken, of a case.
Awake(c) ==
    c.state \notin COLLECTIONS_SUPPRESSED_STATES =>
        \/ c.next # Never
        \/ c.state \in EXTRA_STATES \cup {"not_due", "due"}
        \/ /\ c.state = "promise_to_pay"
           /\ \/ IsPaid(c.world)
              \/ \E p \in c.commitments : p.type = "payment_date"

\* The misses charged, with a broken promise for the one that is new.
Charged(c, d) ==
    \/ d.budget.misses_used = c.budget.misses_used
    \/ /\ d.budget.misses_used <= c.budget.misses_used + 1
       /\ \E p \in c.commitments \ d.commitments : IsPromise(p)

Faithful(c, o) ==
    /\ o.case \in Case
    /\ o.email \in Email \cup {NoEmail}
    /\ o.case.commitments = c.commitments
    /\ o.case.target = c.target
    /\ o.case.budget.misses_used = c.budget.misses_used
    /\ o.email.to = "customer" => c.target = "customer"
    /\ o.email.tactic = "confirm_promise" =>
           \E p \in c.commitments : IsPromise(p)
    /\ Awake(c) => Awake(o.case)

Sound(c, o) ==
    /\ o.case \in Case
    /\ o.email \in Email \cup {NoEmail}
    /\ o.case.commitments \subseteq c.commitments
    /\ o.case.target = c.target
    /\ o.email.to = "customer" => c.target = "customer"
    /\ o.email.tactic = "confirm_promise" =>
           \E p \in o.case.commitments : IsPromise(p)
    /\ Charged(c, o.case)
    /\ Awake(c) => Awake(o.case)

-----------------------------------------------------------------------------
(* The case loop *)

LEMMA OutcomeFields ==
  ASSUME NEW c, NEW e
  PROVE  Outcome(c, e).case = c /\ Outcome(c, e).email = e
BY DEF Outcome

LEMMA NoEmailFields ==
  NoEmail.to # "customer" /\ NoEmail.tactic # "confirm_promise"
BY DEF NoEmail

(***************************************************************************)
(* A step that sends nothing and only moves the case to a state, with a    *)
(* date or none, is faithful if it leaves the case awake.                  *)
(***************************************************************************)
LEMMA MoveFaithful ==
  ASSUME NEW c \in Case, NEW s \in CaseState, NEW n \in Int,
         LET m == [c EXCEPT !.state = s, !.next = n] IN Awake(c) => Awake(m)
  PROVE  Faithful(c, Outcome([c EXCEPT !.state = s, !.next = n], NoEmail))
<1> DEFINE m == [c EXCEPT !.state = s, !.next = n]
<1>1. /\ m \in Case
      /\ m.commitments = c.commitments
      /\ m.target = c.target
      /\ m.budget = c.budget
  BY DEF Case
<1>2. Awake(c) => Awake(m)
  OBVIOUS
<1>3. Faithful(c, Outcome(m, NoEmail))
  <2> HIDE DEF m
  <2>1. QED
    BY <1>1, <1>2, OutcomeFields, NoEmailFields DEF Faithful
<1>4. QED
  BY <1>3

LEMMA StayFaithful ==
  ASSUME NEW c \in Case
  PROVE  Faithful(c, Outcome(c, NoEmail))
BY OutcomeFields, NoEmailFields DEF Faithful

LEMMA EscalatedFaithful ==
  ASSUME NEW c \in Case
  PROVE  Faithful(c, Outcome(Escalated(c), NoEmail))
<1>1. "escalated_to_human" \in CaseState /\ Never \in Int
  BY DEF CaseState, Never
<1>2. Awake([c EXCEPT !.state = "escalated_to_human", !.next = Never])
  BY DEF Case, Awake, COLLECTIONS_SUPPRESSED_STATES
<1>3. QED
  BY <1>1, <1>2, MoveFaithful DEF Escalated

(***************************************************************************)
(* After a send the case is well-formed, keeps its commitments, target and *)
(* misses, and has a date for the next action (executor.py).               *)
(***************************************************************************)
LEMMA AfterSendTyped ==
  ASSUME NEW c \in Case, NEW act, act.tactic \in Tactic, NEW d \in Nat
  PROVE  LET s == AfterSend(c, act, d)
         IN /\ s \in Case
            /\ s.commitments = c.commitments
            /\ s.target = c.target
            /\ s.budget.misses_used = c.budget.misses_used
            /\ s.next # Never
<1> DEFINE budget == ConsumeUnanswered(c.budget)
           state  == IF act.objective \in {"verify_payment", "clarify_date"}
                        \/ c.state \in OUTREACH_STATES
                     THEN "waiting_for_customer" ELSE c.state
           st     == IF Exhausted(budget) THEN "escalation_required" ELSE state
           dlg    == [c.dialogue EXCEPT !.outbound = TRUE,
                                        !.lastTactic = act.tactic]
           n      == d + NudgeInterval
<1>1. budget \in AutonomyBudget /\ budget.misses_used = c.budget.misses_used
  BY ConsumeUnansweredTyped DEF Case
<1>2. st \in CaseState
  BY DEF Case, CaseState
<1>3. dlg \in Dialogue
  BY DEF Case, Dialogue
<1>4. n \in Int /\ n # Never
  BY LifecycleAssumption DEF Never
<1>5. AfterSend(c, act, d) =
        [c EXCEPT !.budget = budget, !.dialogue = dlg, !.next = n, !.state = st]
  BY DEF AfterSend, Case, Dialogue
<1> HIDE DEF budget, st, dlg, n
<1>6. QED
  BY <1>1, <1>2, <1>3, <1>4, <1>5 DEF Case

LEMMA ExecuteFaithful ==
  ASSUME NEW c \in Case, NEW d \in Nat, NEW act \in Pool(c),
         NEW o \in Execute(c, act, d)
  PROVE  Faithful(c, o)
<1> DEFINE e == [tactic |-> act.tactic, to |-> Recipient(c, act.tactic)]
           s == AfterSend(c, act, d)
<1>1. CASE o = Outcome(Escalated(c), NoEmail)
  BY <1>1, EscalatedFaithful
<1>2. CASE o = Outcome(c, NoEmail)
  BY <1>2, StayFaithful
<1>3. CASE o = Outcome(s, e)
  <2>1. act.tactic \in Tactic
    BY PoolTyped
  <2>2. e \in Email
    BY <2>1, RecipientTyped DEF Email
  <2>3. e.to = "customer" => c.target = "customer"
    BY DEF Recipient, Case, Party
  <2>4. e.tactic = "confirm_promise" => \E p \in c.commitments : IsPromise(p)
    BY ConfirmNeedsPromise DEF IsPromise
  <2>5. /\ s \in Case
        /\ s.commitments = c.commitments
        /\ s.target = c.target
        /\ s.budget.misses_used = c.budget.misses_used
        /\ s.next # Never
    BY <2>1, AfterSendTyped
  <2> HIDE DEF e, s
  <2>6. o.case = s /\ o.email = e
    BY <1>3, OutcomeFields
  <2>7. QED
    BY <2>2, <2>3, <2>4, <2>5, <2>6 DEF Faithful, Awake
<1>4. QED
  BY <1>1, <1>2, <1>3 DEF Execute

LEMMA LoopFaithful ==
  ASSUME NEW c \in Case, NEW d \in Nat, NEW o \in RunCaseLoop(c, d)
  PROVE  Faithful(c, o)
<1>1. CASE o = Outcome([c EXCEPT !.state = "paid", !.next = Never], NoEmail)
  <2>1. "paid" \in CaseState /\ Never \in Int
    BY DEF CaseState, Never
  <2>2. Awake([c EXCEPT !.state = "paid", !.next = Never])
    BY DEF Case, Awake, COLLECTIONS_SUPPRESSED_STATES, TERMINAL_STATES
  <2>3. QED
    BY <1>1, <2>1, <2>2, MoveFaithful
<1>2. CASE o = Outcome(c, NoEmail)
  BY <1>2, StayFaithful
<1>3. CASE o = Outcome(Escalated(c), NoEmail)
  BY <1>3, EscalatedFaithful
<1>4. CASE \E act \in Pool(c) : o \in Execute(c, act, d)
  BY <1>4, ExecuteFaithful
<1>5. QED
  BY <1>1, <1>2, <1>3, <1>4 DEF RunCaseLoop

-----------------------------------------------------------------------------
(* The tick *)

LEMMA MissedTyped ==
  ASSUME NEW c \in Case, NEW left \in SUBSET Commitment,
         NEW b \in AutonomyBudget, NEW s \in CaseState, NEW n \in Int,
         NEW f \in 0 .. 2, NEW k \in BOOLEAN
  PROVE  [c EXCEPT !.commitments = left, !.budget = b, !.state = s,
                   !.next = n, !.failedAsks = f, !.pmCheckFailed = k] \in Case
BY DEF Case

(***************************************************************************)
(* The judge (post_outcome.py) drops the promises it judges, charges a     *)
(* miss only if it drops one, and leaves the case awake.                   *)
(***************************************************************************)
LEMMA JudgeSound ==
  ASSUME NEW c \in Case, NEW d \in Nat
  PROVE  LET j == Judge(c, d)
         IN /\ j \in Case
            /\ j.commitments \subseteq c.commitments
            /\ j.target = c.target
            /\ Charged(c, j)
            /\ Awake(c) => Awake(j)
<1> DEFINE due == DuePromises(c, d)
<1>0. due \subseteq c.commitments /\ \A p \in due : IsPromise(p)
  BY DEF DuePromises, IsPromise
<1>1. CASE Judge(c, d) = c
  BY <1>1 DEF Charged
<1>2. CASE /\ IsPaid(c.world)
           /\ Judge(c, d) = [c EXCEPT !.commitments = c.commitments \ due]
  <2> DEFINE j == [c EXCEPT !.commitments = c.commitments \ due]
  <2>1. j \in Case
    BY DEF Case
  <2>2. /\ j.commitments \subseteq c.commitments
        /\ j.target = c.target /\ j.budget = c.budget
        /\ j.state = c.state /\ j.next = c.next /\ j.world = c.world
    BY DEF Case
  <2> HIDE DEF j
  <2>3. QED
    BY <1>2, <2>1, <2>2 DEF Charged, Awake, j
<1>3. CASE /\ due # {}
           /\ Judge(c, d) = [c EXCEPT
                 !.commitments = @ \ due,
                 !.budget = ConsumeMiss(@),
                 !.state = "promise_missed",
                 !.next = d,
                 !.failedAsks = IF Blamed(c) /\ @ < 2 THEN @ + 1 ELSE @,
                 !.pmCheckFailed =
                     @ \/ c.dialogue.lastTactic = "pm_awareness_check"]
  <2> DEFINE b == ConsumeMiss(c.budget)
             f == IF Blamed(c) /\ c.failedAsks < 2
                  THEN c.failedAsks + 1 ELSE c.failedAsks
             k == c.pmCheckFailed
                    \/ c.dialogue.lastTactic = "pm_awareness_check"
             left == c.commitments \ due
             j == [c EXCEPT !.commitments = left, !.budget = b,
                            !.state = "promise_missed", !.next = d,
                            !.failedAsks = f, !.pmCheckFailed = k]
  <2>1. Judge(c, d) = j
    BY <1>3 DEF Case
  <2>2. b \in AutonomyBudget /\ b.misses_used <= c.budget.misses_used + 1
    BY ConsumeMissTyped DEF Case
  <2>3. f \in 0 .. 2
    BY DEF Case
  <2>4. k \in BOOLEAN
    BY DEF Case
  <2>5. "promise_missed" \in CaseState /\ d \in Int
    BY DEF CaseState
  <2>6. left \in SUBSET Commitment
    BY DEF Case
  <2> HIDE DEF b, f, k, left
  <2>7. j \in Case
    BY <2>2, <2>3, <2>4, <2>5, <2>6, MissedTyped
  <2>8. /\ j.commitments = left /\ j.target = c.target
        /\ j.budget = b /\ j.next = d
    BY DEF Case
  <2>9. PICK p \in due : IsPromise(p)
    BY <1>0, <1>3
  <2>10. p \in c.commitments \ left
    BY <1>0, <2>9 DEF left
  <2>11. d # Never
    BY DEF Never
  <2> HIDE DEF j
  <2>12. QED
    BY <2>1, <2>2, <2>7, <2>8, <2>9, <2>10, <2>11 DEF Charged, Awake, left
<1>4. QED
  BY <1>1, <1>2, <1>3 DEF Judge

LEMMA PromoteSound ==
  ASSUME NEW c \in Case, NEW d \in Nat
  PROVE  LET j == Promote(c, d)
         IN /\ j \in Case
            /\ j.commitments = c.commitments
            /\ j.target = c.target
            /\ j.budget = c.budget
            /\ Awake(c) => Awake(j)
<1> DEFINE m == [c EXCEPT !.state = "overdue", !.next = d]
<1>1. "overdue" \in CaseState /\ d \in Int /\ d # Never
  BY DEF CaseState, Never
<1>2. /\ m \in Case
      /\ m.commitments = c.commitments
      /\ m.target = c.target
      /\ m.budget = c.budget
      /\ m.next = d
  BY <1>1 DEF Case
<1>3. Awake(m)
  BY <1>1, <1>2 DEF Awake
<1>0. Promote(c, d) = c \/ Promote(c, d) = m
  BY DEF Promote
<1> HIDE DEF m
<1>4. CASE Promote(c, d) = c
  BY <1>4
<1>5. CASE Promote(c, d) = m
  BY <1>2, <1>3, <1>5
<1>6. QED
  BY <1>0, <1>4, <1>5

(***************************************************************************)
(* What a tick may make of a case, and the email it may send.              *)
(***************************************************************************)
LEMMA TickSound ==
  ASSUME NEW c \in Case, NEW d \in Nat, NEW o \in TickOutcomes(c, d)
  PROVE  Sound(c, o)
<1> DEFINE j == Judge(c, d)
           swept == Promote(j, d)
<1>1. /\ j \in Case /\ j.commitments \subseteq c.commitments
      /\ j.target = c.target /\ Charged(c, j) /\ (Awake(c) => Awake(j))
  BY JudgeSound
<1> HIDE DEF j
<1>2. /\ swept \in Case /\ swept.commitments = j.commitments
      /\ swept.target = j.target /\ swept.budget = j.budget
      /\ (Awake(j) => Awake(swept))
  BY <1>1, PromoteSound
<1> HIDE DEF swept
<1>3. Faithful(swept, o)
  <2>1. o \in RunCaseLoop(swept, d) \/ o = Outcome(swept, NoEmail)
    BY DEF TickOutcomes, swept, j
  <2>2. QED
    BY <1>2, <2>1, LoopFaithful, StayFaithful
<1>4. Charged(c, o.case)
  <2>1. /\ c.budget.misses_used \in Nat
        /\ swept.budget.misses_used = j.budget.misses_used
    BY <1>2 DEF Case, AutonomyBudget
  <2>2. QED
    BY <1>1, <1>2, <1>3, <2>1 DEF Faithful, Charged
<1>5. QED
  BY <1>1, <1>2, <1>3, <1>4 DEF Faithful, Sound

-----------------------------------------------------------------------------
(* The clock jump and the reply *)

LEMMA WaitTyped ==
  ASSUME NEW c \in Case, NEW n \in Int
  PROVE  LET w == [c EXCEPT !.next = n]
         IN /\ w \in Case
            /\ w.commitments = c.commitments
            /\ w.target = c.target
            /\ w.budget = c.budget
            /\ w.state = c.state
            /\ w.next = n
BY DEF Case

(***************************************************************************)
(* The jump (scheduler.py) leaves every case it touches awake.             *)
(***************************************************************************)
LEMMA WokenSound ==
  ASSUME NEW c \in Case, NEW d \in Nat
  PROVE  LET w == Woken(c, d)
         IN /\ w \in Case
            /\ w.commitments = c.commitments
            /\ w.target = c.target
            /\ w.budget = c.budget
            /\ Awake(w)
<1>0. d \in Int /\ Never \in Int /\ d # Never
  BY DEF Never
<1>1. CASE Woken(c, d) = [c EXCEPT !.state = "outreach_ready", !.next = d]
  <2> DEFINE m == [c EXCEPT !.state = "outreach_ready", !.next = d]
  <2>1. "outreach_ready" \in CaseState
    BY DEF CaseState
  <2>2. /\ m \in Case /\ m.commitments = c.commitments
        /\ m.target = c.target /\ m.budget = c.budget /\ m.next = d
    BY <1>0, <2>1 DEF Case
  <2> HIDE DEF m
  <2>3. Woken(c, d) = m
    BY <1>1 DEF m
  <2>4. QED
    BY <1>0, <2>2, <2>3 DEF Awake
<1>2. CASE /\ IsDbStateTerminal(c.state)
           /\ Woken(c, d) = [c EXCEPT !.next = Never]
  <2>1. c.state \in COLLECTIONS_SUPPRESSED_STATES
    BY <1>2 DEF IsDbStateTerminal, COLLECTIONS_SUPPRESSED_STATES
  <2>2. QED
    BY <1>0, <1>2, <2>1, WaitTyped DEF Awake
<1>3. CASE Woken(c, d)
             = [c EXCEPT !.next = IF @ = Never THEN d ELSE @]
  <2> DEFINE n == IF c.next = Never THEN d ELSE c.next
  <2>1. n \in Int /\ n # Never
    BY <1>0 DEF Case
  <2>2. Woken(c, d) = [c EXCEPT !.next = n]
    BY <1>3 DEF Case
  <2> HIDE DEF n
  <2>3. QED
    BY <2>1, <2>2, WaitTyped DEF Awake
<1>4. QED
  BY <1>1, <1>2, <1>3 DEF Woken

(***************************************************************************)
(* What a jump to day d may make of a case.                                *)
(***************************************************************************)
LEMMA JumpSound ==
  ASSUME NEW c \in Case, NEW d \in Nat, NEW o \in TickOutcomes(Woken(c, d), d)
  PROVE  Sound(c, o) /\ Awake(o.case)
<1> DEFINE w == Woken(c, d)
<1>1. /\ w \in Case /\ w.commitments = c.commitments
      /\ w.target = c.target /\ w.budget = c.budget /\ Awake(w)
  BY WokenSound
<1> HIDE DEF w
<1>2. Sound(w, o)
  BY <1>1, TickSound DEF w
<1>3. QED
  BY <1>1, <1>2 DEF Sound, Charged

(***************************************************************************)
(* A reply, read, records at most one promise and retires every other; it  *)
(* opens the way to the customer only if it says so.                       *)
(***************************************************************************)
LEMMA ReadTyped ==
  ASSUME NEW c \in Case, NEW r \in ReplyRecord
  PROVE  LET a == Read(c, r)
         IN /\ a \in Case
            /\ a.commitments = c.commitments
            /\ a.target = c.target
            /\ a.budget.misses_used = c.budget.misses_used
            /\ a.state = ReplyState(c.state, r.type, r.dated, r.in < 0)
<1> DEFINE s == ReplyState(c.state, r.type, r.dated, r.in < 0)
           w == ReplyWorld(c.world, r.type)
           b == ReplyBudget(c.budget, r.type, r.dated)
           v == r.type = "vague"
           u == r.unsure \/ (r.type = "payment_date" /\ r.dated /\ r.in < 0)
           k == c.dialogue.claimedPaid \/ r.type = "paid_claim"
           g == [c.dialogue EXCEPT !.inbound = TRUE, !.vague = v,
                                   !.unsure = u, !.claimedPaid = k]
           a == [c EXCEPT !.state = s, !.world = w, !.budget = b,
                          !.dialogue = g]
<1>1. s \in CaseState
  <2>1. r.type \in ReplyType /\ r.dated \in BOOLEAN /\ (r.in < 0) \in BOOLEAN
    BY DEF ReplyRecord
  <2>2. c.state \in CaseState
    BY DEF Case
  <2>3. QED
    BY <2>1, <2>2, ReplyStateTyped
<1>2. w \in WorldSnapshot
  BY ReplyWorldTyped DEF Case
<1>3. b \in AutonomyBudget /\ b.misses_used = c.budget.misses_used
  BY ReplyBudgetTyped DEF Case
<1>4. g \in Dialogue
  <2>1. v \in BOOLEAN /\ u \in BOOLEAN /\ k \in BOOLEAN
    OBVIOUS
  <2>2. c.dialogue \in Dialogue
    BY DEF Case
  <2>3. ASSUME NEW x \in BOOLEAN, NEW y \in BOOLEAN, NEW z \in BOOLEAN
        PROVE  [c.dialogue EXCEPT !.inbound = TRUE, !.vague = x,
                                  !.unsure = y, !.claimedPaid = z] \in Dialogue
    BY <2>2 DEF Dialogue
  <2> HIDE DEF v, u, k
  <2>4. QED
    BY <2>1, <2>3
<1>5. Read(c, r) = a
  BY DEF Read, Case, Dialogue
<1> HIDE DEF s, w, b, g
<1>6. QED
  BY <1>1, <1>2, <1>3, <1>4, <1>5 DEF Case, s

LEMMA RecordedTyped ==
  ASSUME NEW c \in Case, NEW r \in ReplyRecord, NEW d \in Nat
  PROVE  LET a == Recorded(c, r, d)
         IN /\ a \in Case
            /\ a.target = c.target
            /\ a.budget = c.budget
            /\ a.state = c.state
            /\ Promises(r) => \A p \in a.commitments :
                                 p = [type |-> "payment_date",
                                      date |-> ReplyDate(r, d)]
            /\ ~Promises(r) => \A p \in a.commitments :
                                 IsPromise(p) => p \in c.commitments
            /\ ChecksBack(r) => a.lastFollowUp = ReplyDate(r, d)
<1> DEFINE day_ == ReplyDate(r, d)
           pay == [type |-> "payment_date", date |-> day_]
           back == [type |-> "follow_up_date", date |-> day_]
<1>1. day_ \in Int /\ Never \in Int
  BY DEF ReplyDate, ReplyRecord, Never
<1>2. pay \in Commitment /\ back \in Commitment /\ ~IsPromise(back)
  BY <1>1 DEF Commitment, CommitmentType, IsPromise
<1>3. ~(Promises(r) /\ ChecksBack(r))
  BY DEF Promises, ChecksBack
<1>4. c.commitments \in SUBSET Commitment
  BY DEF Case
<1> HIDE DEF day_, pay, back
<1>5. CASE Promises(r)
  <2>1. Recorded(c, r, d)
          = [c EXCEPT !.commitments = {pay}, !.lastFollowUp = Never]
    BY <1>5 DEF Recorded, pay, day_
  <2>2. {pay} \in SUBSET Commitment
    BY <1>2
  <2> DEFINE a == Recorded(c, r, d)
  <2>3. /\ a \in Case /\ a.target = c.target /\ a.budget = c.budget
        /\ a.state = c.state /\ a.commitments = {pay}
    BY <1>1, <2>1, <2>2 DEF Case
  <2> HIDE DEF a
  <2>4. \A p \in a.commitments :
           p = [type |-> "payment_date", date |-> ReplyDate(r, d)]
    BY <2>3 DEF pay, day_
  <2>5. QED
    BY <1>3, <1>5, <2>3, <2>4 DEF a
<1>6. CASE ChecksBack(r)
  <2> DEFINE x == c.commitments \cup {back}
  <2>1. Recorded(c, r, d)
          = [c EXCEPT !.commitments = x, !.lastFollowUp = day_]
    BY <1>3, <1>6 DEF Recorded, Case, back, day_
  <2>2. x \in SUBSET Commitment /\ \A p \in x : IsPromise(p) => p \in c.commitments
    BY <1>2, <1>4
  <2> HIDE DEF x
  <2> DEFINE a == Recorded(c, r, d)
  <2>3. /\ a \in Case /\ a.target = c.target /\ a.budget = c.budget
        /\ a.state = c.state /\ a.commitments = x /\ a.lastFollowUp = day_
    BY <1>1, <2>1, <2>2 DEF Case
  <2> HIDE DEF a
  <2>4. QED
    BY <1>3, <1>6, <2>2, <2>3 DEF a, day_
<1>7. CASE ~Promises(r) /\ ~ChecksBack(r)
  BY <1>7 DEF Recorded
<1>8. QED
  BY <1>5, <1>6, <1>7

LEMMA AppliedTyped ==
  ASSUME NEW c \in Case, NEW r \in ReplyRecord, NEW d \in Nat
  PROVE  LET a == Applied(c, r, d)
         IN /\ a \in Case
            /\ a.target = "customer" => c.target = "customer" \/ r.authorizes
            /\ a.budget.misses_used = c.budget.misses_used
            /\ a.state = ReplyState(c.state, r.type, r.dated, r.in < 0)
            /\ Promises(r) => \A p \in a.commitments :
                                 p = [type |-> "payment_date",
                                      date |-> ReplyDate(r, d)]
            /\ ~Promises(r) => \A p \in a.commitments :
                                 IsPromise(p) => p \in c.commitments
            /\ ChecksBack(r) => a.lastFollowUp = ReplyDate(r, d)
<1> DEFINE x == Read(c, r)
           y == Retargeted(x, r)
<1>1. /\ x \in Case /\ x.commitments = c.commitments /\ x.target = c.target
      /\ x.budget.misses_used = c.budget.misses_used
      /\ x.state = ReplyState(c.state, r.type, r.dated, r.in < 0)
  BY ReadTyped
<1> HIDE DEF x
<1>2. /\ y \in Case /\ y.commitments = x.commitments
      /\ y.target = "customer" => x.target = "customer" \/ r.authorizes
      /\ y.budget = x.budget /\ y.state = x.state
  BY <1>1 DEF Retargeted, Case, Party
<1> HIDE DEF y
<1>3. Applied(c, r, d) = Recorded(y, r, d)
  BY DEF Applied, x, y
<1>4. QED
  BY <1>1, <1>2, <1>3, RecordedTyped

(***************************************************************************)
(* Saving a reply, and answering it unless it put the case off, keeps what *)
(* the reply recorded and leaves the case awake (advance_case_with_reply). *)
(***************************************************************************)
LEMMA ReplyFaithful ==
  ASSUME NEW a \in Case, NEW r \in ReplyRecord, NEW d \in Nat,
         NEW o \in ReplyOutcomes(a, r, d)
  PROVE  Faithful(a, o) /\ Awake(o.case)
<1>0. d \in Int /\ d # Never
  BY DEF Never
<1>1. ASSUME NEW n \in Int, n # Never,
             Faithful([a EXCEPT !.next = n], o)
      PROVE  Faithful(a, o) /\ Awake(o.case)
  <2> DEFINE w == [a EXCEPT !.next = n]
  <2>1. /\ w \in Case /\ w.commitments = a.commitments /\ w.target = a.target
        /\ w.budget = a.budget /\ w.next = n
    BY WaitTyped
  <2> HIDE DEF w
  <2>2. Faithful(w, o)
    BY <1>1 DEF w
  <2>3. Awake(w)
    BY <1>1, <2>1 DEF Awake
  <2>4. QED
    BY <2>1, <2>2, <2>3 DEF Faithful
<1>2. CASE PutOff(a, r, d) /\ o = Outcome([a EXCEPT !.next = a.lastFollowUp], NoEmail)
  <2>1. a.lastFollowUp \in Int /\ a.lastFollowUp # Never
    BY <1>2 DEF PutOff, Case, Never
  <2>2. [a EXCEPT !.next = a.lastFollowUp] \in Case
    BY <2>1, WaitTyped
  <2>3. QED
    BY <1>1, <1>2, <2>1, <2>2, StayFaithful
<1>3. CASE o = Outcome([a EXCEPT !.next = d], NoEmail)
  BY <1>0, <1>1, <1>3, StayFaithful, WaitTyped
<1>4. CASE o \in RunCaseLoop([a EXCEPT !.next = d], d)
  BY <1>0, <1>1, <1>4, LoopFaithful, WaitTyped
<1>5. QED
  BY <1>2, <1>3, <1>4 DEF ReplyOutcomes

-----------------------------------------------------------------------------
(* Type correctness *)

LEMMA NewCaseTyped == NewCase \in Case
<1>1. OpenWorld(1) \in WorldSnapshot /\ FreshBudget \in AutonomyBudget
  BY DEF OpenWorld, WorldSnapshot, FreshBudget, AutonomyBudget
<1>2. NoDialogue \in Dialogue
  BY DEF NoDialogue, Dialogue
<1>3. {} \in SUBSET Commitment /\ 0 \in 0 .. 2
  OBVIOUS
<1> DEFINE n == IF DueDay > 0 THEN DueDay ELSE Never
           s == IF DueDay > 0 THEN "not_due"
                ELSE IF DueDay = 0 THEN "due" ELSE "overdue"
<1>4. n \in Int /\ Never \in Int
  BY LifecycleAssumption DEF Never
<1>5. s \in CaseState /\ "pm" \in Party
  BY DEF CaseState, Party
<1> HIDE DEF n, s
<1>6. QED
  BY <1>1, <1>2, <1>3, <1>4, <1>5 DEF NewCase, Case, n, s

LEMMA PaymentTyped ==
  ASSUME NEW c \in Case
  PROVE  [c EXCEPT !.state = "paid", !.next = Never, !.world.status = "paid",
                   !.world.balance_due = 0, !.commitments = {},
                   !.lastFollowUp = Never] \in Case
<1>1. [c.world EXCEPT !.status = "paid", !.balance_due = 0] \in WorldSnapshot
  BY DEF Case, WorldSnapshot
<1>2. "paid" \in CaseState /\ Never \in Int
  BY DEF CaseState, Never
<1>3. QED
  BY <1>1, <1>2 DEF Case

LEMMA DisputeTyped ==
  ASSUME NEW c \in Case
  PROVE  [c EXCEPT !.state = "disputed", !.next = Never,
                   !.world.status = "disputed"] \in Case
<1>1. [c.world EXCEPT !.status = "disputed"] \in WorldSnapshot
  BY DEF Case, WorldSnapshot
<1>2. "disputed" \in CaseState /\ Never \in Int
  BY DEF CaseState, Never
<1>3. QED
  BY <1>1, <1>2 DEF Case

\* A date that a person sets is the only commitment.
LEMMA EditTyped ==
  ASSUME NEW c \in Case, NEW n \in 0 .. Horizon
  PROVE  LET e == [c EXCEPT
                     !.state = "promise_to_pay",
                     !.commitments = {[type |-> "payment_date", date |-> n]},
                     !.lastFollowUp = Never]
         IN /\ e \in Case
            /\ e.state = "promise_to_pay"
            /\ e.commitments = {[type |-> "payment_date", date |-> n]}
            /\ e.target = c.target /\ e.budget = c.budget
<1>1. [type |-> "payment_date", date |-> n] \in Commitment
  BY DEF Commitment, CommitmentType
<1>2. "promise_to_pay" \in CaseState /\ Never \in Int
  BY DEF CaseState, Never
<1>3. QED
  BY <1>1, <1>2 DEF Case

(***************************************************************************)
(* Every reachable state is well-formed.                                   *)
(***************************************************************************)
THEOREM LifecycleTyping == Spec => []TypeOK
<1>1. Init => TypeOK
  <2> SUFFICES ASSUME Init PROVE TypeOK
    OBVIOUS
  <2>1. case \in Case
    BY NewCaseTyped DEF Init
  <2>2. day \in 0 .. Horizon /\ replies \in 0 .. MaxReplies
    BY LifecycleAssumption DEF Init
  <2>3. promises \in 0 .. replies /\ deferred \in Int
    BY DEF Init, Never
  <2>4. sent \in Email \cup {NoEmail} /\ authorised \in BOOLEAN
    BY DEF Init
  <2>5. QED
    BY <2>1, <2>2, <2>3, <2>4 DEF TypeOK
<1>2. TypeOK /\ [Next]_vars => TypeOK'
  <2> SUFFICES ASSUME TypeOK, [Next]_vars PROVE TypeOK'
    OBVIOUS
  <2>0. /\ case \in Case /\ day \in 0 .. Horizon /\ day \in Nat
        /\ Never \in Int /\ NoEmail \in Email \cup {NoEmail}
    BY DEF TypeOK, Never
  <2>1. CASE Tick
    <3>1. PICK o \in TickOutcomes(case, day) : case' = o.case /\ sent' = o.email
      BY <2>1 DEF Tick, Become
    <3>2. Sound(case, o)
      BY <2>0, <3>1, TickSound
    <3>3. QED
      BY <2>1, <3>1, <3>2 DEF Tick, Sound, TypeOK, history
  <2>2. CASE Midnight
    BY <2>0, <2>2, LifecycleAssumption DEF Midnight, TypeOK, history
  <2>3. CASE JumpClock
    <3>1. PICK o \in TickOutcomes(Woken(case, day'), day') :
            case' = o.case /\ sent' = o.email
      BY <2>3 DEF JumpClock, Become
    <3>2. day' \in 0 .. Horizon /\ day' \in Nat
      BY <2>0, <2>3 DEF JumpClock
    <3>3. Sound(case, o)
      BY <2>0, <3>1, <3>2, JumpSound
    <3>4. QED
      BY <2>0, <2>3, <3>1, <3>2, <3>3 DEF JumpClock, Sound, TypeOK
  <2>4. ASSUME NEW r \in Replies, Reply(r) PROVE TypeOK'
    <3> DEFINE a == Applied(case, r, day)
    <3>1. PICK o \in ReplyOutcomes(a, r, day) : case' = o.case /\ sent' = o.email
      BY <2>4 DEF Reply, Become
    <3>2. r \in ReplyRecord
      BY LifecycleAssumption
    <3>3. a \in Case
      BY <2>0, <3>2, AppliedTyped
    <3>4. Faithful(a, o)
      BY <2>0, <3>1, <3>2, <3>3, ReplyFaithful
    <3>5. ReplyDate(r, day) \in Int /\ r.authorizes \in BOOLEAN
      BY <2>0, <3>2 DEF ReplyDate, ReplyRecord
    <3>6. case' \in Case /\ sent' \in Email \cup {NoEmail}
      BY <3>1, <3>4 DEF Faithful
    <3>7. replies' \in 0 .. MaxReplies /\ promises' \in 0 .. replies'
      BY <2>4, LifecycleAssumption DEF Reply, TypeOK
    <3>8. deferred' \in Int
      BY <2>0, <2>4, <3>5 DEF Reply
    <3>9. authorised' \in BOOLEAN
      BY <2>4, <3>5 DEF Reply, TypeOK
    <3>10. QED
      BY <2>0, <2>4, <3>6, <3>7, <3>8, <3>9 DEF Reply, TypeOK
  <2>5. CASE Payment
    BY <2>0, <2>5, PaymentTyped DEF Payment, TypeOK, history
  <2>6. CASE Dispute
    BY <2>0, <2>6, DisputeTyped DEF Dispute, TypeOK, history
  <2>7. ASSUME NEW s \in CaseState, NEW n \in Int, Button(s, n),
               deferred' = deferred \/ deferred' = Never
        PROVE  TypeOK'
    <3>1. [case EXCEPT !.state = s, !.next = n] \in Case
      BY <2>0 DEF Case
    <3>2. QED
      BY <2>0, <2>7, <3>1 DEF Button, TypeOK
  <2>8. CASE Pause \/ Close \/ Resume \/ Restart
    <3>1. /\ {"paused", "closed", "outreach_ready", "overdue"} \subseteq CaseState
          /\ case.next \in Int /\ day \in Int
      BY <2>0 DEF CaseState, Case
    <3>2. QED
      BY <2>0, <2>7, <2>8, <3>1 DEF Pause, Close, Resume, Restart
  <2>9. CASE EditCommitment
    <3>1. case' \in Case
      <4>1. PICK n \in 0 .. Horizon :
              case' = [case EXCEPT
                         !.state = "promise_to_pay",
                         !.commitments = {[type |-> "payment_date",
                                           date |-> n]},
                         !.lastFollowUp = Never]
        BY <2>9 DEF EditCommitment
      <4>2. QED
        BY <2>0, <4>1, EditTyped
    <3>2. replies' \in 0 .. MaxReplies /\ promises' \in 0 .. replies'
      BY <2>9, LifecycleAssumption DEF EditCommitment, TypeOK
    <3>3. QED
      BY <2>0, <2>9, <3>1, <3>2 DEF EditCommitment, TypeOK
  <2>10. CASE UNCHANGED vars
    BY <2>10 DEF vars, TypeOK
  <2>11. QED
    BY <2>1, <2>2, <2>3, <2>4, <2>5, <2>6, <2>8, <2>9, <2>10 DEF Next
<1>3. QED
  BY <1>1, <1>2, PTL DEF Spec

-----------------------------------------------------------------------------
(* Promises, the PM, and waking up *)

(***************************************************************************)
(* The inductive invariant.  OneMissPerPromise is not inductive: a promise *)
(* that is still active must have its miss in reserve, and there must be   *)
(* only one of them.  PmFirst needs the row: the target is the customer    *)
(* only when the PM has agreed.                                            *)
(***************************************************************************)
MissReserved ==
    \/ case.budget.misses_used < promises
    \/ /\ case.budget.misses_used = promises
       /\ \A p \in case.commitments : ~IsPromise(p)

TargetAuthorised == case.target = "customer" => authorised

LifecycleInv ==
    /\ OnePromise
    /\ MissReserved
    /\ ConfirmGrounded
    /\ TargetAuthorised /\ PmFirst
    /\ AlwaysWoken

(***************************************************************************)
(* A step that makes a sound outcome of the case keeps the invariant.      *)
(***************************************************************************)
LEMMA SoundKeeps ==
  ASSUME TypeOK, LifecycleInv, NEW o, Sound(case, o),
         case' = o.case, sent' = o.email,
         promises' = promises, authorised' = authorised
  PROVE  LifecycleInv'
<1>1. OnePromise'
  BY DEF LifecycleInv, OnePromise, Sound
<1>2. MissReserved'
  <2>1. /\ case.budget.misses_used \in Nat /\ case'.budget.misses_used \in Nat
        /\ promises \in Nat
    BY DEF TypeOK, Sound, Case, AutonomyBudget
  <2>2. CASE case'.budget.misses_used = case.budget.misses_used
    BY <2>1, <2>2 DEF LifecycleInv, MissReserved, Sound
  <2>3. CASE /\ case'.budget.misses_used <= case.budget.misses_used + 1
             /\ \E p \in case.commitments \ case'.commitments : IsPromise(p)
    <3>1. \A q \in case'.commitments : ~IsPromise(q)
      BY <2>3 DEF LifecycleInv, OnePromise, IsPromise, Sound
    <3>2. case.budget.misses_used < promises
      BY <2>3 DEF LifecycleInv, MissReserved
    <3>3. case'.budget.misses_used <= promises
      BY <2>1, <2>3, <3>2
    <3>4. QED
      BY <2>1, <3>1, <3>3 DEF MissReserved
  <2>4. QED
    BY <2>2, <2>3 DEF Sound, Charged
<1>3. ConfirmGrounded'
  BY DEF ConfirmGrounded, IsPromise, Sound
<1>4. TargetAuthorised' /\ PmFirst'
  BY DEF LifecycleInv, TargetAuthorised, PmFirst, Sound
<1>5. AlwaysWoken'
  BY DEF LifecycleInv, AlwaysWoken, Awake, Sound
<1>6. QED
  BY <1>1, <1>2, <1>3, <1>4, <1>5 DEF LifecycleInv

(***************************************************************************)
(* So does a step that sends nothing, keeps or drops the commitments, and  *)
(* leaves the case awake.                                                  *)
(***************************************************************************)
LEMMA QuietKeeps ==
  ASSUME TypeOK, LifecycleInv, NEW c \in Case,
         c.commitments \subseteq case.commitments,
         c.target = case.target, c.budget = case.budget,
         Awake(case) => Awake(c),
         case' = c, sent' = NoEmail,
         promises' = promises, authorised' = authorised
  PROVE  LifecycleInv'
<1> DEFINE o == Outcome(c, NoEmail)
<1>1. o.case = c /\ o.email = NoEmail
  BY OutcomeFields
<1> HIDE DEF o
<1>2. Sound(case, o)
  BY <1>1, NoEmailFields DEF Sound, Charged
<1>3. QED
  BY <1>1, <1>2, SoundKeeps

LEMMA ReplyKeeps ==
  ASSUME TypeOK, LifecycleInv, NEW r \in Replies, Reply(r)
  PROVE  LifecycleInv'
<1> DEFINE a == Applied(case, r, day)
<1>1. PICK o \in ReplyOutcomes(a, r, day) : case' = o.case /\ sent' = o.email
  BY DEF Reply, Become
<1>2. r \in ReplyRecord /\ case \in Case /\ day \in Nat
  BY LifecycleAssumption DEF TypeOK
<1>3. /\ a \in Case
      /\ a.target = "customer" => case.target = "customer" \/ r.authorizes
      /\ a.budget.misses_used = case.budget.misses_used
      /\ Promises(r) => \A p \in a.commitments :
                           p = [type |-> "payment_date",
                                date |-> ReplyDate(r, day)]
      /\ ~Promises(r) => \A p \in a.commitments :
                           IsPromise(p) => p \in case.commitments
  BY <1>2, AppliedTyped
<1> HIDE DEF a
<1>4. Faithful(a, o) /\ Awake(o.case)
  BY <1>1, <1>2, <1>3, ReplyFaithful
<1>5. OnePromise'
  BY <1>1, <1>3, <1>4 DEF Faithful, OnePromise, LifecycleInv, IsPromise
<1>6. MissReserved'
  <2>1. /\ case.budget.misses_used \in Nat /\ promises \in Nat
        /\ case'.budget.misses_used = case.budget.misses_used
        /\ case'.commitments = a.commitments
    BY <1>1, <1>3, <1>4 DEF TypeOK, Faithful, Case, AutonomyBudget
  <2>2. CASE Promises(r)
    <3>1. promises' = promises + 1
      BY <2>2 DEF Reply
    <3>2. case.budget.misses_used <= promises
      BY <2>1 DEF LifecycleInv, MissReserved
    <3>3. QED
      BY <2>1, <3>1, <3>2 DEF MissReserved
  <2>3. CASE ~Promises(r)
    <3>1. promises' = promises
      BY <2>3 DEF Reply
    <3>2. QED
      BY <1>3, <2>1, <2>3, <3>1 DEF LifecycleInv, MissReserved
  <2>4. QED
    BY <2>2, <2>3
<1>7. ConfirmGrounded'
  BY <1>1, <1>4 DEF Faithful, ConfirmGrounded, IsPromise
<1>8. TargetAuthorised' /\ PmFirst'
  BY <1>1, <1>3, <1>4
     DEF Reply, Faithful, LifecycleInv, TargetAuthorised, PmFirst
<1>9. AlwaysWoken'
  BY <1>1, <1>4 DEF AlwaysWoken, Awake
<1>10. QED
  BY <1>5, <1>6, <1>7, <1>8, <1>9 DEF LifecycleInv

(***************************************************************************)
(* The signals of the ERP and the buttons leave the case awake.            *)
(***************************************************************************)
LEMMA ButtonKeeps ==
  ASSUME TypeOK, LifecycleInv, NEW s \in CaseState, NEW n \in Int,
         Button(s, n),
         \/ s \in COLLECTIONS_SUPPRESSED_STATES
         \/ s \in EXTRA_STATES
         \/ n # Never
  PROVE  LifecycleInv'
<1> DEFINE c == [case EXCEPT !.state = s, !.next = n]
<1>1. /\ c \in Case /\ c.state = s /\ c.next = n
      /\ c.commitments = case.commitments
      /\ c.target = case.target /\ c.budget = case.budget
  BY DEF TypeOK, Case
<1>2. /\ case' = c /\ sent' = NoEmail
      /\ promises' = promises /\ authorised' = authorised
  BY DEF Button
<1> HIDE DEF c
<1>3. Awake(c)
  BY <1>1 DEF Awake
<1>4. QED
  BY <1>1, <1>2, <1>3, QuietKeeps

LEMMA SignalKeeps ==
  ASSUME TypeOK, LifecycleInv, Payment \/ Dispute
  PROVE  LifecycleInv'
<1>0. case \in Case
  BY DEF TypeOK
<1>1. CASE Payment
  <2> DEFINE c == [case EXCEPT !.state = "paid", !.next = Never,
                               !.world.status = "paid",
                               !.world.balance_due = 0,
                               !.commitments = {}, !.lastFollowUp = Never]
  <2>1. c \in Case
    BY <1>0, PaymentTyped
  <2>2. /\ c.state = "paid" /\ c.commitments = {}
        /\ c.target = case.target /\ c.budget = case.budget
    BY <1>0 DEF Case
  <2>3. /\ case' = c /\ sent' = NoEmail
        /\ promises' = promises /\ authorised' = authorised
    BY <1>1 DEF Payment, history
  <2> HIDE DEF c
  <2>4. Awake(c)
    BY <2>2 DEF Awake, COLLECTIONS_SUPPRESSED_STATES, TERMINAL_STATES
  <2>5. QED
    BY <2>1, <2>2, <2>3, <2>4, QuietKeeps
<1>2. CASE Dispute
  <2> DEFINE c == [case EXCEPT !.state = "disputed", !.next = Never,
                               !.world.status = "disputed"]
  <2>1. c \in Case
    BY <1>0, DisputeTyped
  <2>2. /\ c.state = "disputed" /\ c.commitments = case.commitments
        /\ c.target = case.target /\ c.budget = case.budget
    BY <1>0 DEF Case
  <2>3. /\ case' = c /\ sent' = NoEmail
        /\ promises' = promises /\ authorised' = authorised
    BY <1>2 DEF Dispute, history
  <2> HIDE DEF c
  <2>4. Awake(c)
    BY <2>2 DEF Awake, COLLECTIONS_SUPPRESSED_STATES, TERMINAL_STATES
  <2>5. QED
    BY <2>1, <2>2, <2>3, <2>4, QuietKeeps
<1>3. QED
  BY <1>1, <1>2

(***************************************************************************)
(* A date that a person sets is a promise more, and the only one active.   *)
(***************************************************************************)
LEMMA EditKeeps ==
  ASSUME TypeOK, LifecycleInv, EditCommitment
  PROVE  LifecycleInv'
<1>1. PICK n \in 0 .. Horizon :
        case' = [case EXCEPT
                   !.state = "promise_to_pay",
                   !.commitments = {[type |-> "payment_date", date |-> n]},
                   !.lastFollowUp = Never]
  BY DEF EditCommitment
<1>2. /\ case'.state = "promise_to_pay"
      /\ case'.commitments = {[type |-> "payment_date", date |-> n]}
      /\ case'.target = case.target /\ case'.budget = case.budget
  BY <1>1, EditTyped DEF TypeOK
<1>3. OnePromise'
  BY <1>2 DEF OnePromise
<1>4. MissReserved'
  <2>1. case.budget.misses_used \in Nat /\ promises \in Nat
    BY DEF TypeOK, Case, AutonomyBudget
  <2>2. case.budget.misses_used <= promises /\ promises' = promises + 1
    BY <2>1 DEF LifecycleInv, MissReserved, EditCommitment
  <2>3. QED
    BY <1>2, <2>1, <2>2 DEF MissReserved
<1>5. ConfirmGrounded' /\ PmFirst'
  BY NoEmailFields DEF EditCommitment, ConfirmGrounded, PmFirst
<1>6. TargetAuthorised'
  BY <1>2 DEF LifecycleInv, TargetAuthorised, EditCommitment
<1>7. AlwaysWoken'
  BY <1>2 DEF AlwaysWoken
<1>8. QED
  BY <1>3, <1>4, <1>5, <1>6, <1>7 DEF LifecycleInv

(***************************************************************************)
(* LifecycleInv holds in every reachable state; the five invariants of the *)
(* lifecycle that concern promises, the PM and waking up follow.           *)
(***************************************************************************)
THEOREM LifecycleInvariant == Spec => []LifecycleInv
<1>1. Init => LifecycleInv
  <2> SUFFICES ASSUME Init PROVE LifecycleInv
    OBVIOUS
  <2>1. /\ case.commitments = {} /\ case.target = "pm"
        /\ case.budget.misses_used = 0 /\ promises = 0
        /\ case.state \in EXTRA_STATES \cup {"not_due", "due"}
    BY DEF Init, NewCase, FreshBudget, EXTRA_STATES
  <2>2. OnePromise /\ MissReserved
    BY <2>1 DEF OnePromise, MissReserved
  <2>3. ConfirmGrounded /\ PmFirst
    BY NoEmailFields DEF Init, ConfirmGrounded, PmFirst
  <2>4. TargetAuthorised /\ AlwaysWoken
    BY <2>1 DEF TargetAuthorised, AlwaysWoken
  <2>5. QED
    BY <2>2, <2>3, <2>4 DEF LifecycleInv
<1>2. TypeOK /\ LifecycleInv /\ [Next]_vars => LifecycleInv'
  <2> SUFFICES ASSUME TypeOK, LifecycleInv, [Next]_vars PROVE LifecycleInv'
    OBVIOUS
  <2>0. case \in Case /\ day \in Nat /\ Never \in Int
    BY DEF TypeOK, Never
  <2>1. CASE Tick
    <3>1. PICK o \in TickOutcomes(case, day) : case' = o.case /\ sent' = o.email
      BY <2>1 DEF Tick, Become
    <3>2. Sound(case, o)
      BY <2>0, <3>1, TickSound
    <3>3. promises' = promises /\ authorised' = authorised
      BY <2>1 DEF Tick, history
    <3>4. QED
      BY <3>1, <3>2, <3>3, SoundKeeps
  <2>2. CASE Midnight
    <3>1. /\ case' = case /\ sent' = NoEmail
          /\ promises' = promises /\ authorised' = authorised
      BY <2>2 DEF Midnight, history
    <3>2. QED
      BY <2>0, <3>1, QuietKeeps
  <2>3. CASE JumpClock
    <3>1. PICK o \in TickOutcomes(Woken(case, day'), day') :
            case' = o.case /\ sent' = o.email
      BY <2>3 DEF JumpClock, Become
    <3>2. day' \in Nat
      BY <2>0, <2>3 DEF JumpClock
    <3>3. Sound(case, o)
      BY <2>0, <3>1, <3>2, JumpSound
    <3>4. promises' = promises /\ authorised' = authorised
      BY <2>3 DEF JumpClock
    <3>5. QED
      BY <3>1, <3>3, <3>4, SoundKeeps
  <2>4. ASSUME NEW r \in Replies, Reply(r) PROVE LifecycleInv'
    BY <2>4, ReplyKeeps
  <2>5. CASE Payment \/ Dispute
    BY <2>5, SignalKeeps
  <2>6. CASE Pause \/ Close
    <3>1. /\ {"paused", "closed"} \subseteq CaseState
          /\ {"paused", "closed"} \subseteq COLLECTIONS_SUPPRESSED_STATES
          /\ case.next \in Int
      BY <2>0 DEF CaseState, COLLECTIONS_SUPPRESSED_STATES, TERMINAL_STATES, Case
    <3>2. QED
      BY <2>0, <2>6, <3>1, ButtonKeeps DEF Pause, Close
  <2>7. CASE Resume \/ Restart
    <3>1. /\ {"outreach_ready", "overdue"} \subseteq CaseState
          /\ {"outreach_ready", "overdue"} \subseteq EXTRA_STATES
          /\ case.next \in Int /\ day \in Int
      BY <2>0 DEF CaseState, EXTRA_STATES, Case
    <3>2. QED
      BY <2>7, <3>1, ButtonKeeps DEF Resume, Restart
  <2>8. CASE EditCommitment
    BY <2>8, EditKeeps
  <2>9. CASE UNCHANGED vars
    BY <2>9 DEF vars, LifecycleInv, OnePromise, MissReserved, ConfirmGrounded,
                TargetAuthorised, PmFirst, AlwaysWoken
  <2>10. QED
    BY <2>1, <2>2, <2>3, <2>4, <2>5, <2>6, <2>7, <2>8, <2>9 DEF Next
<1>3. QED
  BY <1>1, <1>2, LifecycleTyping, PTL DEF Spec

(***************************************************************************)
(* However many replies, ticks and jumps there were, at most one promise   *)
(* is active (signal_ingestion.py supersedes the others).                  *)
(***************************************************************************)
THEOREM PromisesSuperseded == Spec => []OnePromise
<1>1. LifecycleInv => OnePromise
  BY DEF LifecycleInv
<1>2. QED
  BY <1>1, LifecycleInvariant, PTL

(***************************************************************************)
(* The judge (post_outcome.py) never charges more misses than promises     *)
(* were made: none is judged twice.                                        *)
(***************************************************************************)
THEOREM MissesBacked == Spec => []OneMissPerPromise
<1>1. TypeOK /\ LifecycleInv => OneMissPerPromise
  <2> SUFFICES ASSUME TypeOK, LifecycleInv PROVE OneMissPerPromise
    OBVIOUS
  <2>1. case.budget.misses_used \in Nat /\ promises \in Nat
    BY DEF TypeOK, Case, AutonomyBudget
  <2>2. QED
    BY <2>1 DEF LifecycleInv, MissReserved, OneMissPerPromise
<1>2. QED
  BY <1>1, LifecycleTyping, LifecycleInvariant, PTL

(***************************************************************************)
(* An email that acknowledges a promise always has one to acknowledge,     *)
(* whatever the planner's scores or its language model chose (goals.py).   *)
(***************************************************************************)
THEOREM ConfirmationsGrounded == Spec => []ConfirmGrounded
<1>1. LifecycleInv => ConfirmGrounded
  BY DEF LifecycleInv
<1>2. QED
  BY <1>1, LifecycleInvariant, PTL

(***************************************************************************)
(* The customer is written to only after the PM let the agent through      *)
(* (communication.py resolve_recipient, signal_ingestion.py).              *)
(***************************************************************************)
THEOREM PmComesFirst == Spec => []PmFirst
<1>1. LifecycleInv => PmFirst
  BY DEF LifecycleInv
<1>2. QED
  BY <1>1, LifecycleInvariant, PTL

(***************************************************************************)
(* A case that is still being worked always has a tick that looks at it    *)
(* (scheduler.py): by its date, by its state, by the due-date sweep, or by *)
(* the judge of its promise.                                               *)
(***************************************************************************)
THEOREM NeverAsleep == Spec => []AlwaysWoken
<1>1. LifecycleInv => AlwaysWoken
  BY DEF LifecycleInv
<1>2. QED
  BY <1>1, LifecycleInvariant, PTL

-----------------------------------------------------------------------------
(* Deferrals *)

(***************************************************************************)
(* A case put off to a day is out of the agent's hands, or parked in a     *)
(* state that only its date wakes, and that date is not before the day.    *)
(***************************************************************************)
Parked(c, until) ==
    \/ c.state \in COLLECTIONS_SUPPRESSED_STATES
    \/ /\ c.state \in {"follow_up_scheduled", "blocked"}
       /\ c.next >= until

DeferralInv == day < deferred => sent = NoEmail /\ Parked(case, deferred)

(***************************************************************************)
(* No sweep and no selection of a tick (scheduler.py) touches a parked     *)
(* case before its day.                                                    *)
(***************************************************************************)
LEMMA ParkedLeftAlone ==
  ASSUME NEW c \in Case, NEW d \in Nat, NEW until \in Int,
         d < until, Parked(c, until)
  PROVE  TickOutcomes(c, d) = {Outcome(c, NoEmail)}
<1>0. c.next \in Int
  BY DEF Case
<1>1. /\ c.state \notin {"promise_to_pay", "promise_missed", "not_due", "due"}
      /\ c.state \notin EXTRA_STATES
  BY DEF Parked, COLLECTIONS_SUPPRESSED_STATES, TERMINAL_STATES, EXTRA_STATES
<1>2. Judge(c, d) = c
  BY <1>1 DEF Judge
<1>3. Promote(c, d) = c
  BY <1>1 DEF Promote
<1>4. ~Selected(c, d)
  BY <1>0, <1>1 DEF Selected, Parked
<1>5. QED
  BY <1>2, <1>3, <1>4 DEF TickOutcomes

(***************************************************************************)
(* A reply that names a later day to come back on, and is not in doubt,    *)
(* parks the case until that day and is not answered                       *)
(* (advance_case_with_reply).                                              *)
(***************************************************************************)
LEMMA CheckbackParks ==
  ASSUME NEW c \in Case, NEW r \in ReplyRecord, NEW d \in Nat,
         ChecksBack(r), r.in > 0, ~r.unsure,
         NEW o \in ReplyOutcomes(Applied(c, r, d), r, d)
  PROVE  o.email = NoEmail /\ Parked(o.case, ReplyDate(r, d))
<1> DEFINE a == Applied(c, r, d)
<1>1. ReplyDate(r, d) \in Int /\ ReplyDate(r, d) > d
  BY DEF ReplyDate, ReplyRecord
<1>2. /\ a \in Case /\ a.lastFollowUp = ReplyDate(r, d)
      /\ a.state = ReplyState(c.state, r.type, r.dated, r.in < 0)
  BY AppliedTyped
<1> HIDE DEF a
<1>3. a.state \in {"follow_up_scheduled", "blocked"}
  BY <1>2 DEF ChecksBack, ReplyState
<1>4. PutOff(a, r, d)
  BY <1>1, <1>2, <1>3 DEF PutOff
<1> DEFINE w == [a EXCEPT !.next = a.lastFollowUp]
<1>5. o = Outcome(w, NoEmail)
  BY <1>4 DEF ReplyOutcomes, a
<1>6. w.state = a.state /\ w.next = ReplyDate(r, d)
  BY <1>1, <1>2, WaitTyped
<1> HIDE DEF w
<1>7. QED
  BY <1>1, <1>3, <1>5, <1>6, OutcomeFields DEF Parked

(***************************************************************************)
(* Once the customer has asked to be left alone until a day, no tick and   *)
(* no answer writes before it, unless the customer writes again or an      *)
(* operator resumes, restarts or moves the clock (scheduler.py), or sets a *)
(* promised date (web.py).                                                 *)
(***************************************************************************)
THEOREM DeferralsKept == Spec => []DeferralKept
<1>1. Init => DeferralInv
  BY DEF Init, DeferralInv, Never
<1>2. TypeOK /\ DeferralInv /\ [Next]_vars => DeferralInv'
  <2> SUFFICES ASSUME TypeOK, DeferralInv, [Next]_vars, day' < deferred'
               PROVE  sent' = NoEmail /\ Parked(case', deferred')
    BY DEF DeferralInv
  <2>0. case \in Case /\ day \in Nat /\ deferred \in Int /\ Never = -1
    BY DEF TypeOK, Never
  <2>1. CASE Tick
    <3>1. day < deferred /\ deferred' = deferred
      BY <2>1 DEF Tick, history
    <3>2. sent = NoEmail /\ Parked(case, deferred)
      BY <3>1 DEF DeferralInv
    <3>3. TickOutcomes(case, day) = {Outcome(case, NoEmail)}
      BY <2>0, <3>1, <3>2, ParkedLeftAlone
    <3>4. case' = case /\ sent' = NoEmail
      BY <2>1, <3>3, OutcomeFields DEF Tick, Become
    <3>5. QED
      BY <3>1, <3>2, <3>4
  <2>2. CASE Midnight
    <3>1. /\ case' = case /\ sent' = NoEmail /\ deferred' = deferred
          /\ day' = day + 1
      BY <2>2 DEF Midnight, history
    <3>2. day < deferred
      BY <2>0, <3>1
    <3>3. QED
      BY <3>1, <3>2 DEF DeferralInv
  <2>3. CASE JumpClock
    BY <2>0, <2>3 DEF JumpClock
  <2>4. ASSUME NEW r \in Replies, Reply(r)
        PROVE  sent' = NoEmail /\ Parked(case', deferred')
    <3>1. PICK o \in ReplyOutcomes(Applied(case, r, day), r, day) :
            case' = o.case /\ sent' = o.email
      BY <2>4 DEF Reply, Become
    <3>2. r \in ReplyRecord
      BY LifecycleAssumption
    <3>3. /\ ChecksBack(r) /\ r.in > 0 /\ ~r.unsure
          /\ deferred' = ReplyDate(r, day)
      BY <2>0, <2>4 DEF Reply
    <3>4. QED
      BY <2>0, <3>1, <3>2, <3>3, CheckbackParks
  <2>5. CASE Payment \/ Dispute \/ Pause \/ Close
    <3>1. /\ sent' = NoEmail
          /\ case'.state \in {"paid", "disputed", "paused", "closed"}
      BY <2>0, <2>5 DEF Payment, Dispute, Pause, Close, Button, Case
    <3>2. QED
      BY <3>1 DEF Parked, COLLECTIONS_SUPPRESSED_STATES, TERMINAL_STATES
  <2>6. CASE Resume \/ Restart \/ EditCommitment
    <3>1. day' = day /\ deferred' = Never
      BY <2>6 DEF Resume, Restart, Button, EditCommitment
    <3>2. QED
      BY <2>0, <3>1
  <2>7. CASE UNCHANGED vars
    BY <2>7 DEF vars, DeferralInv
  <2>8. QED
    BY <2>1, <2>2, <2>3, <2>4, <2>5, <2>6, <2>7 DEF Next
<1>3. DeferralInv => DeferralKept
  BY DEF DeferralInv, DeferralKept
<1>4. QED
  BY <1>1, <1>2, <1>3, LifecycleTyping, PTL DEF Spec
=============================================================================
