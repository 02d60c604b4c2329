--------------------------- MODULE SendTailProofs ---------------------------
(***************************************************************************)
(* Proofs about SendTail, for every set of tasks, assignment of operations *)
(* to tasks, set of replies and budget.                                    *)
(***************************************************************************)
EXTENDS SendTail, GoalsProofs

(***************************************************************************)
(* What the helpers of the domain return: the reply handling of            *)
(* signal_ingestion.py yields a well-formed row.                           *)
(***************************************************************************)
LEMMA ReplyTyped ==
  ASSUME NEW case \in Row, NEW r \in Replies
  PROVE  ApplyReply(case, r) \in Row
<1>1. r \in [type : ReplyType, dated : BOOLEAN, past : BOOLEAN]
  BY WorkersAssumption
<1>2. ReplyState(case.state, r.type, r.dated, r.past) \in CaseState
  BY <1>1, ReplyStateTyped DEF Row
<1>3. ReplyWorld(case.world, r.type) \in WorldSnapshot
  BY ReplyWorldTyped DEF Row
<1>4. ReplyBudget(case.budget, r.type, r.dated) \in AutonomyBudget
  BY ReplyBudgetTyped DEF Row
<1>5. QED
  BY <1>2, <1>3, <1>4 DEF ApplyReply, Row

(***************************************************************************)
(* A reply clears the unanswered count.                                    *)
(***************************************************************************)
LEMMA ReplyClears ==
  ASSUME NEW case \in Row, NEW r \in Replies
  PROVE  ApplyReply(case, r).budget.unanswered_used = 0
BY ReplyBudgetTyped DEF ApplyReply, Row

(***************************************************************************)
(* A guarded write (concurrency_guard.py) leaves a well-formed row.        *)
(***************************************************************************)
LEMMA GuardedTyped ==
  ASSUME TypeOK, NEW w \in Workers, NEW full \in BOOLEAN
  PROVE  GuardedRow(w, full) \in Row
BY DEF TypeOK, GuardedRow, Row

LEMMA NoRowTyped == NoRow \in Row
BY DEF NoRow, NewRow, Row, CaseState, OpenWorld, WorldSnapshot, FreshBudget,
   AutonomyBudget

LEMMA OutreachTyped ==
  ASSUME NEW w \in Workers, NEW s \in CaseState, NEW b \in AutonomyBudget
  PROVE  AfterOutreach(w, s, b) \subseteq CaseState
BY DEF AfterOutreach, CaseState

(***************************************************************************)
(* What the sweeps of a tick make of their copy of the row is well-formed, *)
(* and keeps the unanswered count.                                         *)
(***************************************************************************)
LEMMA SweptTyped ==
  ASSUME NEW case \in Row, NEW s \in CaseState, NEW miss \in BOOLEAN
  PROVE  LET copy == [case EXCEPT !.state = s,
                                  !.budget = IF miss THEN ConsumeMiss(@) ELSE @]
         IN /\ copy \in Row
            /\ copy.budget.unanswered_used = case.budget.unanswered_used
<1>1. /\ ConsumeMiss(case.budget) \in AutonomyBudget
      /\ ConsumeMiss(case.budget).unanswered_used
           = case.budget.unanswered_used
  BY DEF Row, AutonomyBudget, ConsumeMiss
<1>2. QED
  BY <1>1 DEF Row

(***************************************************************************)
(* The end of a run leaves its locals well-formed.                         *)
(***************************************************************************)
LEMMA FinishTyped ==
  ASSUME TypeOK, NEW w \in Workers, Finish(w)
  PROVE  /\ pc' \in [Workers -> PC]
         /\ kind' \in [Workers -> Kinds \cup {"none"}]
         /\ snap' \in [Workers -> Row]
         /\ fresh' \in [Workers -> CaseState]
         /\ paidAtLock' \in [Workers -> BOOLEAN]
<1>1. "overdue" \in CaseState /\ "idle" \in PC
  BY DEF CaseState, PC
<1>2. QED
  BY <1>1, NoRowTyped DEF TypeOK, Finish, Goto

-----------------------------------------------------------------------------
(***************************************************************************)
(* Type correctness of the case row, of every run under way and of the     *)
(* history variables.                                                      *)
(***************************************************************************)
THEOREM Typing == Spec => []TypeOK
<1>1. Init => TypeOK
  <2> SUFFICES ASSUME Init PROVE TypeOK
    OBVIOUS
  <2>1. row \in Row
    <3>1. PICK s \in InitStates : row = NewRow(s)
      BY DEF Init
    <3>2. s \in CaseState
      BY WorkersAssumption
    <3>3. OpenWorld(1) \in WorldSnapshot /\ FreshBudget \in AutonomyBudget
      BY DEF OpenWorld, WorldSnapshot, FreshBudget, AutonomyBudget
    <3>4. QED
      BY <3>1, <3>2, <3>3 DEF NewRow, Row
  <2>2. 0 \in 0 .. MaxUnanswered + MaxCrashes + 1 /\ 0 \in 0 .. MaxCrashes
    BY WorkersAssumption, BudgetAssumption
  <2>3. QED
    BY <2>1, <2>2, NoRowTyped DEF Init, TypeOK, PC, CaseState
<1>2. TypeOK /\ [Next]_vars => TypeOK'
  <2> SUFFICES ASSUME TypeOK, [Next]_vars PROVE TypeOK'
    OBVIOUS
  <2>0. ASSUME NEW w \in Workers, NEW k, NEW copy \in Row, NEW l \in PC,
               Sweep(w, k, copy, l)
        PROVE  TypeOK'
    <3>1. snap' \in [Workers -> Row]
      BY <2>0 DEF TypeOK, Sweep
    <3>2. QED
      BY <2>0, <3>1 DEF TypeOK, Sweep, Goto, customer, Kinds, LoopKinds
  <2>1. ASSUME NEW w \in Workers, Begin(w) PROVE TypeOK'
    <3>1. CASE SelectDue(w)
      BY <3>1 DEF TypeOK, SelectDue, Goto, customer, PC, Kinds, LoopKinds
    <3>2. CASE BeginFollowUp(w)
      BY <3>2 DEF TypeOK, BeginFollowUp, Goto, customer, PC, Kinds, LoopKinds
    <3>3. ASSUME NEW k \in {"reply", "mailbox_reply"}, NEW r \in Replies,
                 BeginReply(w, k, r)
          PROVE  TypeOK'
      <4>1. ApplyReply(row, r) \in Row
        BY ReplyTyped DEF TypeOK
      <4>2. (optedOut \/ r.type = "unsubscribe") \in BOOLEAN
        OBVIOUS
      <4>3. 0 \in 0 .. MaxUnanswered + MaxCrashes + 1
        BY WorkersAssumption, BudgetAssumption
      <4>4. snap' \in [Workers -> Row]
        BY <3>3, <4>1 DEF TypeOK, BeginReply
      <4>5. QED
        BY <3>3, <4>2, <4>3, <4>4 DEF TypeOK, BeginReply, Goto, Heard, PC,
           Kinds, LoopKinds
    <3>4. ASSUME NEW k \in SignalKinds, BeginSignal(w, k)
          PROVE  TypeOK'
      <4>1. [row EXCEPT !.state = "paid", !.world.status = "paid",
                        !.world.balance_due = 0] \in Row
        BY DEF TypeOK, Row, WorldSnapshot, CaseState
      <4>2. [row EXCEPT !.state = "disputed",
                        !.world.status = "disputed"] \in Row
        BY DEF TypeOK, Row, WorldSnapshot, CaseState
      <4>3. snap' \in [Workers -> Row]
        BY <3>4, <4>1, <4>2 DEF TypeOK, BeginSignal
      <4>4. QED
        BY <3>4, <4>3 DEF TypeOK, BeginSignal, Goto, customer, PC, Kinds,
           SignalKinds
    <3>5. CASE BeginJudge(w)
      <4>1. "promise_missed" \in CaseState /\ "judge" \in PC /\ row \in Row
        BY DEF CaseState, PC, TypeOK
      <4>2. [row EXCEPT !.state = "promise_missed",
                        !.budget = ConsumeMiss(@)] \in Row
        BY <4>1, SweptTyped
      <4>3. QED
        BY <2>0, <3>5, <4>1, <4>2 DEF BeginJudge
    <3>6. CASE BeginPromote(w)
      <4>1. [row EXCEPT !.state = "overdue"] \in Row /\ "sweep" \in PC
        BY DEF TypeOK, Row, CaseState, PC
      <4>2. QED
        BY <2>0, <3>6, <4>1 DEF BeginPromote
    <3>7. CASE BeginJump(w)
      <4>1. /\ row \in Row /\ "sweep" \in PC
            /\ [row EXCEPT !.state = "outreach_ready"] \in Row
        BY DEF TypeOK, Row, CaseState, PC
      <4>2. QED
        BY <2>0, <3>7, <4>1 DEF BeginJump
    <3>8. QED
      BY <2>1, <3>1, <3>2, <3>3, <3>4, <3>5, <3>6, <3>7 DEF Begin
  <2>2. ASSUME NEW w \in Workers, Run(w) PROVE TypeOK'
    <3>1. CASE Fetch(w)
      BY <3>1 DEF TypeOK, Fetch, Goto, customer, PC
    <3>2. CASE SaveReply(w)
      BY <3>2, FinishTyped DEF TypeOK, SaveReply, Goto, customer, locals, PC
    <3>3. CASE PostSignal(w)
      <4>1. row' \in Row
        BY <3>3 DEF TypeOK, PostSignal, Row
      <4>2. QED
        BY <3>3, <4>1, FinishTyped DEF TypeOK, PostSignal, customer
    <3>4. CASE SkipPaid(w)
      <4>1. row' \in Row
        BY <3>4 DEF TypeOK, SkipPaid, Row, CaseState
      <4>2. QED
        BY <3>4, <4>1, FinishTyped DEF TypeOK, SkipPaid, customer
    <3>5. CASE SkipHandled(w)
      BY <3>5, FinishTyped DEF TypeOK, SkipHandled, customer
    <3>6. CASE EscalateRead(w)
      <4>1. snap' \in [Workers -> Row]
        BY <3>6 DEF TypeOK, EscalateRead, Row, CaseState
      <4>2. fresh' \in [Workers -> CaseState]
        BY <3>6 DEF TypeOK, EscalateRead, Row
      <4>3. QED
        BY <3>6, <4>1, <4>2 DEF TypeOK, EscalateRead, Goto, customer, PC
    <3>7. CASE EscalateWrite(w)
      <4> DEFINE full == Exec(w)
      <4>1. full \in BOOLEAN
        BY DEF Exec
      <4>2. row' = GuardedRow(w, full)
        BY <3>7 DEF EscalateWrite
      <4>3. row' \in Row
        <5> HIDE DEF full
        <5>1. QED
          BY <4>1, <4>2, GuardedTyped
      <4>4. QED
        BY <3>7, <4>3 DEF TypeOK, EscalateWrite, Goto, customer, locals, PC
    <3>8. CASE Acquire(w)
      <4>1. IsPaid(row.world) \in BOOLEAN
        BY DEF IsPaid
      <4>2. QED
        BY <3>8, <4>1 DEF TypeOK, Acquire, Goto, customer, PC, Tail
    <3>9. CASE HandOff(w)
      <4>1. snap' \in [Workers -> Row]
        BY <3>9 DEF TypeOK, HandOff, Row, CaseState
      <4>2. QED
        BY <3>9, <4>1 DEF TypeOK, HandOff, Goto, PC, Tail
    <3>10. CASE Guard(w)
      BY <3>10 DEF TypeOK, Guard, Goto, customer, locals, PC, Tail
    <3>11. CASE Blocked(w)
      BY <3>11, FinishTyped DEF TypeOK, Blocked, Release, customer
    <3>12. CASE Send(w)
      <4>1. ConsumeUnanswered(snap[w].budget) \in AutonomyBudget
        BY DEF TypeOK, ConsumeUnanswered, AutonomyBudget, Row
      <4>2. PICK s \in AfterOutreach(w, snap[w].state,
                                     ConsumeUnanswered(snap[w].budget)) :
               snap' = [snap EXCEPT
                          ![w].budget = ConsumeUnanswered(snap[w].budget),
                          ![w].state = s]
        BY <3>12 DEF Send
      <4>3. s \in CaseState
        BY <4>1, <4>2, OutreachTyped DEF TypeOK, Row
      <4>4. snap' \in [Workers -> Row]
        BY <4>1, <4>2, <4>3 DEF TypeOK, Row
      <4>5. outreach' \in 0 .. MaxUnanswered + MaxCrashes + 1
        BY <3>12, BudgetAssumption, WorkersAssumption DEF TypeOK, Send
      <4>6. QED
        BY <3>12, <4>4, <4>5 DEF TypeOK, Send, Goto, PC, Tail
    <3>13. CASE PersistRead(w)
      BY <3>13 DEF TypeOK, PersistRead, Goto, customer, PC, Tail, Row
    <3>14. CASE PersistWrite(w)
      <4>1. row' \in Row
        BY <3>14, GuardedTyped DEF PersistWrite
      <4>2. QED
        BY <3>14, <4>1, FinishTyped DEF TypeOK, PersistWrite, Release,
           customer
    <3>15. CASE JudgeWrite(w)
      <4>1. row' \in Row
        BY <3>15 DEF TypeOK, JudgeWrite, Row
      <4>2. QED
        BY <3>15, <4>1, FinishTyped DEF TypeOK, JudgeWrite, Goto, customer,
           locals, PC
    <3>16. CASE SweepWrite(w)
      <4>1. row' \in Row
        BY <3>16 DEF TypeOK, SweepWrite, Row
      <4>2. QED
        BY <3>16, <4>1, FinishTyped DEF TypeOK, SweepWrite, Goto, customer,
           locals, PC
    <3>17. CASE EscalateNotice(w)
      BY <3>17, FinishTyped DEF TypeOK, EscalateNotice
    <3>18. QED
      BY <2>2, <3>1, <3>2, <3>3, <3>4, <3>5, <3>6, <3>7, <3>8, <3>9, <3>10,
         <3>11, <3>12, <3>13, <3>14, <3>15, <3>16, <3>17 DEF Run
  <2>3. CASE Human
    <3>1. ASSUME NEW b, NEW s \in CaseState, SetState(b, s)
          PROVE  /\ row' \in Row
                 /\ UNCHANGED <<lock, pc, kind, snap, fresh, paidAtLock,
                                crashes, outreach, optedOut>>
      BY <3>1 DEF TypeOK, SetState, Row, locals
    <3>2. {"paused", "closed", "outreach_ready", "overdue", "promise_to_pay"}
            \subseteq CaseState
      BY DEF CaseState
    <3>3. QED
      BY <2>3, <3>1, <3>2 DEF Human, PauseCase, CloseCase, ResumeCase,
         RestartCase, EditCommitment, GiveBack, TypeOK
  <2>4. CASE Crash
    BY <2>4, NoRowTyped, WorkersAssumption DEF Crash, TypeOK, PC, CaseState,
       customer
  <2>5. CASE UNCHANGED vars
    BY <2>5 DEF vars, TypeOK
  <2>6. QED
    BY <2>1, <2>2, <2>3, <2>4, <2>5 DEF Next
<1>3. QED
  BY <1>1, <1>2, PTL DEF Spec

-----------------------------------------------------------------------------
(***************************************************************************)
(* How a step of w moves the set of runs inside the lock: outside to       *)
(* outside and inside to inside leave it alone, the end of a run removes w.*)
(***************************************************************************)
LEMMA StayTail ==
  ASSUME TypeOK, NEW w \in Workers, NEW l, Goto(w, l),
         pc[w] \in Tail <=> l \in Tail
  PROVE  {v \in Workers : pc'[v] \in Tail} = {v \in Workers : pc[v] \in Tail}
BY DEF TypeOK, Goto

LEMMA LeaveTail ==
  ASSUME TypeOK, NEW w \in Workers, Goto(w, "idle")
  PROVE  {v \in Workers : pc'[v] \in Tail}
           = {v \in Workers : pc[v] \in Tail} \ {w}
<1>1. "idle" \notin Tail
  BY DEF Tail
<1>2. QED
  BY <1>1 DEF TypeOK, Goto

(***************************************************************************)
(* The case lock of concurrency_guard.py: no two runs, of either loop, are *)
(* between the guard and the write-back of the same case.                  *)
(***************************************************************************)
THEOREM Mutex == Spec => []TailMutex
<1>1. Init => TailMutex
  BY DEF Init, TailMutex, Tail
<1>2. TypeOK /\ TailMutex /\ [Next]_vars => TailMutex'
  <2> SUFFICES ASSUME TypeOK, TailMutex, [Next]_vars PROVE TailMutex'
    OBVIOUS
  <2> DEFINE Inside == {v \in Workers : pc[v] \in Tail}
  <2>0. /\ lock = Inside
        /\ \A v, w \in lock : v = w
    BY DEF TailMutex
  <2>a. ASSUME lock' = Inside', lock' \subseteq lock PROVE TailMutex'
    BY <2>0, <2>a DEF TailMutex
  <2>1. ASSUME NEW w \in Workers, NEW l, Goto(w, l), UNCHANGED lock,
               pc[w] \in Tail <=> l \in Tail
        PROVE  TailMutex'
    <3>1. Inside' = Inside
      BY <2>1, StayTail
    <3>2. QED
      BY <2>0, <2>1, <2>a, <3>1
  <2>2. ASSUME NEW w \in Workers, Finish(w), UNCHANGED lock,
               pc[w] \notin Tail
        PROVE  TailMutex'
    <3>1. Goto(w, "idle") /\ "idle" \notin Tail
      BY <2>2 DEF Finish, Tail
    <3>2. QED
      BY <2>1, <2>2, <3>1
  <2>3. ASSUME NEW w \in Workers, Finish(w), Release(w)
        PROVE  TailMutex'
    <3>1. Goto(w, "idle")
      BY <2>3 DEF Finish
    <3>2. Inside' = Inside \ {w}
      BY <3>1, LeaveTail
    <3>3. QED
      BY <2>0, <2>3, <2>a, <3>2 DEF Release
  <2>4. ASSUME NEW w \in Workers, Begin(w) PROVE TailMutex'
    <3> USE DEF customer, Tail
    <3>1. CASE SelectDue(w)
      BY <2>1, <3>1 DEF SelectDue
    <3>2. CASE BeginFollowUp(w)
      BY <2>1, <3>2 DEF BeginFollowUp
    <3>3. ASSUME NEW k \in {"reply", "mailbox_reply"}, NEW r \in Replies,
                 BeginReply(w, k, r)
          PROVE  TailMutex'
      <4> DEFINE l == IF k = "reply" THEN "save" ELSE "loop"
      <4>1. /\ Goto(w, l) /\ UNCHANGED lock
            /\ pc[w] \notin Tail /\ l \notin Tail
        BY <3>3 DEF BeginReply
      <4> HIDE DEF l
      <4>2. QED
        BY <2>1, <4>1
    <3>4. ASSUME NEW k \in SignalKinds, BeginSignal(w, k)
          PROVE  TailMutex'
      BY <2>1, <3>4 DEF BeginSignal
    <3>5. CASE BeginJudge(w) \/ BeginPromote(w) \/ BeginJump(w)
      <4>1. /\ pc[w] = "idle" /\ UNCHANGED lock
            /\ Goto(w, "judge") \/ Goto(w, "sweep")
        BY <3>5 DEF BeginJudge, BeginPromote, BeginJump, Sweep
      <4>2. QED
        BY <2>1, <4>1
    <3>6. QED
      BY <2>4, <3>1, <3>2, <3>3, <3>4, <3>5 DEF Begin
  <2>5. ASSUME NEW w \in Workers, Run(w) PROVE TailMutex'
    <3> USE DEF customer, Tail
    <3>1. CASE Fetch(w)
      BY <2>1, <3>1 DEF Fetch
    <3>2. CASE SaveReply(w)
      BY <2>1, <2>2, <3>2 DEF SaveReply
    <3>3. CASE PostSignal(w)
      BY <2>2, <3>3 DEF PostSignal
    <3>4. CASE SkipPaid(w)
      BY <2>2, <3>4 DEF SkipPaid
    <3>5. CASE SkipHandled(w)
      BY <2>2, <3>5 DEF SkipHandled
    <3>6. CASE EscalateRead(w)
      BY <2>1, <3>6 DEF EscalateRead, Proceeds
    <3>7. CASE EscalateWrite(w)
      BY <2>1, <3>7 DEF EscalateWrite
    <3>8. CASE Acquire(w)
      <4>1. lock = {} /\ lock' = {w}
        BY <3>8 DEF Acquire
      <4>2. pc'[w] \in Tail /\ \A v \in Workers \ {w} : pc'[v] = pc[v]
        BY <3>8 DEF Acquire, Goto, TypeOK
      <4>3. Inside = {}
        BY <2>0, <4>1
      <4>4. Inside' = {w}
        BY <4>2, <4>3
      <4>5. QED
        BY <4>1, <4>4 DEF TailMutex
    <3>9. CASE HandOff(w)
      BY <2>1, <3>9 DEF HandOff
    <3>10. CASE Guard(w)
      BY <2>1, <3>10 DEF Guard
    <3>11. CASE Blocked(w)
      BY <2>3, <3>11 DEF Blocked
    <3>12. CASE Send(w)
      BY <2>1, <3>12 DEF Send
    <3>13. CASE PersistRead(w)
      BY <2>1, <3>13 DEF PersistRead
    <3>14. CASE PersistWrite(w)
      BY <2>3, <3>14 DEF PersistWrite
    <3>15. CASE JudgeWrite(w)
      BY <2>1, <2>2, <3>15 DEF JudgeWrite
    <3>16. CASE SweepWrite(w)
      BY <2>1, <2>2, <3>16 DEF SweepWrite
    <3>17. CASE EscalateNotice(w)
      BY <2>2, <3>17 DEF EscalateNotice
    <3>18. QED
      BY <2>5, <3>1, <3>2, <3>3, <3>4, <3>5, <3>6, <3>7, <3>8, <3>9, <3>10,
         <3>11, <3>12, <3>13, <3>14, <3>15, <3>16, <3>17 DEF Run
  <2>6. CASE Human
    BY <2>6 DEF Human, PauseCase, CloseCase, ResumeCase, RestartCase,
       EditCommitment, GiveBack, SetState, TailMutex
  <2>7. CASE Crash
    BY <2>7 DEF Crash, TailMutex, Tail
  <2>8. CASE UNCHANGED vars
    BY <2>8 DEF vars, TailMutex
  <2>9. QED
    BY <2>4, <2>5, <2>6, <2>7, <2>8 DEF Next
<1>3. QED
  BY <1>1, <1>2, Typing, PTL DEF Spec

-----------------------------------------------------------------------------
(***************************************************************************)
(* Bounded autonomy (P3): with one task running loops on the case, at most *)
(* max_unanswered emails go out between two messages of the customer, and  *)
(* at most one more per crash, whatever people and the ERP do meanwhile.   *)
(***************************************************************************)
THEOREM Budget == ASSUME Sequential PROVE Spec => []BoundedAutonomy
<1>1. Init => BudgetInv
  <2> SUFFICES ASSUME Init PROVE BudgetInv
    OBVIOUS
  <2>1. row.budget.unanswered_used = 0
    BY DEF Init, NewRow, FreshBudget
  <2>2. QED
    BY <2>1, BudgetAssumption DEF Init, BudgetInv, BoundedAutonomy,
       LoopPlaces, Tail, Uncounted
<1>2. TypeOK /\ TypeOK' /\ BudgetInv /\ [Next]_vars => BudgetInv'
  <2> SUFFICES ASSUME TypeOK, TypeOK', BudgetInv, [Next]_vars
               PROVE  BudgetInv'
    OBVIOUS
  <2> DEFINE used(r) == r.budget.unanswered_used
             late == \E w \in Workers : pc[w] \in Uncounted
  <2> USE DEF LoopPlaces, Tail, Uncounted
  <2>0. /\ used(row) \in Nat /\ used(row') \in Nat
        /\ outreach \in Nat /\ outreach' \in Nat
        /\ crashes \in Nat /\ crashes' \in Nat /\ MaxUnanswered \in Nat
        /\ \A w \in Workers : used(snap[w]) \in Nat /\ used(snap'[w]) \in Nat
    BY BudgetAssumption, WorkersAssumption DEF TypeOK, Row, AutonomyBudget
  \* Only one run of a loop is under way.
  <2>1. \A v, w \in Workers :
          pc[v] \in LoopPlaces /\ pc[w] \in LoopPlaces => v = w
    BY DEF Sequential, BudgetInv
  \* A step of w that keeps every count and leaves the other runs alone.
  <2>2. ASSUME NEW w \in Workers, NEW l, Goto(w, l),
               l \in LoopPlaces => KindsOf[w] \cap LoopKinds # {},
               outreach' = outreach, crashes' = crashes,
               \A v \in Workers \ {w} : snap'[v] = snap[v],
               l \in LoopPlaces \ {"fetch"} =>
                   outreach <= used(snap'[w]) + crashes,
               l \in {"guard", "send"} => used(snap'[w]) < MaxUnanswered,
               \/ outreach <= used(row') + crashes
               \/ /\ used(row') = used(row)
                  /\ l \in Uncounted \/ pc[w] \notin Uncounted
        PROVE  BudgetInv'
    <3>1. pc'[w] = l /\ \A v \in Workers \ {w} : pc'[v] = pc[v]
      BY <2>2 DEF Goto, TypeOK
    <3>2. outreach' <= used(row') + crashes'
            + (IF \E v \in Workers : pc'[v] \in Uncounted THEN 1 ELSE 0)
      <4>1. CASE outreach <= used(row') + crashes
        BY <2>0, <2>2, <4>1
      <4>2. CASE used(row') = used(row)
                   /\ (l \in Uncounted \/ pc[w] \notin Uncounted)
        <5>1. late => \E v \in Workers : pc'[v] \in Uncounted
          BY <3>1, <4>2
        <5>2. outreach <= used(row) + crashes + (IF late THEN 1 ELSE 0)
          BY DEF BudgetInv
        <5>3. QED
          BY <2>0, <2>2, <4>2, <5>1, <5>2
      <4>3. QED
        BY <2>2, <4>1, <4>2
    <3>3. QED
      BY <2>0, <2>2, <3>1, <3>2 DEF BudgetInv, BoundedAutonomy
  \* ... in particular when its locals go out of scope.
  <2>3. ASSUME NEW w \in Workers, Finish(w),
               outreach' = outreach, crashes' = crashes,
               \/ outreach <= used(row') + crashes
               \/ used(row') = used(row) /\ pc[w] \notin Uncounted
        PROVE  BudgetInv'
    <3>1. /\ Goto(w, "idle")
          /\ \A v \in Workers \ {w} : snap'[v] = snap[v]
      BY <2>3 DEF Finish, TypeOK
    <3>2. QED
      BY <2>2, <2>3, <3>1
  \* While the run of w is at a place before its email, the row counts all.
  <2>4. ASSUME NEW w \in Workers, KindsOf[w] \cap LoopKinds # {},
               pc[w] \notin Uncounted
        PROVE  outreach <= used(row) + crashes
    <3>1. ~late
      BY <2>4 DEF Sequential, BudgetInv
    <3>2. QED
      BY <2>0, <3>1 DEF BudgetInv
  <2>5. ASSUME NEW w \in Workers, Begin(w) PROVE BudgetInv'
    <3>1. CASE SelectDue(w)
      <4>1. KindsOf[w] \cap LoopKinds # {}
        BY <3>1 DEF SelectDue, LoopKinds
      <4>2. QED
        BY <2>2, <3>1, <4>1 DEF SelectDue, customer
    <3>2. CASE BeginFollowUp(w)
      <4>1. KindsOf[w] \cap LoopKinds # {}
        BY <3>2 DEF BeginFollowUp, LoopKinds
      <4>2. outreach <= used(row) + crashes
        BY <2>4, <3>2, <4>1 DEF BeginFollowUp
      <4>3. snap'[w] = row /\ \A v \in Workers \ {w} : snap'[v] = snap[v]
        BY <3>2 DEF BeginFollowUp, TypeOK
      <4>4. QED
        BY <2>2, <3>2, <4>1, <4>2, <4>3 DEF BeginFollowUp, customer
    <3>3. ASSUME NEW k \in {"reply", "mailbox_reply"}, NEW r \in Replies,
                 BeginReply(w, k, r)
          PROVE  BudgetInv'
      <4> DEFINE l == IF k = "reply" THEN "save" ELSE "loop"
      <4>1. KindsOf[w] \cap LoopKinds # {}
        BY <3>3 DEF BeginReply, LoopKinds
      <4>2. outreach' = 0 /\ crashes' = crashes /\ row' = row
        BY <3>3 DEF BeginReply, Heard
      <4>3. /\ pc'[w] = l
            /\ \A v \in Workers \ {w} : pc'[v] = pc[v] /\ snap'[v] = snap[v]
        BY <3>3 DEF BeginReply, Goto, TypeOK
      <4>4. l \notin {"guard", "send"}
        OBVIOUS
      <4> HIDE DEF l
      <4>5. \A v \in Workers :
              pc'[v] \in {"guard", "send"} =>
                used(snap'[v]) < MaxUnanswered
        BY <4>3, <4>4 DEF BudgetInv
      <4>6. \A v \in Workers :
              pc'[v] \in LoopPlaces => KindsOf[v] \cap LoopKinds # {}
        BY <4>1, <4>3 DEF BudgetInv
      <4>7. QED
        BY <2>0, <4>2, <4>5, <4>6 DEF BudgetInv, BoundedAutonomy
    <3>4. ASSUME NEW k \in SignalKinds, BeginSignal(w, k)
          PROVE  BudgetInv'
      <4>1. \A v \in Workers \ {w} : snap'[v] = snap[v]
        BY <3>4 DEF BeginSignal, TypeOK
      <4>2. /\ pc[w] = "idle" /\ Goto(w, "post")
            /\ UNCHANGED <<row, outreach, crashes>>
        BY <3>4 DEF BeginSignal, customer
      <4>3. QED
        BY <2>2, <4>1, <4>2
    <3>5. ASSUME NEW k \in LoopKinds, NEW copy, NEW l \in {"judge", "sweep"},
                 used(copy) = used(row), Sweep(w, k, copy, l)
          PROVE  BudgetInv'
      <4>1. KindsOf[w] \cap LoopKinds # {} /\ pc[w] = "idle" /\ Goto(w, l)
        BY <3>5 DEF Sweep
      <4>2. outreach <= used(row) + crashes
        BY <2>4, <4>1
      <4>3. snap'[w] = copy /\ \A v \in Workers \ {w} : snap'[v] = snap[v]
        BY <3>5 DEF Sweep, TypeOK
      <4>4. UNCHANGED <<row, outreach, crashes>>
        BY <3>5 DEF Sweep, customer
      <4>5. QED
        BY <2>2, <3>5, <4>1, <4>2, <4>3, <4>4
    <3>6. "tick" \in LoopKinds /\ "jump" \in LoopKinds
      BY DEF LoopKinds
    <3>7. CASE BeginJudge(w)
      <4> DEFINE copy == IF IsPaid(row.world) THEN row
                         ELSE [row EXCEPT !.state = "promise_missed",
                                          !.budget = ConsumeMiss(@)]
      <4>1. row \in Row /\ "promise_missed" \in CaseState
        BY DEF TypeOK, CaseState
      <4>2. used(copy) = used(row)
        BY <4>1, SweptTyped
      <4>3. Sweep(w, "tick", copy, "judge")
        BY <3>7 DEF BeginJudge
      <4> HIDE DEF copy
      <4>4. QED
        BY <3>5, <3>6, <4>2, <4>3
    <3>8. CASE BeginPromote(w)
      <4>1. used([row EXCEPT !.state = "overdue"]) = used(row)
        BY DEF TypeOK, Row
      <4>2. QED
        BY <3>5, <3>6, <3>8, <4>1 DEF BeginPromote
    <3>9. CASE BeginJump(w)
      <4>1. used([row EXCEPT !.state = "outreach_ready"]) = used(row)
        BY DEF TypeOK, Row
      <4>2. QED
        BY <3>5, <3>6, <3>9, <4>1 DEF BeginJump
    <3>10. QED
      BY <2>5, <3>1, <3>2, <3>3, <3>4, <3>7, <3>8, <3>9 DEF Begin
  <2>6. ASSUME NEW w \in Workers, Run(w) PROVE BudgetInv'
    <3> USE DEF customer
    <3>1. CASE Fetch(w)
      <4>1. KindsOf[w] \cap LoopKinds # {} /\ pc[w] = "fetch"
        BY <3>1 DEF Fetch, BudgetInv
      <4>2. outreach <= used(row) + crashes
        BY <2>4, <4>1
      <4>3. snap'[w] = row /\ \A v \in Workers \ {w} : snap'[v] = snap[v]
        BY <3>1 DEF Fetch, TypeOK
      <4>4. QED
        BY <2>2, <3>1, <4>1, <4>2, <4>3 DEF Fetch
    <3>2. CASE SaveReply(w)
      <4>1. KindsOf[w] \cap LoopKinds # {} /\ pc[w] = "save"
        BY <3>2 DEF SaveReply, BudgetInv
      <4>2. outreach <= used(snap[w]) + crashes /\ row' = snap[w]
        BY <3>2 DEF SaveReply, BudgetInv
      <4>3. CASE Finish(w)
        BY <2>3, <3>2, <4>2, <4>3 DEF SaveReply
      <4>4. CASE Goto(w, "fetch") /\ UNCHANGED locals
        BY <2>2, <3>2, <4>1, <4>2, <4>4 DEF SaveReply, locals
      <4>5. QED
        BY <3>2, <4>3, <4>4 DEF SaveReply
    <3>3. CASE PostSignal(w)
      <4>1. used(row') = used(row)
        BY <3>3 DEF PostSignal, TypeOK, Row
      <4>2. QED
        BY <2>3, <3>3, <4>1 DEF PostSignal
    <3>4. CASE SkipPaid(w)
      <4>1. used(row') = used(row)
        BY <3>4 DEF SkipPaid, TypeOK, Row
      <4>2. QED
        BY <2>3, <3>4, <4>1 DEF SkipPaid
    <3>5. CASE SkipHandled(w)
      BY <2>3, <3>5 DEF SkipHandled
    <3>6. CASE EscalateRead(w)
      <4>1. pc[w] = "loop" /\ KindsOf[w] \cap LoopKinds # {}
        BY <3>6 DEF EscalateRead, Proceeds, BudgetInv
      <4>2. /\ used(snap'[w]) = used(snap[w])
            /\ \A v \in Workers \ {w} : snap'[v] = snap[v]
        BY <3>6 DEF EscalateRead, TypeOK, Row
      <4>3. outreach <= used(snap[w]) + crashes
        BY <4>1 DEF BudgetInv
      <4>4. QED
        BY <2>2, <3>6, <4>1, <4>2, <4>3 DEF EscalateRead
    <3>7. CASE EscalateWrite(w)
      <4> DEFINE full == Exec(w)
      <4>1. /\ row' = GuardedRow(w, full) /\ Goto(w, "notice")
            /\ pc[w] = "escalate" /\ KindsOf[w] \cap LoopKinds # {}
            /\ UNCHANGED <<outreach, crashes, snap>>
        BY <3>7 DEF EscalateWrite, BudgetInv, locals
      <4> HIDE DEF full
      <4>2. used(row') = used(snap[w]) \/ used(row') = used(row)
        BY <4>1 DEF GuardedRow
      <4>3. outreach <= used(snap[w]) + crashes
        BY <4>1 DEF BudgetInv
      <4>4. QED
        BY <2>2, <4>1, <4>2, <4>3
    <3>8. CASE Acquire(w)
      <4>1. pc[w] = "loop" /\ KindsOf[w] \cap LoopKinds # {}
        BY <3>8 DEF Acquire, Proceeds, BudgetInv
      <4>2. outreach <= used(snap[w]) + crashes
        BY <4>1 DEF BudgetInv
      <4>3. used(snap[w]) < MaxUnanswered
        BY <2>0, <3>8 DEF Acquire, Must, MustEscalate, HardStop
      <4>4. QED
        BY <2>2, <3>8, <4>1, <4>2, <4>3 DEF Acquire
    <3>9. CASE HandOff(w)
      <4>1. pc[w] = "handoff" /\ KindsOf[w] \cap LoopKinds # {}
        BY <3>9 DEF HandOff, BudgetInv
      <4>2. /\ used(snap'[w]) = used(snap[w])
            /\ \A v \in Workers \ {w} : snap'[v] = snap[v]
        BY <3>9 DEF HandOff, TypeOK, Row
      <4>3. outreach <= used(snap[w]) + crashes
        BY <4>1 DEF BudgetInv
      <4>4. QED
        BY <2>2, <3>9, <4>1, <4>2, <4>3 DEF HandOff
    <3>10. CASE Guard(w)
      <4>1. /\ pc[w] = "guard" /\ KindsOf[w] \cap LoopKinds # {}
            /\ outreach <= used(snap[w]) + crashes
            /\ used(snap[w]) < MaxUnanswered
        BY <3>10 DEF Guard, BudgetInv
      <4>2. QED
        BY <2>2, <3>10, <4>1 DEF Guard, locals
    <3>11. CASE Blocked(w)
      BY <2>3, <3>11 DEF Blocked
    <3>12. CASE Send(w)
      <4>1. /\ pc[w] = "send" /\ KindsOf[w] \cap LoopKinds # {}
            /\ outreach <= used(snap[w]) + crashes
            /\ used(snap[w]) < MaxUnanswered
            /\ outreach <= used(row) + crashes
        BY <2>4, <3>12 DEF Send, BudgetInv
      <4>2. /\ used(snap'[w]) = used(snap[w]) + 1
            /\ \A v \in Workers \ {w} : snap'[v] = snap[v]
        <5>1. PICK s \in AfterOutreach(w, snap[w].state,
                                       ConsumeUnanswered(snap[w].budget)) :
                 snap' = [snap EXCEPT
                            ![w].budget = ConsumeUnanswered(snap[w].budget),
                            ![w].state = s]
          BY <3>12 DEF Send
        <5>2. snap'[w].budget = ConsumeUnanswered(snap[w].budget)
          BY <5>1 DEF TypeOK, Row
        <5>3. QED
          BY <5>1, <5>2 DEF ConsumeUnanswered, TypeOK, Row, AutonomyBudget
      <4>3. /\ pc'[w] = "persist"
            /\ \A v \in Workers \ {w} : pc'[v] = pc[v]
        BY <3>12 DEF Send, Goto, TypeOK
      <4>4. outreach' <= outreach + 1 /\ crashes' = crashes /\ row' = row
        BY <2>0, <3>12 DEF Send
      <4>5. outreach' <= used(row') + crashes'
              + (IF \E v \in Workers : pc'[v] \in Uncounted THEN 1 ELSE 0)
        BY <2>0, <4>1, <4>3, <4>4
      <4>6. \A v \in Workers :
              pc'[v] \in LoopPlaces => v = w
        BY <2>1, <4>1, <4>3
      <4>7. outreach' <= used(snap'[w]) + crashes' /\ BoundedAutonomy'
        BY <2>0, <4>1, <4>2, <4>4 DEF BoundedAutonomy
      <4>8. QED
        BY <4>1, <4>3, <4>5, <4>6, <4>7 DEF BudgetInv
    <3>13. CASE PersistRead(w)
      <4>1. /\ pc[w] = "persist" /\ KindsOf[w] \cap LoopKinds # {}
            /\ outreach <= used(snap[w]) + crashes
        BY <3>13 DEF PersistRead, BudgetInv
      <4>2. QED
        BY <2>2, <3>13, <4>1 DEF PersistRead
    <3>14. CASE PersistWrite(w)
      <4>1. outreach <= used(snap[w]) + crashes
        BY <3>14 DEF PersistWrite, BudgetInv
      <4>2. used(row') = used(snap[w])
        BY <3>14 DEF PersistWrite, GuardedRow
      <4>3. Finish(w) /\ UNCHANGED <<outreach, crashes>>
        BY <3>14 DEF PersistWrite
      <4>4. outreach <= used(row') + crashes
        BY <4>1, <4>2
      <4>5. QED
        BY <2>3, <4>3, <4>4
    <3>15. CASE JudgeWrite(w)
      <4>1. KindsOf[w] \cap LoopKinds # {} /\ pc[w] = "judge"
        BY <3>15 DEF JudgeWrite, BudgetInv
      <4>2. /\ outreach <= used(snap[w]) + crashes
            /\ used(row') = used(snap[w])
        BY <3>15 DEF JudgeWrite, BudgetInv, TypeOK, Row
      <4>3. UNCHANGED <<outreach, crashes>>
        BY <3>15 DEF JudgeWrite
      <4>4. CASE Finish(w)
        BY <2>3, <4>2, <4>3, <4>4
      <4>5. CASE Goto(w, "fetch") /\ UNCHANGED locals
        BY <2>2, <4>1, <4>2, <4>3, <4>5 DEF locals
      <4>6. QED
        BY <3>15, <4>4, <4>5 DEF JudgeWrite
    <3>16. CASE SweepWrite(w)
      <4>1. KindsOf[w] \cap LoopKinds # {} /\ pc[w] = "sweep"
        BY <3>16 DEF SweepWrite, BudgetInv
      <4>2. used(row') = used(row)
        BY <3>16 DEF SweepWrite, TypeOK, Row
      <4>3. UNCHANGED <<outreach, crashes>>
        BY <3>16 DEF SweepWrite
      <4>4. CASE Finish(w)
        BY <2>3, <4>1, <4>2, <4>3, <4>4
      <4>5. CASE Goto(w, "fetch") /\ UNCHANGED locals
        BY <2>2, <4>1, <4>2, <4>3, <4>5 DEF locals
      <4>6. QED
        BY <3>16, <4>4, <4>5 DEF SweepWrite
    <3>17. CASE EscalateNotice(w)
      BY <2>3, <3>17 DEF EscalateNotice
    <3>18. QED
      BY <2>6, <3>1, <3>2, <3>3, <3>4, <3>5, <3>6, <3>7, <3>8, <3>9, <3>10,
         <3>11, <3>12, <3>13, <3>14, <3>15, <3>16, <3>17 DEF Run
  <2>7. CASE Human
    <3>1. ASSUME NEW b, NEW s, SetState(b, s)
          PROVE  /\ used(row') = used(row)
                 /\ UNCHANGED <<pc, snap, crashes, outreach>>
      BY <3>1 DEF TypeOK, SetState, Row, locals
    <3>2. used(row') = used(row) /\ UNCHANGED <<pc, snap, crashes, outreach>>
      BY <2>7, <3>1 DEF Human, PauseCase, CloseCase, ResumeCase, RestartCase,
         EditCommitment, GiveBack
    <3>3. QED
      BY <3>2 DEF BudgetInv, BoundedAutonomy
  <2>8. CASE Crash
    <3>1. /\ crashes' = crashes + 1 /\ row' = row /\ outreach' = outreach
          /\ \A w \in Workers : pc'[w] = "idle"
      BY <2>8 DEF Crash, customer
    <3>2. outreach <= used(row) + crashes + 1
      BY <2>0 DEF BudgetInv
    <3>3. QED
      BY <2>0, <3>1, <3>2 DEF BudgetInv, BoundedAutonomy
  <2>9. CASE UNCHANGED vars
    BY <2>9 DEF vars, BudgetInv, BoundedAutonomy
  <2>10. QED
    BY <2>5, <2>6, <2>7, <2>8, <2>9 DEF Next
<1>3. BudgetInv => BoundedAutonomy
  BY DEF BudgetInv
<1>4. QED
  BY <1>1, <1>2, <1>3, Typing, PTL DEF Spec

-----------------------------------------------------------------------------
(* What the four proofs below share: who can be where, and what the step of *)
(* one run leaves of the others.                                            *)

\* The places at which a run of either loop holds a copy of the row.
Live == LoopPlaces \ {"fetch"}

\* A run is at a place of the operations its task runs.
PlacesInv ==
    \A w \in Workers :
        /\ pc[w] \in LoopPlaces => KindsOf[w] \cap LoopKinds # {}
        /\ pc[w] = "post" => KindsOf[w] \cap SignalKinds # {}

LEMMA GotoMoves ==
  ASSUME TypeOK, NEW w \in Workers, NEW l, Goto(w, l)
  PROVE  pc'[w] = l /\ \A v \in Workers \ {w} : pc'[v] = pc[v]
BY DEF TypeOK, Goto

\* What the end of a run leaves: its own locals are reset, the others' stay.
LEMMA FinishMoves ==
  ASSUME TypeOK, NEW w \in Workers, Finish(w)
  PROVE  /\ pc'[w] = "idle" /\ snap'[w] = NoRow
         /\ \A v \in Workers \ {w} :
              /\ pc'[v] = pc[v] /\ snap'[v] = snap[v]
              /\ fresh'[v] = fresh[v] /\ paidAtLock'[v] = paidAtLock[v]
BY DEF TypeOK, Finish, Goto

\* A step of w touches no other run.
LEMMA OthersStay ==
  ASSUME TypeOK, NEW w \in Workers, Begin(w) \/ Run(w)
  PROVE  \A v \in Workers \ {w} :
            /\ pc'[v] = pc[v] /\ snap'[v] = snap[v]
            /\ fresh'[v] = fresh[v] /\ paidAtLock'[v] = paidAtLock[v]
<1> USE DEF TypeOK, Finish, Goto, locals
<1>1. CASE Begin(w)
  BY <1>1 DEF Begin, BeginJudge, BeginPromote, BeginJump, SelectDue, Sweep,
     BeginFollowUp, BeginReply, BeginSignal
<1>2. CASE Fetch(w) \/ SaveReply(w) \/ PostSignal(w) \/ SkipPaid(w)
             \/ SkipHandled(w) \/ JudgeWrite(w) \/ SweepWrite(w)
  BY <1>2 DEF Fetch, SaveReply, PostSignal, SkipPaid, SkipHandled, JudgeWrite,
     SweepWrite
<1>3. CASE EscalateRead(w) \/ EscalateWrite(w) \/ EscalateNotice(w)
             \/ Acquire(w) \/ HandOff(w)
  BY <1>3 DEF EscalateRead, EscalateWrite, EscalateNotice, Acquire, HandOff
<1>4. CASE Guard(w) \/ Blocked(w) \/ Send(w) \/ PersistRead(w)
             \/ PersistWrite(w)
  BY <1>4 DEF Guard, Blocked, Send, PersistRead, PersistWrite
<1>5. QED
  BY <1>1, <1>2, <1>3, <1>4 DEF Run

\* Where the step of a run starts.
LEMMA RunPlaces ==
  ASSUME NEW w \in Workers, Run(w)
  PROVE  /\ pc[w] \in LoopPlaces \cup {"post"}
         /\ pc[w] = "post" => PostSignal(w)
BY DEF Run, Fetch, SaveReply, PostSignal, SkipPaid, SkipHandled, JudgeWrite,
   SweepWrite, EscalateRead, EscalateWrite, EscalateNotice, Acquire, Proceeds,
   HandOff, Guard, Blocked, Send, PersistRead, PersistWrite, LoopPlaces, Tail

\* PlacesInv holds in every reachable state.
LEMMA Places == Spec => []PlacesInv
<1>1. Init => PlacesInv
  BY DEF Init, PlacesInv, LoopPlaces, Tail
<1>2. TypeOK /\ PlacesInv /\ [Next]_vars => PlacesInv'
  <2> SUFFICES ASSUME TypeOK, PlacesInv, [Next]_vars PROVE PlacesInv'
    OBVIOUS
  <2> USE DEF LoopPlaces, Tail
  <2>1. ASSUME NEW w \in Workers, Begin(w) PROVE PlacesInv'
    <3>1. /\ pc'[w] \in LoopPlaces => KindsOf[w] \cap LoopKinds # {}
          /\ pc'[w] = "post" => KindsOf[w] \cap SignalKinds # {}
      BY <2>1 DEF TypeOK, Goto, LoopKinds, Begin, BeginJudge, BeginPromote,
         BeginJump, SelectDue, Sweep, BeginFollowUp, BeginReply, BeginSignal
    <3>2. QED
      BY <2>1, <3>1, OthersStay DEF PlacesInv
  <2>2. ASSUME NEW w \in Workers, Run(w) PROVE PlacesInv'
    <3>1. pc'[w] = "idle" \/ (pc[w] \in LoopPlaces /\ pc'[w] # "post")
      BY <2>2 DEF TypeOK, Finish, Goto, Run, Fetch, SaveReply, PostSignal,
         SkipPaid, SkipHandled, JudgeWrite, SweepWrite, EscalateRead,
         EscalateWrite, EscalateNotice, Acquire, Proceeds, HandOff, Guard,
         Blocked, Send, PersistRead, PersistWrite
    <3>2. QED
      BY <2>2, <3>1, OthersStay DEF PlacesInv
  <2>3. CASE Human
    BY <2>3 DEF Human, PauseCase, CloseCase, ResumeCase, RestartCase,
       EditCommitment, GiveBack, SetState, PlacesInv
  <2>4. CASE Crash
    BY <2>4 DEF Crash, PlacesInv
  <2>5. CASE UNCHANGED vars
    BY <2>5 DEF vars, PlacesInv
  <2>6. QED
    BY <2>1, <2>2, <2>3, <2>4, <2>5 DEF Next
<1>3. QED
  BY <1>1, <1>2, Typing, PTL DEF Spec

\* With one task running loops, a run of a loop is alone.
LEMMA Alone ==
  ASSUME Sequential, PlacesInv, NEW v \in Workers, NEW w \in Workers,
         pc[v] \in LoopPlaces, KindsOf[w] \cap LoopKinds # {}
  PROVE  v = w
BY DEF Sequential, PlacesInv

-----------------------------------------------------------------------------
(* Payments.  One task applies the ERP's signals, as one applies replies:   *)
(* a dispute read before a payment and written after it would undo it.      *)

OneSignaller ==
    \A v, w \in Workers :
        KindsOf[v] \cap SignalKinds # {} /\ KindsOf[w] \cap SignalKinds # {}
            => v = w

Settled(world) == world.balance_due = 0

\* A world that is called paid has nothing due: payments set both.
Candid(world) == world.status = "paid" => Settled(world)

\* A copy a run holds at place p is not ahead of the row, that of a signal is
\* not behind it, and a payment it has missed shows in the row's state.
PaidCopy(p, copy, db) ==
    /\ Candid(copy.world)
    /\ p \in Live /\ Settled(copy.world) => Settled(db.world)
    /\ p = "post" => copy.state \in TERMINAL_STATES
    /\ p = "post" /\ Settled(db.world) => Settled(copy.world)
    /\ p \in Live \ {"notice"} /\ Settled(db.world) /\ ~Settled(copy.world)
         => db.state \in TERMINAL_STATES \cup Reopened

\* In the lock: a payment that was there stays, and the run is not to send.
PaidTail(p, copy, db, reread, paid) ==
    /\ p \in Tail => ~Settled(copy.world)
    /\ p \in Tail /\ paid => Settled(db.world) /\ p # "send"
    /\ p \in {"persist", "write"} /\ paid => copy.state = "escalated_to_human"
    /\ p = "write" /\ paid => reread \in TERMINAL_STATES \cup Reopened

PaidRun(w) ==
    /\ PaidCopy(pc[w], snap[w], row)
    /\ PaidTail(pc[w], snap[w], row, fresh[w], paidAtLock[w])

PaidInv == Candid(row.world) /\ \A w \in Workers : PaidRun(w)

\* A reply pays nothing and takes back no payment.
LEMMA ReplyKeepsPaid ==
  ASSUME NEW case \in Row, NEW r, Candid(case.world)
  PROVE  /\ Candid(ApplyReply(case, r).world)
         /\ Settled(ApplyReply(case, r).world) <=> Settled(case.world)
BY DEF ApplyReply, ReplyWorld, Candid, Settled, Row, WorldSnapshot

\* The world of the copy a run begins with is the row's, but for a signal.
LEMMA BeginPaid ==
  ASSUME TypeOK, PlacesInv, PaidInv, NEW w \in Workers, Begin(w)
  PROVE  PaidInv'
<1> USE DEF Live, LoopPlaces, Tail
<1>1. row' = row
  BY DEF Begin, BeginJudge, BeginPromote, BeginJump, SelectDue, Sweep,
     BeginFollowUp, BeginReply, BeginSignal
<1>2. \A v \in Workers \ {w} : PaidRun(v)'
  BY <1>1, OthersStay DEF PaidInv, PaidRun, PaidCopy, PaidTail
<1>3. row \in Row /\ Candid(row.world)
  BY DEF TypeOK, PaidInv
<1>4. ASSUME pc'[w] \notin Tail \cup {"post"}, Candid(snap'[w].world),
             Settled(snap'[w].world) <=> Settled(row.world)
      PROVE  PaidRun(w)'
  BY <1>1, <1>4 DEF PaidRun, PaidCopy, PaidTail
<1>5. CASE BeginJudge(w)
  <2>1. snap'[w].world = row.world /\ pc'[w] = "judge"
    BY <1>3, <1>5 DEF BeginJudge, Sweep, Goto, TypeOK, Row
  <2>2. QED
    BY <1>1, <1>2, <1>3, <1>4, <2>1 DEF PaidInv
<1>6. CASE BeginPromote(w) \/ BeginJump(w)
  <2>1. snap'[w].world = row.world /\ pc'[w] = "sweep"
    BY <1>3, <1>6 DEF BeginPromote, BeginJump, Sweep, Goto, TypeOK, Row
  <2>2. QED
    BY <1>1, <1>2, <1>3, <1>4, <2>1 DEF PaidInv
<1>7. CASE SelectDue(w)
  <2>1. pc'[w] = "fetch" /\ UNCHANGED <<snap, fresh, paidAtLock>>
    BY <1>7 DEF SelectDue, Goto, TypeOK
  <2>2. Candid(snap[w].world)'
    BY <2>1 DEF PaidInv, PaidRun, PaidCopy, Candid, Settled
  <2>3. PaidRun(w)'
    BY <2>1, <2>2 DEF PaidRun, PaidCopy, PaidTail
  <2>4. QED
    BY <1>1, <1>2, <2>3 DEF PaidInv
<1>8. CASE BeginFollowUp(w)
  <2>1. snap'[w] = row /\ pc'[w] = "loop"
    BY <1>8 DEF BeginFollowUp, Goto, TypeOK
  <2>2. QED
    BY <1>1, <1>2, <1>3, <1>4, <2>1 DEF PaidInv
<1>9. ASSUME NEW k \in {"reply", "mailbox_reply"}, NEW r \in Replies,
             BeginReply(w, k, r)
      PROVE  PaidInv'
  <2>1. snap'[w] = ApplyReply(row, r) /\ pc'[w] \in {"save", "loop"}
    BY <1>9 DEF BeginReply, Goto, TypeOK
  <2>2. /\ Candid(ApplyReply(row, r).world)
        /\ Settled(ApplyReply(row, r).world) <=> Settled(row.world)
    BY <1>3, ReplyKeepsPaid
  <2>3. QED
    BY <1>1, <1>2, <1>3, <1>4, <2>1, <2>2 DEF PaidInv
<1>10. ASSUME NEW k \in SignalKinds, BeginSignal(w, k)
       PROVE  PaidInv'
  <2>1. /\ pc'[w] = "post"
        /\ Candid(snap'[w].world)
        /\ Settled(row.world) => Settled(snap'[w].world)
        /\ snap'[w].state \in {"paid", "disputed"}
    BY <1>3, <1>10 DEF BeginSignal, Goto, TypeOK, Row, WorldSnapshot, Candid,
       Settled
  <2>2. PaidRun(w)'
    BY <1>1, <2>1 DEF PaidRun, PaidCopy, PaidTail, TERMINAL_STATES
  <2>3. QED
    BY <1>1, <1>2, <1>3, <2>2 DEF PaidInv
<1>11. QED
  BY <1>5, <1>6, <1>7, <1>8, <1>9, <1>10 DEF Begin

\* The world a loop writes is the row's own or its copy's.
LEMMA LoopWorld ==
  ASSUME TypeOK, NEW w \in Workers, Run(w), pc[w] # "post"
  PROVE  row'.world \in {row.world, snap[w].world}
<1> USE DEF TypeOK, Row
<1>1. CASE Fetch(w) \/ SaveReply(w) \/ SkipPaid(w) \/ SkipHandled(w)
             \/ JudgeWrite(w) \/ SweepWrite(w)
  BY <1>1 DEF Fetch, SaveReply, SkipPaid, SkipHandled, JudgeWrite, SweepWrite
<1>2. CASE EscalateRead(w) \/ EscalateNotice(w) \/ Acquire(w) \/ HandOff(w)
             \/ Guard(w) \/ Blocked(w) \/ Send(w) \/ PersistRead(w)
  BY <1>2 DEF EscalateRead, EscalateNotice, Acquire, HandOff, Guard, Blocked,
     Send, PersistRead
<1>3. CASE EscalateWrite(w) \/ PersistWrite(w)
  BY <1>3 DEF EscalateWrite, PersistWrite, GuardedRow
<1>4. QED
  BY <1>1, <1>2, <1>3 DEF Run, PostSignal

\* A loop's step leaves every other run what PaidInv says of it.
LEMMA LoopPaysNothing ==
  ASSUME TypeOK, PlacesInv, PaidInv, Sequential,
         NEW w \in Workers, Run(w), pc[w] # "post"
  PROVE  /\ Candid(row'.world)
         /\ \A v \in Workers \ {w} : PaidRun(v)'
<1>1. pc[w] \in LoopPlaces
  BY RunPlaces
<1>2. pc[w] = "fetch" => row' = row
  BY DEF Run, Fetch, SaveReply, PostSignal, SkipPaid, SkipHandled, JudgeWrite,
     SweepWrite, EscalateRead, EscalateWrite, EscalateNotice, Acquire,
     Proceeds, HandOff, Guard, Blocked, Send, PersistRead, PersistWrite
<1>3. Candid(row'.world) /\ (Settled(row'.world) => Settled(row.world))
  BY <1>1, <1>2, LoopWorld DEF PaidInv, PaidRun, PaidCopy, Live
<1>4. \A v \in Workers \ {w} : pc[v] \notin LoopPlaces
  BY <1>1, Alone DEF PlacesInv
<1>5. QED
  BY <1>3, <1>4, OthersStay
     DEF PaidInv, PaidRun, PaidCopy, PaidTail, Live, LoopPlaces, Tail

\* A run that ends satisfies PaidRun: it holds no copy.
LEMMA FinishPaid ==
  ASSUME TypeOK, NEW w \in Workers, Finish(w)
  PROVE  PaidRun(w)'
BY FinishMoves DEF PaidRun, PaidCopy, PaidTail, Live, LoopPlaces, Tail, Candid,
   NoRow, NewRow, OpenWorld

\* Outside the lock and into it: each step of a loop keeps PaidRun.
LEMMA HeadPaid ==
  ASSUME TypeOK, PaidInv, NEW w \in Workers,
         \/ Fetch(w) \/ SaveReply(w) \/ SkipPaid(w) \/ SkipHandled(w)
         \/ JudgeWrite(w) \/ SweepWrite(w)
         \/ EscalateRead(w) \/ EscalateWrite(w) \/ EscalateNotice(w)
         \/ Acquire(w)
  PROVE  PaidRun(w)'
<1> USE DEF TypeOK, Live, LoopPlaces, Tail
<1>1. Candid(row.world) /\ PaidRun(w)
  BY DEF PaidInv
<1>2. CASE Finish(w)
  BY <1>2, FinishPaid
<1>3. CASE Fetch(w)
  BY <1>1, <1>3 DEF Fetch, Goto, PaidRun, PaidCopy, PaidTail
<1>4. CASE (SaveReply(w) \/ JudgeWrite(w) \/ SweepWrite(w)) /\ ~Finish(w)
  <2>1. pc'[w] = "fetch" /\ UNCHANGED snap
    BY <1>4 DEF SaveReply, JudgeWrite, SweepWrite, Goto, locals
  <2>2. QED
    BY <1>1, <2>1 DEF PaidRun, PaidCopy, PaidTail
<1>5. CASE SkipPaid(w) \/ SkipHandled(w) \/ EscalateNotice(w)
  BY <1>2, <1>5 DEF SkipPaid, SkipHandled, EscalateNotice
<1>6. CASE EscalateRead(w)
  <2>1. /\ pc[w] = "loop" /\ pc'[w] = "escalate" /\ row' = row
        /\ snap'[w].world = snap[w].world
    BY <1>6 DEF EscalateRead, Proceeds, Goto, Row
  <2>2. QED
    BY <1>1, <2>1 DEF PaidRun, PaidCopy, PaidTail
<1>7. CASE EscalateWrite(w)
  <2>1. /\ pc[w] = "escalate" /\ pc'[w] = "notice" /\ snap' = snap
        /\ row'.world \in {row.world, snap[w].world}
    BY <1>7 DEF EscalateWrite, GuardedRow, Goto, locals
  <2>2. QED
    BY <1>1, <2>1 DEF PaidRun, PaidCopy, PaidTail
<1>8. CASE Acquire(w)
  <2>1. /\ pc[w] = "loop" /\ pc'[w] \in {"guard", "handoff"}
        /\ row' = row /\ snap' = snap /\ ~Settled(snap[w].world)
        /\ paidAtLock'[w] = IsPaid(row.world)
    BY <1>8 DEF Acquire, Proceeds, SeesPaid, Goto, Settled
  <2>2. paidAtLock'[w] => Settled(row.world)
    BY <1>1, <2>1 DEF IsPaid, Candid, Settled
  <2>3. QED
    BY <1>1, <2>1, <2>2 DEF PaidRun, PaidCopy, PaidTail
<1>9. QED
  BY <1>2, <1>3, <1>4, <1>5, <1>6, <1>7, <1>8

\* Inside the lock: the guard re-reads the row, and the write its state.
LEMMA TailPaid ==
  ASSUME TypeOK, PaidInv, NEW w \in Workers,
         \/ HandOff(w) \/ Guard(w) \/ Blocked(w) \/ Send(w)
         \/ PersistRead(w) \/ PersistWrite(w)
  PROVE  PaidRun(w)'
<1> USE DEF TypeOK, Live, LoopPlaces, Tail
<1>1. Candid(row.world) /\ PaidRun(w)
  BY DEF PaidInv
<1>2. CASE Blocked(w) \/ PersistWrite(w)
  BY <1>2, FinishPaid DEF Blocked, PersistWrite
<1>3. CASE HandOff(w)
  <2>1. /\ pc[w] = "handoff" /\ pc'[w] = "persist" /\ row' = row
        /\ snap'[w].world = snap[w].world
        /\ snap'[w].state = "escalated_to_human"
        /\ paidAtLock' = paidAtLock
    BY <1>3 DEF HandOff, Goto, Row
  <2>2. QED
    BY <1>1, <2>1 DEF PaidRun, PaidCopy, PaidTail
<1>4. CASE Guard(w)
  <2>1. /\ pc[w] = "guard" /\ pc'[w] = "send" /\ row' = row /\ snap' = snap
        /\ paidAtLock' = paidAtLock /\ ~Settled(row.world)
    BY <1>4 DEF Guard, Goto, locals, CheckBeforeSend, IsPaid, Settled
  <2>2. QED
    BY <1>1, <2>1 DEF PaidRun, PaidCopy, PaidTail
<1>5. CASE Send(w)
  <2>1. /\ pc[w] = "send" /\ pc'[w] = "persist" /\ row' = row
        /\ paidAtLock' = paidAtLock
    BY <1>5 DEF Send, Goto
  <2>2. PICK s, b : snap' = [snap EXCEPT ![w].budget = b, ![w].state = s]
    BY <1>5 DEF Send
  <2>3. snap'[w].world = snap[w].world
    BY <2>2 DEF Row
  <2>4. QED
    BY <1>1, <2>1, <2>3 DEF PaidRun, PaidCopy, PaidTail
<1>6. CASE PersistRead(w)
  <2>1. /\ pc[w] = "persist" /\ pc'[w] = "write" /\ row' = row
        /\ snap' = snap /\ paidAtLock' = paidAtLock
        /\ fresh'[w] = row.state
    BY <1>6 DEF PersistRead, Goto
  <2>2. QED
    BY <1>1, <2>1 DEF PaidRun, PaidCopy, PaidTail
<1>7. QED
  BY <1>2, <1>3, <1>4, <1>5, <1>6

(***************************************************************************)
(* PaidInv is an invariant of every system in which one task runs the      *)
(* loops and one applies the ERP's signals.                                *)
(***************************************************************************)
LEMMA PaidInvariant ==
  ASSUME Sequential, OneSignaller
  PROVE  Spec => []PaidInv
<1> USE DEF TypeOK, Live, LoopPlaces, Tail
<1>1. Init => PaidInv
  BY DEF Init, PaidInv, PaidRun, PaidCopy, PaidTail, Candid, NoRow, NewRow,
     OpenWorld
<1>2. TypeOK /\ PlacesInv /\ PaidInv /\ [Next]_vars => PaidInv'
  <2> SUFFICES ASSUME TypeOK, PlacesInv, PaidInv, [Next]_vars PROVE PaidInv'
    OBVIOUS
  <2>1. ASSUME NEW w \in Workers, Begin(w) PROVE PaidInv'
    BY <2>1, BeginPaid
  <2>2. ASSUME NEW w \in Workers, Run(w), pc[w] # "post" PROVE PaidInv'
    <3>1. PaidRun(w)'
      BY <2>2, HeadPaid, TailPaid DEF Run, PostSignal
    <3>2. QED
      BY <2>2, <3>1, LoopPaysNothing DEF PaidInv
  <2>3. ASSUME NEW w \in Workers, Run(w), pc[w] = "post" PROVE PaidInv'
    <3>1. PostSignal(w)
      BY <2>3, RunPlaces
    <3>2. /\ row'.world = snap[w].world /\ row'.state = snap[w].state
          /\ Candid(snap[w].world) /\ snap[w].state \in TERMINAL_STATES
          /\ Settled(row.world) => Settled(row'.world)
      BY <2>3, <3>1 DEF PostSignal, Row, PaidInv, PaidRun, PaidCopy
    <3>3. \A v \in Workers \ {w} : pc[v] # "post"
      BY <2>3 DEF PlacesInv, OneSignaller
    <3>4. \A v \in Workers \ {w} : PaidRun(v)'
      BY <2>3, <3>2, <3>3, OthersStay DEF PaidInv, PaidRun, PaidCopy, PaidTail
    <3>5. PaidRun(w)'
      BY <3>1, FinishPaid DEF PostSignal
    <3>6. QED
      BY <3>2, <3>4, <3>5 DEF PaidInv
  <2>4. CASE Human
    <3>1. /\ row'.world = row.world /\ UNCHANGED <<pc, snap, fresh, paidAtLock>>
          /\ row'.state \in TERMINAL_STATES \cup Reopened
      BY <2>4 DEF Human, PauseCase, CloseCase, ResumeCase, RestartCase,
         EditCommitment, GiveBack, SetState, Row, locals, TERMINAL_STATES, Reopened
    <3>2. QED
      BY <3>1 DEF PaidInv, PaidRun, PaidCopy, PaidTail
  <2>5. CASE Crash
    BY <2>5 DEF Crash, PaidInv, PaidRun, PaidCopy, PaidTail, Candid, NoRow,
       NewRow, OpenWorld
  <2>6. CASE UNCHANGED vars
    BY <2>6 DEF vars, PaidInv, PaidRun, PaidCopy, PaidTail
  <2>7. QED
    BY <2>1, <2>2, <2>3, <2>4, <2>5, <2>6 DEF Next
<1>3. QED
  BY <1>1, <1>2, Typing, Places, PTL DEF Spec

\* A world in which no email goes out, whatever its customer consents to.
Halted(world) == IsPaid(world) \/ IsDisputed(world)

(***************************************************************************)
(* A signal writes no other world: what takes back a payment that a run    *)
(* found when it took the lock is a dispute, and blocks its email as well. *)
(***************************************************************************)
StopRun(p, copy, db, paid) ==
    /\ p = "post" => Halted(copy.world)
    /\ p \in Tail /\ paid => Halted(db.world) /\ p # "send"

StopInv == \A w \in Workers : StopRun(pc[w], snap[w], row, paidAtLock[w])

\* A loop's step: only the run itself can write the row while it is in the lock.
LEMMA LoopStops ==
  ASSUME TypeOK, PlacesInv, Sequential, StopInv,
         NEW w \in Workers, Run(w), pc[w] # "post"
  PROVE  StopInv'
<1> USE DEF TypeOK, LoopPlaces, Tail
<1>1. pc[w] \in LoopPlaces /\ \A v \in Workers \ {w} : pc[v] \notin LoopPlaces
  BY RunPlaces, Alone DEF PlacesInv
<1>2. \A v \in Workers \ {w} : StopRun(pc[v], snap[v], row, paidAtLock[v])'
  BY <1>1, OthersStay DEF StopInv, StopRun
<1>3. StopRun(pc[w], snap[w], row, paidAtLock[w])
  BY DEF StopInv
<1>4. StopRun(pc[w], snap[w], row, paidAtLock[w])'
  <2>1. CASE Finish(w)
    BY <2>1, FinishMoves DEF StopRun
  <2>2. CASE (\/ Fetch(w) \/ SaveReply(w) \/ JudgeWrite(w) \/ SweepWrite(w)
              \/ EscalateRead(w) \/ EscalateWrite(w)) /\ ~Finish(w)
    <3>1. pc'[w] \notin Tail \cup {"post"}
      BY <2>2 DEF Fetch, SaveReply, JudgeWrite, SweepWrite, EscalateRead,
         EscalateWrite, Proceeds, Goto
    <3>2. QED
      BY <3>1 DEF StopRun
  <2>3. CASE SkipPaid(w) \/ SkipHandled(w) \/ EscalateNotice(w) \/ Blocked(w)
               \/ PersistWrite(w)
    BY <2>1, <2>3 DEF SkipPaid, SkipHandled, EscalateNotice, Blocked,
       PersistWrite
  <2>4. CASE Acquire(w)
    <3>1. /\ pc'[w] \in {"guard", "handoff"} /\ row' = row
          /\ paidAtLock'[w] = IsPaid(row.world)
      BY <2>4 DEF Acquire, Proceeds, Goto
    <3>2. QED
      BY <3>1 DEF StopRun, Halted
  <2>5. CASE HandOff(w) \/ Send(w) \/ PersistRead(w)
    <3>1. /\ pc[w] \in Tail /\ pc'[w] \in {"persist", "write"} /\ row' = row
          /\ paidAtLock' = paidAtLock
      BY <2>5 DEF HandOff, Send, PersistRead, Goto
    <3>2. QED
      BY <1>3, <3>1 DEF StopRun
  <2>6. CASE Guard(w)
    <3>1. /\ pc[w] = "guard" /\ pc'[w] = "send" /\ row' = row
          /\ paidAtLock' = paidAtLock /\ ~Halted(row.world)
      BY <2>6 DEF Guard, Goto, locals, CheckBeforeSend, Halted
    <3>2. QED
      BY <1>3, <3>1 DEF StopRun
  <2>7. QED
    BY <2>1, <2>2, <2>3, <2>4, <2>5, <2>6 DEF Run, PostSignal
<1>5. QED
  BY <1>2, <1>4 DEF StopInv

LEMMA StopInvariant == ASSUME Sequential PROVE Spec => []StopInv
<1> USE DEF TypeOK, LoopPlaces, Tail
<1>1. Init => StopInv
  BY DEF Init, StopInv, StopRun
<1>2. TypeOK /\ PlacesInv /\ StopInv /\ [Next]_vars => StopInv'
  <2> SUFFICES ASSUME TypeOK, PlacesInv, StopInv, [Next]_vars PROVE StopInv'
    OBVIOUS
  <2>1. ASSUME NEW w \in Workers, Begin(w) PROVE StopInv'
    <3>1. row' = row
      BY <2>1 DEF Begin, BeginJudge, BeginPromote, BeginJump, SelectDue, Sweep,
         BeginFollowUp, BeginReply, BeginSignal
    <3>2. pc'[w] \notin Tail
      BY <2>1 DEF Begin, BeginJudge, BeginPromote, BeginJump, SelectDue, Sweep,
         BeginFollowUp, BeginReply, BeginSignal, Goto
    <3>3. pc'[w] = "post" => Halted(snap'[w].world)
      <4>1. ASSUME NEW k \in SignalKinds, BeginSignal(w, k)
            PROVE  Halted(snap'[w].world)
        BY <4>1 DEF BeginSignal, Row, WorldSnapshot, Halted, IsPaid, IsDisputed
      <4>2. (\A k \in SignalKinds : ~BeginSignal(w, k)) => pc'[w] # "post"
        BY <2>1 DEF Begin, BeginJudge, BeginPromote, BeginJump, SelectDue,
           Sweep, BeginFollowUp, BeginReply, Goto
      <4>3. QED
        BY <4>1, <4>2
    <3>4. QED
      BY <2>1, <3>1, <3>2, <3>3, OthersStay DEF StopInv, StopRun
  <2>2. ASSUME NEW w \in Workers, Run(w), pc[w] # "post" PROVE StopInv'
    BY <2>2, LoopStops
  <2>3. ASSUME NEW w \in Workers, Run(w), pc[w] = "post" PROVE StopInv'
    <3>1. PostSignal(w)
      BY <2>3, RunPlaces
    <3>2. row'.world = snap[w].world /\ Halted(row'.world) /\ pc'[w] = "idle"
      BY <2>3, <3>1, FinishMoves DEF PostSignal, Row, StopInv, StopRun
    <3>3. QED
      BY <2>3, <3>2, OthersStay DEF StopInv, StopRun
  <2>4. CASE Human
    <3>1. row'.world = row.world /\ UNCHANGED <<pc, snap, paidAtLock>>
      BY <2>4 DEF Human, PauseCase, CloseCase, ResumeCase, RestartCase,
         EditCommitment, GiveBack, SetState, Row, locals
    <3>2. QED
      BY <3>1 DEF StopInv, StopRun
  <2>5. CASE Crash
    BY <2>5 DEF Crash, StopInv, StopRun
  <2>6. CASE UNCHANGED vars
    BY <2>6 DEF vars, StopInv, StopRun
  <2>7. QED
    BY <2>1, <2>2, <2>3, <2>4, <2>5, <2>6 DEF Next
<1>3. QED
  BY <1>1, <1>2, Typing, Places, PTL DEF Spec

(***************************************************************************)
(* PaidNotChased wherever one task runs the loops, whoever applies the     *)
(* ERP's signals: the guard re-reads the row inside the lock, where no     *)
(* loop can have taken the payment back and a dispute stops the email too. *)
(***************************************************************************)
THEOREM PaidStops == ASSUME Sequential PROVE Spec => PaidNotChased
<1>1. StopInv /\ [Next]_vars
        => [\A w \in Workers : Emailed(w) => ~paidAtLock[w]]_vars
  BY DEF StopInv, StopRun, Emailed, Tail
<1>2. QED
  BY <1>1, StopInvariant, PTL DEF Spec, PaidNotChased

(***************************************************************************)
(* PaymentKept where one task runs the loops and one applies the signals:  *)
(* the only world a run in the lock writes back is a guarded one, and the  *)
(* state it re-read shows the payment, unless a button took the case out   *)
(* of paid in the meantime.                                                *)
(***************************************************************************)
THEOREM PaymentStays ==
  ASSUME Sequential, OneSignaller
  PROVE  Spec => PaymentKept
<1>1. TypeOK /\ PlacesInv /\ PaidInv /\ [Next]_vars
        => [\A w \in Workers :
              pc[w] \in Tail /\ paidAtLock[w] /\ fresh[w] \notin Reopened
                => IsPaid(row'.world)]_vars
  <2> SUFFICES ASSUME TypeOK, PlacesInv, PaidInv, Next, NEW w \in Workers,
                      pc[w] \in Tail, paidAtLock[w], fresh[w] \notin Reopened
               PROVE  Settled(row'.world)
    BY DEF IsPaid, Settled, vars
  <2>1. Settled(row.world) /\ ~Settled(snap[w].world)
    BY DEF PaidInv, PaidRun, PaidTail
  <2>2. \A v \in Workers : pc[v] \in LoopPlaces => v = w
    BY Alone DEF PlacesInv, LoopPlaces
  <2>3. CASE row'.world = row.world
    BY <2>1, <2>3 DEF Settled
  <2>4. ASSUME NEW v \in Workers, Begin(v) PROVE row'.world = row.world
    BY <2>4 DEF Begin, BeginJudge, BeginPromote, BeginJump, SelectDue, Sweep,
       BeginFollowUp, BeginReply, BeginSignal
  <2>5. ASSUME NEW v \in Workers, Run(v), pc[v] = "post"
        PROVE  Settled(row'.world)
    <3>1. row'.world = snap[v].world
      BY <2>5, RunPlaces DEF PostSignal, TypeOK, Row
    <3>2. QED
      BY <2>1, <2>5, <3>1 DEF PaidInv, PaidRun, PaidCopy
  <2>6. ASSUME NEW v \in Workers, Run(v), pc[v] # "post"
        PROVE  row'.world = row.world
    <3>1. v = w
      BY <2>2, <2>6, RunPlaces
    <3>2. CASE PersistWrite(w)
      <4>1. /\ snap[w].state = "escalated_to_human"
            /\ fresh[w] \in TERMINAL_STATES
        BY <3>2 DEF PersistWrite, PaidInv, PaidRun, PaidTail
      <4>2. QED
        BY <3>2, <4>1 DEF PersistWrite, GuardedRow, IsDbStateTerminal,
           TERMINAL_STATES
    <3>3. CASE row' = row
      BY <3>3
    <3>4. QED
      BY <2>6, <3>1, <3>2, <3>3 DEF Run, Fetch, SaveReply, PostSignal,
         SkipPaid, SkipHandled, JudgeWrite, SweepWrite, EscalateRead,
         EscalateWrite, EscalateNotice, Acquire, Proceeds, HandOff, Guard,
         Blocked, Send, PersistRead, PersistWrite, Tail
  <2>7. Human \/ Crash => row'.world = row.world
    BY DEF Human, PauseCase, CloseCase, ResumeCase, RestartCase,
       EditCommitment, GiveBack, SetState, Crash, TypeOK, Row
  <2>8. QED
    BY <2>3, <2>4, <2>5, <2>6, <2>7 DEF Next
<1>2. QED
  BY <1>1, PaidInvariant, Typing, Places, PTL DEF Spec, PaymentKept

-----------------------------------------------------------------------------
(* Opting out.  Only a request that was saved counts: the mailbox reply,    *)
(* which is carried in memory, is lost when its run ends.                   *)

\* World truth in which the guard lets nothing out.
Dead(world) == IsPaid(world) \/ OptedOut(world) \/ IsDisputed(world)

\* The run of w is about to save a request to be left alone.
SavesOptOut(w) == pc[w] = "save" /\ snap[w].state = "suppressed"

(***************************************************************************)
(* Once a request is saved, the row and every copy a run holds are dead,   *)
(* and so is the copy about to be saved before that.  A signal may write   *)
(* the consent back, but leaves the world dead in another way.             *)
(***************************************************************************)
OptOutInv ==
    /\ \A w \in Workers :
         /\ pc[w] = "post" => Dead(snap[w].world)
         /\ optedOut /\ pc[w] \in Live => Dead(snap[w].world)
         /\ SavesOptOut(w) => Dead(snap[w].world)
         /\ pc[w] = "send" => ~optedOut
    /\ optedOut => Dead(row.world)

\* What a reply does to world truth: an opt-out kills it, nothing revives it.
LEMMA ReplyDeadens ==
  ASSUME NEW case \in Row, NEW r
  PROVE  Dead(case.world) \/ r.type = "unsubscribe"
           => Dead(ApplyReply(case, r).world)
BY DEF ApplyReply, ReplyWorld, Row, WorldSnapshot, Dead, OptedOut

\* Nothing but an opt-out suppresses a case in the answer to a reply.
LEMMA OnlyOptOutSuppresses ==
  ASSUME NEW case \in Row, NEW r, ApplyReply(case, r).state = "suppressed"
  PROVE  r.type = "unsubscribe"
<1> DEFINE s == ReplyState(case.state, r.type, r.dated, r.past)
<1>1. s = "suppressed"
  BY DEF ApplyReply
<1>2. CASE r.type = "dispute"
  BY <1>1, <1>2 DEF ReplyState, Transition, HardRule
<1>3. CASE r.type \in {"hostile", "handoff"}
  BY <1>1, <1>3 DEF ReplyState, Transition, HardRule
<1>4. CASE r.type = "paid_claim"
  BY <1>1, <1>4 DEF ReplyState, Transition, HardRule
<1>5. CASE r.type \notin {"unsubscribe", "dispute", "hostile", "handoff",
                          "paid_claim"}
  BY <1>1, <1>5 DEF ReplyState
<1>6. QED
  BY <1>2, <1>3, <1>4, <1>5

LEMMA SignalDeadens ==
  ASSUME TypeOK, NEW w \in Workers, NEW k \in SignalKinds, BeginSignal(w, k)
  PROVE  Dead(snap'[w].world)
BY DEF BeginSignal, TypeOK, Row, WorldSnapshot, Dead, IsPaid, IsDisputed

LEMMA GuardAlive ==
  ASSUME NEW s, NEW world, CheckBeforeSend(s, world)
  PROVE  ~Dead(world)
BY DEF CheckBeforeSend, Dead

\* The copy of a run that begins is as dead as the row, or is an opt-out.
LEMMA BeginOptOut ==
  ASSUME TypeOK, OptOutInv, NEW w \in Workers, Begin(w)
  PROVE  OptOutInv'
<1> USE DEF TypeOK, Live, LoopPlaces, Tail
<1>1. row' = row /\ optedOut' = optedOut /\ pc[w] = "idle"
  BY DEF Begin, BeginJudge, BeginPromote, BeginJump, SelectDue, Sweep,
     BeginFollowUp, BeginReply, BeginSignal, customer
<1>2. ASSUME pc'[w] \notin {"send", "post"},
             optedOut /\ pc'[w] \in Live => Dead(snap'[w].world),
             pc'[w] = "save" /\ snap'[w].state = "suppressed"
               => Dead(snap'[w].world)
      PROVE  OptOutInv'
  BY <1>1, <1>2, OthersStay DEF OptOutInv, SavesOptOut
<1>3. CASE BeginJudge(w) \/ BeginPromote(w) \/ BeginJump(w)
  <2>1. pc'[w] \in {"judge", "sweep"}
    BY <1>3 DEF BeginJudge, BeginPromote, BeginJump, Sweep, Goto
  <2>2. snap'[w].world = row.world
    <3>1. CASE BeginJudge(w)
      BY <3>1 DEF BeginJudge, Sweep, Row
    <3>2. CASE BeginPromote(w) \/ BeginJump(w)
      BY <3>2 DEF BeginPromote, BeginJump, Sweep, Row
    <3>3. QED
      BY <1>3, <3>1, <3>2
  <2>3. QED
    BY <1>2, <2>1, <2>2 DEF OptOutInv
<1>4. CASE SelectDue(w) \/ BeginFollowUp(w)
  <2>1. \/ pc'[w] = "fetch"
        \/ pc'[w] = "loop" /\ snap'[w] = row
    BY <1>4 DEF SelectDue, BeginFollowUp, Goto
  <2>2. QED
    BY <1>2, <2>1 DEF OptOutInv
<1>5. ASSUME NEW k \in {"reply", "mailbox_reply"}, NEW r \in Replies,
             BeginReply(w, k, r)
      PROVE  OptOutInv'
  <2>1. pc'[w] \in {"save", "loop"} /\ snap'[w] = ApplyReply(row, r)
    BY <1>5 DEF BeginReply, Goto
  <2>2. /\ optedOut => Dead(snap'[w].world)
        /\ snap'[w].state = "suppressed" => Dead(snap'[w].world)
    BY <2>1, ReplyDeadens, OnlyOptOutSuppresses DEF OptOutInv
  <2>3. QED
    BY <1>2, <2>1, <2>2
<1>6. ASSUME NEW k \in SignalKinds, BeginSignal(w, k)
      PROVE  OptOutInv'
  <2>1. pc'[w] = "post"
    BY <1>6 DEF BeginSignal, Goto
  <2>2. Dead(snap'[w].world)
    BY <1>6, SignalDeadens
  <2>3. QED
    BY <1>1, <2>1, <2>2, OthersStay DEF OptOutInv, SavesOptOut
<1>7. QED
  BY <1>3, <1>4, <1>5, <1>6 DEF Begin

\* Saving a reply makes the row as dead as the copy; no other run holds one.
LEMMA SaveOptOut ==
  ASSUME TypeOK, PlacesInv, Sequential, OptOutInv,
         NEW w \in Workers, SaveReply(w)
  PROVE  OptOutInv'
<1> USE DEF TypeOK, Live, LoopPlaces, Tail
<1>1. pc[w] \in LoopPlaces /\ \A v \in Workers \ {w} : pc[v] \notin LoopPlaces
  BY Alone DEF PlacesInv, SaveReply
<1>2. row' = snap[w] /\ optedOut' = (optedOut \/ snap[w].state = "suppressed")
  BY DEF SaveReply
<1>3. pc'[w] \in {"idle", "fetch"}
  BY FinishMoves DEF SaveReply, Goto
<1>4. optedOut' => Dead(row'.world)
  BY <1>2 DEF OptOutInv, SavesOptOut, SaveReply
<1>5. \A v \in Workers \ {w} : pc'[v] = pc[v] /\ snap'[v] = snap[v]
  BY OthersStay DEF Run
<1>6. QED
  BY <1>1, <1>3, <1>4, <1>5 DEF OptOutInv, SavesOptOut

\* No step of a loop revives a world: what it writes is the row's or its own.
LEMMA LoopOptOut ==
  ASSUME TypeOK, PlacesInv, OptOutInv,
         NEW w \in Workers, Run(w), pc[w] \notin {"post", "save"}
  PROVE  OptOutInv'
<1> USE DEF TypeOK, Live, LoopPlaces, Tail
<1>1. pc[w] \in LoopPlaces
  BY RunPlaces DEF PlacesInv
<1>2. optedOut /\ pc[w] \in Live => Dead(snap[w].world)
  BY DEF OptOutInv
<1>3. optedOut => Dead(row.world)
  BY DEF OptOutInv
<1>4. optedOut' = optedOut
  BY DEF Run, Fetch, SaveReply, PostSignal, SkipPaid, SkipHandled, JudgeWrite,
     SweepWrite, EscalateRead, EscalateWrite, EscalateNotice, Acquire,
     HandOff, Guard, Blocked, Send, PersistRead, PersistWrite, customer
<1>5. optedOut => Dead(row'.world)
  <2>1. CASE Fetch(w)
    BY <1>3, <2>1 DEF Fetch
  <2>2. CASE pc[w] # "fetch"
    BY <1>1, <1>2, <1>3, <2>2, LoopWorld
  <2>3. QED
    BY <2>1, <2>2 DEF Run, SaveReply, PostSignal, SkipPaid, SkipHandled,
       JudgeWrite, SweepWrite, EscalateRead, EscalateWrite, EscalateNotice,
       Acquire, Proceeds, HandOff, Guard, Blocked, Send, PersistRead,
       PersistWrite
<1>6. /\ pc'[w] \notin {"post", "save"}
      /\ pc'[w] = "send" => ~optedOut
      /\ optedOut /\ pc'[w] \in Live => Dead(snap'[w].world)
  <2>1. CASE Finish(w)
    BY <2>1, FinishMoves
  <2>2. CASE Fetch(w)
    BY <1>3, <2>2 DEF Fetch, Goto
  <2>3. CASE (JudgeWrite(w) \/ SweepWrite(w)) /\ ~Finish(w)
    BY <2>3 DEF JudgeWrite, SweepWrite, Goto
  <2>4. CASE SkipPaid(w) \/ SkipHandled(w) \/ EscalateNotice(w) \/ Blocked(w)
               \/ PersistWrite(w)
    BY <2>1, <2>4 DEF SkipPaid, SkipHandled, EscalateNotice, Blocked,
       PersistWrite
  <2>5. CASE EscalateRead(w) \/ EscalateWrite(w) \/ Acquire(w) \/ HandOff(w)
               \/ PersistRead(w)
    <3>1. /\ snap'[w].world = snap[w].world /\ pc[w] \in Live
          /\ pc'[w] \notin {"send", "post", "save"}
      BY <2>5 DEF EscalateRead, EscalateWrite, Acquire, Proceeds, HandOff,
         PersistRead, Goto, locals, Row
    <3>2. QED
      BY <1>2, <3>1
  <2>6. CASE Guard(w)
    <3>1. pc[w] = "guard" /\ pc'[w] = "send" /\ ~Dead(row.world)
      BY <2>6, GuardAlive DEF Guard, Goto
    <3>2. QED
      BY <1>3, <3>1
  <2>7. CASE Send(w)
    <3>1. pc[w] = "send" /\ pc'[w] = "persist"
      BY <2>7 DEF Send, Goto
    <3>2. QED
      BY <3>1 DEF OptOutInv
  <2>8. QED
    BY <2>1, <2>2, <2>3, <2>4, <2>5, <2>6, <2>7 DEF Run, SaveReply, PostSignal
<1>7. QED
  BY <1>4, <1>5, <1>6, OthersStay DEF OptOutInv, SavesOptOut

(***************************************************************************)
(* OptOutInv is an invariant where one task runs the loops, whatever that  *)
(* task, the signals, the buttons and crashes do.                          *)
(***************************************************************************)
LEMMA OptOutInvariant == ASSUME Sequential PROVE Spec => []OptOutInv
<1> USE DEF TypeOK, Live, LoopPlaces, Tail
<1>1. Init => OptOutInv
  BY DEF Init, OptOutInv, SavesOptOut
<1>2. TypeOK /\ PlacesInv /\ OptOutInv /\ [Next]_vars => OptOutInv'
  <2> SUFFICES ASSUME TypeOK, PlacesInv, OptOutInv, [Next]_vars
               PROVE  OptOutInv'
    OBVIOUS
  <2>1. ASSUME NEW w \in Workers, Begin(w) PROVE OptOutInv'
    BY <2>1, BeginOptOut
  <2>2. ASSUME NEW w \in Workers, Run(w) PROVE OptOutInv'
    <3>1. CASE pc[w] \notin {"post", "save"}
      BY <2>2, <3>1, LoopOptOut
    <3>2. CASE pc[w] = "save"
      <4>1. SaveReply(w)
        BY <2>2, <3>2 DEF Run, Fetch, PostSignal, SkipPaid, SkipHandled,
           JudgeWrite, SweepWrite, EscalateRead, EscalateWrite,
           EscalateNotice, Acquire, Proceeds, HandOff, Guard, Blocked, Send,
           PersistRead, PersistWrite
      <4>2. QED
        BY <4>1, SaveOptOut
    <3>3. CASE pc[w] = "post"
      <4>1. PostSignal(w)
        BY <2>2, <3>3, RunPlaces
      <4>2. row'.world = snap[w].world /\ optedOut' = optedOut /\ pc'[w] = "idle"
        BY <4>1, FinishMoves DEF PostSignal, Row, customer
      <4>3. QED
        BY <2>2, <3>3, <4>2, OthersStay DEF OptOutInv, SavesOptOut
    <3>4. QED
      BY <3>1, <3>2, <3>3
  <2>3. CASE Human
    <3>1. row'.world = row.world /\ UNCHANGED <<pc, snap, optedOut>>
      BY <2>3 DEF Human, PauseCase, CloseCase, ResumeCase, RestartCase,
         EditCommitment, GiveBack, SetState, Row, locals
    <3>2. QED
      BY <3>1 DEF OptOutInv, SavesOptOut
  <2>4. CASE Crash
    BY <2>4 DEF Crash, OptOutInv, SavesOptOut, customer
  <2>5. CASE UNCHANGED vars
    BY <2>5 DEF vars, OptOutInv, SavesOptOut
  <2>6. QED
    BY <2>1, <2>2, <2>3, <2>4, <2>5 DEF Next
<1>3. QED
  BY <1>1, <1>2, Typing, Places, PTL DEF Spec

(***************************************************************************)
(* NeverAfterOptOut for every such system, crashes and the mailbox reply   *)
(* included: an email goes out only past a guard that found the world      *)
(* alive, and nothing revives a world that an opt-out, a dispute or a      *)
(* payment has killed.                                                     *)
(***************************************************************************)
THEOREM OptOutRespected == ASSUME Sequential PROVE Spec => NeverAfterOptOut
<1>1. OptOutInv /\ [Next]_vars
        => [\A w \in Workers : Emailed(w) => ~optedOut]_vars
  BY DEF OptOutInv, Emailed
<1>2. QED
  BY <1>1, OptOutInvariant, PTL DEF Spec, NeverAfterOptOut

-----------------------------------------------------------------------------
(* Handing off.  The notice goes out before the state is in the row; from   *)
(* then on a crash changes nothing.                                         *)

\* States in which no loop sends of its own accord.
Quiet == TERMINAL_STATES \cup {"escalated_to_human", "paused"}

HandedOver == handedOff /\ ~reopened

\* Since the PM was told, the run of w reads a quiet row and is not to send:
\* one that planned on a quiet copy did so because the world is dead.
Stopped(w) ==
    /\ pc[w] \notin {"judge", "save", "send"}
    /\ pc[w] \in {"sweep", "loop"} => snap[w].state \in Quiet
    /\ pc[w] = "loop" /\ Dead(snap[w].world) => Dead(row.world)
    /\ pc[w] = "guard" => Dead(row.world)
    /\ pc[w] \in {"persist", "write"} => snap[w].state = "escalated_to_human"

\* The state a guarded write re-read is still quiet, unless a human or the
\* customer has reopened the case; so is the state a notice reports.
Guarded(w) ==
    /\ pc[w] = "escalate" => snap[w].state = "escalated_to_human"
    /\ pc[w] \in {"escalate", "write"} /\ IsDbStateTerminal(fresh[w]) /\ ~reopened
         => row.state \in Quiet
    /\ pc[w] = "notice" /\ ~reopened => row.state \in Quiet

HandOffRun(w) ==
    /\ pc[w] = "post" => snap[w].state \in Quiet /\ Dead(snap[w].world)
    /\ HandedOver => Stopped(w)
    /\ Guarded(w)

HandOffInv ==
    /\ HandedOver => \/ row.state \in Quiet
                     \/ \E w \in Workers : pc[w] \in {"persist", "write"}
    /\ \A w \in Workers : HandOffRun(w)

\* Beside the task that runs the loops, others only carry signals.
LEMMA OthersStopped ==
  ASSUME TypeOK, PlacesInv, Sequential, HandOffInv,
         NEW w \in Workers, KindsOf[w] \cap LoopKinds # {}, Begin(w) \/ Run(w)
  PROVE  /\ \A v \in Workers \ {w} : pc[v] \notin LoopPlaces /\ HandOffRun(v)'
         /\ HandedOver /\ pc[w] \notin {"persist", "write"}
              => row.state \in Quiet
<1> USE DEF LoopPlaces, Tail
<1>1. \A v \in Workers \ {w} : pc[v] \notin LoopPlaces
  BY Alone
<1>2. \A v \in Workers \ {w} : HandOffRun(v)'
  BY <1>1, OthersStay DEF HandOffInv, HandOffRun, Stopped, Guarded
<1>3. QED
  BY <1>1, <1>2 DEF HandOffInv

\* A copy of a case that was handed over and is planned on all the same is
\* one the customer disputes, of a world that is dead for another reason.
LEMMA QuietPlan ==
  ASSUME NEW s \in Quiet, NEW world, NEW b, ~IsPaid(world), s # "paid",
         s \notin SKIPPED_STATES, ~MustEscalate(s, world, b)
  PROVE  Dead(world)
BY DEF Quiet, TERMINAL_STATES, SKIPPED_STATES, MustEscalate, Dead

LEMMA BeginHandOff ==
  ASSUME TypeOK, PlacesInv, Sequential, HandOffInv, NEW w \in Workers, Begin(w)
  PROVE  HandOffInv'
<1> USE DEF TypeOK
<1>1. row' = row /\ pc[w] = "idle" /\ handedOff' = handedOff
  BY DEF Begin, BeginJudge, BeginPromote, BeginJump, SelectDue, Sweep,
     BeginFollowUp, BeginReply, BeginSignal, customer
<1>2. ASSUME KindsOf[w] \cap LoopKinds # {}, HandOffRun(w)', HandedOver' => HandedOver
      PROVE  HandOffInv'
  BY <1>1, <1>2, OthersStopped DEF HandOffInv
<1>3. ASSUME KindsOf[w] \cap LoopKinds # {}
      PROVE  HandedOver => row.state \in Quiet
  BY <1>1, <1>3, OthersStopped
<1>4. CASE BeginJudge(w) \/ BeginPromote(w)
  <2>1. /\ pc'[w] \in {"judge", "sweep"} /\ reopened' = reopened
        /\ KindsOf[w] \cap LoopKinds # {} /\ row.state \notin Quiet
    BY <1>4 DEF BeginJudge, BeginPromote, Sweep, Goto, customer, LoopKinds,
       Quiet, TERMINAL_STATES
  <2>2. ~HandedOver /\ ~HandedOver'
    BY <1>1, <1>3, <2>1 DEF HandedOver
  <2>3. QED
    BY <1>2, <2>1, <2>2 DEF HandOffRun, Guarded
<1>5. CASE BeginJump(w)
  <2>1. /\ pc'[w] = "sweep" /\ reopened' = reopened
        /\ KindsOf[w] \cap LoopKinds # {}
    BY <1>5 DEF BeginJump, Sweep, Goto, customer, LoopKinds
  <2>2. row.state \in Quiet => snap'[w].state \in Quiet
    BY <1>5 DEF BeginJump, Sweep, Quiet, TERMINAL_STATES
  <2>3. QED
    BY <1>1, <1>2, <1>3, <2>1, <2>2 DEF HandOffRun, Stopped, Guarded, HandedOver
<1>6. CASE SelectDue(w) \/ BeginFollowUp(w)
  <2>1. /\ pc'[w] = "fetch" \/ (pc'[w] = "loop" /\ snap'[w] = row)
        /\ reopened' = reopened /\ KindsOf[w] \cap LoopKinds # {}
    BY <1>6 DEF SelectDue, BeginFollowUp, Goto, customer, LoopKinds
  <2>2. QED
    BY <1>1, <1>2, <1>3, <2>1 DEF HandOffRun, Stopped, Guarded, HandedOver
<1>7. ASSUME NEW k \in {"reply", "mailbox_reply"}, NEW r \in Replies,
             BeginReply(w, k, r)
      PROVE  HandOffInv'
  <2>1. /\ pc'[w] \in {"save", "loop"} /\ reopened'
        /\ KindsOf[w] \cap LoopKinds # {}
    BY <1>7 DEF BeginReply, Heard, Goto, LoopKinds
  <2>2. QED
    BY <1>2, <2>1 DEF HandOffRun, Guarded, HandedOver
<1>8. ASSUME NEW k \in SignalKinds, BeginSignal(w, k)
      PROVE  HandOffInv'
  <2>1. /\ pc'[w] = "post" /\ reopened' = reopened
        /\ snap'[w].state \in {"paid", "disputed"}
    BY <1>8 DEF BeginSignal, Goto, customer, Row
  <2>2. HandOffRun(w)'
    BY <1>8, <2>1, SignalDeadens
       DEF HandOffRun, Stopped, Guarded, Quiet, TERMINAL_STATES
  <2>3. \A v \in Workers \ {w} : HandOffRun(v)'
    BY <1>1, <2>1, OthersStay
       DEF HandOffInv, HandOffRun, Stopped, Guarded, HandedOver
  <2>4. QED
    BY <1>1, <2>1, <2>2, <2>3, OthersStay DEF HandOffInv, HandedOver
<1>9. QED
  BY <1>4, <1>5, <1>6, <1>7, <1>8 DEF Begin

\* The steps of a loop outside the lock, and its entry.
LEMMA HeadHandOff ==
  ASSUME TypeOK, PlacesInv, Sequential, HandOffInv, NEW w \in Workers,
         \/ Fetch(w) \/ SaveReply(w) \/ SkipPaid(w) \/ SkipHandled(w)
         \/ JudgeWrite(w) \/ SweepWrite(w)
         \/ EscalateRead(w) \/ EscalateWrite(w) \/ EscalateNotice(w)
         \/ Acquire(w)
  PROVE  HandOffRun(w)' /\ (HandedOver' => row'.state \in Quiet)
<1> USE DEF TypeOK
<1>0. KindsOf[w] \cap LoopKinds # {} /\ Run(w)
  BY DEF Run, Fetch, SaveReply, SkipPaid, SkipHandled, JudgeWrite, SweepWrite,
     EscalateRead, EscalateWrite, EscalateNotice, Acquire, Proceeds, PlacesInv,
     LoopPlaces, Tail
<1>1. /\ HandOffRun(w) /\ pc[w] \notin {"persist", "write"}
      /\ HandedOver => row.state \in Quiet
  BY <1>0, OthersStopped
     DEF HandOffInv, Fetch, SaveReply, SkipPaid, SkipHandled, JudgeWrite,
         SweepWrite, EscalateRead, EscalateWrite, EscalateNotice, Acquire,
         Proceeds
<1>2. CASE Fetch(w)
  <2>1. /\ pc'[w] = "loop" /\ snap'[w] = row /\ row' = row
        /\ HandedOver' = HandedOver
    BY <1>2 DEF Fetch, Goto, customer, HandedOver
  <2>2. QED
    BY <1>1, <2>1 DEF HandOffRun, Stopped, Guarded
<1>3. CASE SaveReply(w) \/ JudgeWrite(w)
  <2>1. /\ pc[w] \in {"save", "judge"} /\ pc'[w] \in {"fetch", "idle"}
        /\ HandedOver' = HandedOver
    BY <1>3, FinishMoves DEF SaveReply, JudgeWrite, Goto, customer, HandedOver
  <2>2. ~HandedOver
    BY <1>1, <2>1 DEF HandOffRun, Stopped
  <2>3. QED
    BY <2>1, <2>2 DEF HandOffRun, Guarded
<1>4. CASE SweepWrite(w)
  <2>1. /\ pc[w] = "sweep" /\ pc'[w] \in {"fetch", "idle"}
        /\ row'.state = snap[w].state /\ HandedOver' = HandedOver
    BY <1>4, FinishMoves DEF SweepWrite, Goto, customer, HandedOver, Row
  <2>2. QED
    BY <1>1, <2>1 DEF HandOffRun, Stopped, Guarded
<1>5. CASE SkipPaid(w) \/ SkipHandled(w)
  <2>1. /\ pc'[w] = "idle" /\ row'.state \in {"paid", row.state}
        /\ HandedOver' = HandedOver
    BY <1>5, FinishMoves
       DEF SkipPaid, SkipHandled, customer, HandedOver, Row
  <2>2. QED
    BY <1>1, <2>1 DEF HandOffRun, Stopped, Guarded, Quiet, TERMINAL_STATES
<1>6. CASE EscalateRead(w)
  <2>1. /\ pc'[w] = "escalate" /\ snap'[w].state = "escalated_to_human"
        /\ row' = row /\ fresh'[w] = row.state
        /\ reopened' = reopened /\ HandedOver' = HandedOver
    BY <1>6 DEF EscalateRead, Goto, customer, HandedOver, Row
  <2>2. QED
    BY <1>1, <2>1
       DEF HandOffRun, Stopped, Guarded, IsDbStateTerminal, Quiet
<1>7. CASE EscalateWrite(w)
  <2>1. /\ pc[w] = "escalate" /\ pc'[w] = "notice"
        /\ handedOff' = handedOff
        /\ row'.state = "escalated_to_human" => ~reopened'
        /\ row'.state # "escalated_to_human" => reopened' = reopened
    BY <1>7 DEF EscalateWrite, Goto
  <2>2. \/ row'.state = "escalated_to_human"
        \/ IsDbStateTerminal(fresh[w]) /\ row'.state = row.state
    BY <1>1, <1>7, <2>1 DEF EscalateWrite, GuardedRow, HandOffRun, Guarded
  <2>3. ~reopened' => row'.state \in Quiet
    BY <1>1, <2>1, <2>2 DEF HandOffRun, Guarded, Quiet
  <2>4. QED
    BY <2>1, <2>3 DEF HandOffRun, Stopped, Guarded, HandedOver
<1>8. CASE EscalateNotice(w)
  <2>1. /\ pc[w] = "notice" /\ pc'[w] = "idle" /\ row' = row
        /\ reopened' = reopened
    BY <1>8, FinishMoves DEF EscalateNotice
  <2>2. QED
    BY <1>1, <2>1 DEF HandOffRun, Stopped, Guarded, HandedOver
<1>9. CASE Acquire(w)
  <2>1. /\ pc[w] = "loop" /\ pc'[w] \in {"guard", "handoff"} /\ row' = row
        /\ HandedOver' = HandedOver
    BY <1>9 DEF Acquire, Proceeds, Goto, customer, HandedOver
  <2>2. HandedOver => Dead(row.world)
    <3>1. HandedOver => snap[w].state \in Quiet
      BY <1>1, <2>1 DEF HandOffRun, Stopped
    <3>2. /\ ~SeesPaid(w) /\ snap[w].state \notin SKIPPED_STATES /\ ~Must(w)
          /\ snap[w].state # "paid"
      BY <1>9 DEF Acquire, Proceeds, SeesPaid
    <3>3. ASSUME HandedOver PROVE Dead(snap[w].world)
      <4>1. CASE IsPaid(snap[w].world)
        BY <4>1 DEF Dead
      <4>2. CASE ~IsPaid(snap[w].world)
        BY <3>1, <3>2, <3>3, <4>2, QuietPlan DEF Must
      <4>3. QED
        BY <4>1, <4>2
    <3>4. QED
      BY <1>1, <2>1, <3>3 DEF HandOffRun, Stopped
  <2>3. QED
    BY <1>1, <2>1, <2>2 DEF HandOffRun, Stopped, Guarded
<1>10. QED
  BY <1>2, <1>3, <1>4, <1>5, <1>6, <1>7, <1>8, <1>9

\* The steps inside the lock.
LEMMA TailHandOff ==
  ASSUME TypeOK, PlacesInv, Sequential, HandOffInv, NEW w \in Workers,
         \/ HandOff(w) \/ Guard(w) \/ Blocked(w) \/ Send(w)
         \/ PersistRead(w) \/ PersistWrite(w)
  PROVE  /\ HandOffRun(w)'
         /\ HandedOver' => row'.state \in Quiet \/ pc'[w] \in {"persist", "write"}
<1> USE DEF TypeOK
<1>0. KindsOf[w] \cap LoopKinds # {} /\ Run(w)
  BY DEF Run, HandOff, Guard, Blocked, Send, PersistRead, PersistWrite,
     PlacesInv, LoopPlaces, Tail
<1>1. /\ HandOffRun(w)
      /\ HandedOver /\ pc[w] \notin {"persist", "write"} => row.state \in Quiet
  BY <1>0, OthersStopped DEF HandOffInv
<1>2. CASE HandOff(w)
  <2>1. pc'[w] = "persist" /\ snap'[w].state = "escalated_to_human"
    BY <1>2 DEF HandOff, Goto, Row
  <2>2. QED
    BY <2>1 DEF HandOffRun, Stopped, Guarded
<1>3. CASE Guard(w)
  <2>1. /\ pc[w] = "guard" /\ pc'[w] = "send" /\ ~Dead(row.world)
        /\ HandedOver' = HandedOver
    BY <1>3, GuardAlive DEF Guard, Goto, customer, HandedOver
  <2>2. ~HandedOver
    BY <1>1, <2>1 DEF HandOffRun, Stopped
  <2>3. QED
    BY <2>1, <2>2 DEF HandOffRun, Guarded
<1>4. CASE Blocked(w)
  <2>1. /\ pc[w] = "guard" /\ pc'[w] = "idle" /\ row' = row
        /\ HandedOver' = HandedOver
    BY <1>4, FinishMoves DEF Blocked, customer, HandedOver
  <2>2. QED
    BY <1>1, <2>1 DEF HandOffRun, Stopped, Guarded
<1>5. CASE Send(w)
  <2>1. pc[w] = "send" /\ pc'[w] = "persist" /\ HandedOver' = HandedOver
    BY <1>5 DEF Send, Goto, HandedOver
  <2>2. QED
    BY <1>1, <2>1 DEF HandOffRun, Stopped, Guarded
<1>6. CASE PersistRead(w)
  <2>1. /\ pc[w] = "persist" /\ pc'[w] = "write" /\ row' = row /\ snap' = snap
        /\ fresh'[w] = row.state /\ HandedOver' = HandedOver
    BY <1>6 DEF PersistRead, Goto, customer, HandedOver
  <2>2. QED
    BY <1>1, <2>1 DEF HandOffRun, Stopped, Guarded, IsDbStateTerminal, Quiet
<1>7. CASE PersistWrite(w)
  <2>1. /\ pc[w] = "write" /\ pc'[w] = "idle" /\ HandedOver' = HandedOver
        /\ \/ row'.state = snap[w].state
           \/ IsDbStateTerminal(fresh[w]) /\ row'.state = row.state
    BY <1>7, FinishMoves
       DEF PersistWrite, GuardedRow, customer, HandedOver
  <2>2. HandedOver => row'.state \in Quiet
    BY <1>1, <2>1 DEF HandOffRun, Stopped, Guarded, HandedOver, Quiet
  <2>3. QED
    BY <2>1, <2>2 DEF HandOffRun, Stopped, Guarded
<1>8. QED
  BY <1>2, <1>3, <1>4, <1>5, <1>6, <1>7

(***************************************************************************)
(* HandOffInv is an invariant where one task runs the loops and the        *)
(* process does not crash.                                                 *)
(***************************************************************************)
LEMMA HandOffInvariant ==
  ASSUME Sequential
  PROVE  Spec => []HandOffInv
<1> USE DEF TypeOK
<1>1. Init => HandOffInv
  BY DEF Init, HandOffInv, HandOffRun, Guarded, HandedOver
<1>2. TypeOK /\ PlacesInv /\ HandOffInv /\ [Next]_vars => HandOffInv'
  <2> SUFFICES ASSUME TypeOK, PlacesInv, HandOffInv, [Next]_vars
               PROVE  HandOffInv'
    OBVIOUS
  <2>1. ASSUME NEW w \in Workers, Begin(w) PROVE HandOffInv'
    BY <2>1, BeginHandOff
  <2>2. ASSUME NEW w \in Workers, Run(w), pc[w] # "post" PROVE HandOffInv'
    <3>1. /\ HandOffRun(w)'
          /\ HandedOver' => \/ row'.state \in Quiet
                            \/ pc'[w] \in {"persist", "write"}
      BY <2>2, HeadHandOff, TailHandOff DEF Run, PostSignal
    <3>2. \A v \in Workers \ {w} : HandOffRun(v)'
      BY <2>2, RunPlaces, OthersStopped DEF PlacesInv
    <3>3. QED
      BY <3>1, <3>2 DEF HandOffInv
  <2>3. ASSUME NEW w \in Workers, Run(w), pc[w] = "post" PROVE HandOffInv'
    <3>1. PostSignal(w)
      BY <2>3, RunPlaces
    <3>2. /\ row'.world = snap[w].world /\ row'.state = snap[w].state
          /\ HandedOver' = HandedOver /\ reopened' = reopened
          /\ pc'[w] = "idle"
      BY <3>1, FinishMoves DEF PostSignal, Row, customer, HandedOver
    <3>3. Dead(row'.world) /\ row'.state \in Quiet
      BY <2>3, <3>2 DEF HandOffInv, HandOffRun
    <3>4. HandOffRun(w)'
      BY <3>2 DEF HandOffRun, Stopped, Guarded
    <3>5. \A v \in Workers \ {w} : HandOffRun(v)'
      BY <2>3, <3>2, <3>3, OthersStay
         DEF HandOffInv, HandOffRun, Stopped, Guarded
    <3>6. QED
      BY <3>3, <3>4, <3>5 DEF HandOffInv
  <2>4. CASE PauseCase \/ CloseCase
    <3>1. /\ row'.state \in {"paused", "closed"} /\ row'.world = row.world
          /\ UNCHANGED <<pc, snap, fresh, reopened, handedOff>>
      BY <2>4 DEF PauseCase, CloseCase, SetState, Row, locals
    <3>2. QED
      BY <3>1 DEF HandOffInv, HandOffRun, Stopped, Guarded, HandedOver, Quiet,
         TERMINAL_STATES
  <2>5. CASE ResumeCase \/ RestartCase \/ EditCommitment
    <3>1. reopened' /\ UNCHANGED <<pc, snap>>
      BY <2>5 DEF ResumeCase, RestartCase, EditCommitment, GiveBack,
         SetState, locals
    <3>2. QED
      BY <3>1 DEF HandOffInv, HandOffRun, Guarded, HandedOver
  <2>6. CASE Crash
    <3>1. /\ row' = row /\ reopened' = reopened
          /\ \A w \in Workers : pc'[w] = "idle"
          /\ handedOff' =>
               handedOff /\ \A w \in Workers : pc[w] \notin {"persist", "write"}
      BY <2>6 DEF Crash, Uncounted
    <3>2. HandedOver' => HandedOver /\ row.state \in Quiet
      BY <3>1 DEF HandOffInv, HandedOver
    <3>3. \A w \in Workers : HandOffRun(w)'
      <4> TAKE w \in Workers
      <4>1. pc'[w] = "idle"
        BY <3>1
      <4>2. QED
        BY <4>1 DEF HandOffRun, Stopped, Guarded
    <3>4. QED
      BY <3>1, <3>2, <3>3 DEF HandOffInv
  <2>7. CASE UNCHANGED vars
    BY <2>7 DEF vars, HandOffInv, HandOffRun, Stopped, Guarded, HandedOver
  <2>8. QED
    BY <2>1, <2>2, <2>3, <2>4, <2>5, <2>6, <2>7 DEF Next, Human
<1>3. QED
  BY <1>1, <1>2, Typing, Places, PTL DEF Spec

(***************************************************************************)
(* HandOffHolds for every such system: after the notice every copy is a    *)
(* quiet one until the case is given back, so no run reaches its email.    *)
(***************************************************************************)
THEOREM HandOffFinal == ASSUME Sequential PROVE Spec => HandOffHolds
<1>1. HandOffInv /\ [Next]_vars
        => [\A w \in Workers : Emailed(w) => ~handedOff \/ reopened]_vars
  BY DEF HandOffInv, HandOffRun, Stopped, HandedOver, Emailed
<1>2. QED
  BY <1>1, HandOffInvariant, PTL DEF Spec, HandOffHolds
=============================================================================
