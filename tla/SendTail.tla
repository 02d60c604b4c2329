------------------------------ MODULE SendTail ------------------------------
(***************************************************************************)
(* One row of oa_cases and what writes it at the same time: the tick       *)
(* poller, its sweeps and the clock jump, and the reply path (run_case_loop*)
(* in loop/executor.py, called from loop/scheduler.py), the traced         *)
(* follow-up and mailbox reply (loop/traced_loop.py), the payment and      *)
(* dispute signals (loop/scheduler.py), the four buttons of the API        *)
(* (api/routes.py) and the edit of a promise (channels/web.py).  All of it *)
(* runs in one asyncio process, so a step here is the code between two     *)
(* awaits on the store, and every await lets any other run in.             *)
(*                                                                         *)
(* A run copies the row (snap), thinks for seconds (LLM calls) and then    *)
(* enters the tail: case lock, guard on a re-read row, send, and a guarded *)
(* write of the copy back to the row.                                      *)
(*                                                                         *)
(* Due dates, dialogue, commitments and drafts are not modelled here: a    *)
(* tick may find any unsuppressed case due and any promise missed, and the *)
(* planner may pick any outcome its pool offers.  The row is never deleted *)
(* and the PM's address is known.                                          *)
(***************************************************************************)
EXTENDS CaseDomain, FiniteSets

CONSTANTS
    Workers,      \* tasks of the event loop that run operations on the case
    KindsOf,      \* KindsOf[w]: the operations task w runs, one at a time
    Replies,      \* the interpreted replies a customer may send
    InitStates,   \* the states the case may be found in
    Buttons,      \* the buttons that someone may press
    MaxCrashes    \* bound on process crashes

LoopKinds == {"tick", "jump", "reply", "follow_up", "mailbox_reply"}
SignalKinds == {"payment", "dispute"}
Kinds == LoopKinds \cup SignalKinds

ASSUME WorkersAssumption ==
    /\ KindsOf \in [Workers -> SUBSET Kinds]
    /\ Replies \subseteq [type : ReplyType, dated : BOOLEAN, past : BOOLEAN]
    /\ InitStates \subseteq CaseState
    /\ Buttons \subseteq {"pause", "close", "resume", "restart", "edit"}
    /\ MaxCrashes \in Nat

VARIABLES
    row,      \* the case row: state, world, budget
    lock,     \* the asyncio.Lock of the case: the runs that hold it
    pc,       \* pc[w]: where the run of task w awaits
    kind,     \* kind[w]: the operation it runs
    snap,     \* snap[w]: its in-memory copy of the row
    fresh,    \* fresh[w]: the state guarded_case_update re-read
    \* history, for the properties only
    outreach,     \* outreach emails since the customer last wrote
    crashes,      \* process crashes so far
    handedOff,    \* the PM was told that the agent has stopped, and no
                  \* crash has come before the row said so
    reopened,     \* since then the customer wrote or a human gave it back
    optedOut,     \* a request to be left alone has been saved
    paidAtLock    \* paidAtLock[w]: the row was paid when w took the lock

customer == <<outreach, handedOff, reopened, optedOut>>
locals == <<kind, snap, fresh, paidAtLock>>
vars == <<row, lock, pc, kind, snap, fresh, outreach, crashes, handedOff,
          reopened, optedOut, paidAtLock>>

Row == [state : CaseState, world : WorldSnapshot, budget : AutonomyBudget]

NewRow(s) ==
    [state |-> s, world |-> OpenWorld(1), budget |-> FreshBudget]

\* The value of a local that is out of scope.
NoRow == NewRow("overdue")

\* Places a run can be in; those of Tail are inside the case lock.
Tail == {"guard", "send", "handoff", "persist", "write"}
PC == {"idle", "judge", "sweep", "fetch", "loop", "save", "post",
       "escalate", "notice"} \cup Tail

\* Where it can be after an email or a hand-off that the row does not show.
Uncounted == {"persist", "write"}

Exec(w) == kind[w] \in {"tick", "reply"}   \* runs run_case_loop

TypeOK ==
    /\ row \in Row
    /\ lock \in SUBSET Workers
    /\ pc \in [Workers -> PC]
    /\ kind \in [Workers -> Kinds \cup {"none"}]
    /\ snap \in [Workers -> Row]
    /\ fresh \in [Workers -> CaseState]
    /\ outreach \in 0 .. MaxUnanswered + MaxCrashes + 1
    /\ crashes \in 0 .. MaxCrashes
    /\ handedOff \in BOOLEAN
    /\ reopened \in BOOLEAN
    /\ optedOut \in BOOLEAN
    /\ paidAtLock \in [Workers -> BOOLEAN]

Init ==
    /\ row \in {NewRow(s) : s \in InitStates}
    /\ lock = {}
    /\ pc = [w \in Workers |-> "idle"]
    /\ kind = [w \in Workers |-> "none"]
    /\ snap = [w \in Workers |-> NoRow]
    /\ fresh = [w \in Workers |-> "overdue"]
    /\ outreach = 0
    /\ crashes = 0
    /\ handedOff = FALSE
    /\ reopened = FALSE
    /\ optedOut = FALSE
    /\ paidAtLock = [w \in Workers |-> FALSE]

-----------------------------------------------------------------------------
(* Helpers *)

Goto(w, l) == pc' = [pc EXCEPT ![w] = l]

\* The run of w is over; its locals go out of scope.
Finish(w) ==
    /\ Goto(w, "idle")
    /\ kind' = [kind EXCEPT ![w] = "none"]
    /\ snap' = [snap EXCEPT ![w] = NoRow]
    /\ fresh' = [fresh EXCEPT ![w] = "overdue"]
    /\ paidAtLock' = [paidAtLock EXCEPT ![w] = FALSE]

Release(w) == lock' = lock \ {w}

\* Seeded defect: the guarded write reverts a closure (before 2026-09-04).
GuardedRow_Unguarded(w, full) ==
    [state  |-> snap[w].state,
     world  |-> IF full THEN snap[w].world ELSE row.world,
     budget |-> IF full THEN snap[w].budget ELSE row.budget]

\* Seeded defect: a write that meets a closure is dropped as a whole.
GuardedRow_DropAll(w, full) ==
    IF IsDbStateTerminal(fresh[w]) /\ fresh[w] # snap[w].state
    THEN row
    ELSE [snap[w] EXCEPT !.world = IF full THEN @ ELSE row.world,
                         !.budget = IF full THEN @ ELSE row.budget]

\* What a guarded write may put in the row: the copy of w, without state and
\* world if the re-read state was terminal and not the one being written.
\* full: the write also carries world and budget.
GuardedRow(w, full) ==
    LET drop == IsDbStateTerminal(fresh[w]) /\ fresh[w] # snap[w].state
    IN [state  |-> IF drop THEN row.state ELSE snap[w].state,
        world  |-> IF drop \/ ~full THEN row.world ELSE snap[w].world,
        budget |-> IF full THEN snap[w].budget ELSE row.budget]

\* apply_reply_signal on an in-memory copy.
ApplyReply(case, r) ==
    [state  |-> ReplyState(case.state, r.type, r.dated, r.past),
     world  |-> ReplyWorld(case.world, r.type),
     budget |-> ReplyBudget(case.budget, r.type, r.dated)]

\* Seeded defect: a state name that CaseState does not have.
AfterOutreach_Misspelt(w, state, budget) ==
    {IF state \in OUTREACH_STATES THEN "waiting" ELSE state}

\* The states a case may be in after an email went out.  run_case_loop moves
\* any state to waiting_for_customer when the objective was to verify or to
\* clarify, and asks for escalation once the budget is used up.
AfterOutreach(w, state, budget) ==
    LET table == IF state \in OUTREACH_STATES
                 THEN "waiting_for_customer" ELSE state
    IN IF ~Exec(w) THEN {table}
       ELSE IF Exhausted(budget) THEN {"escalation_required"}
       ELSE {table, "waiting_for_customer"}

Heard ==
    /\ outreach' = 0
    /\ reopened' = TRUE

-----------------------------------------------------------------------------
(* run_agent_tick first judges promises and promotes invoices that became  *)
(* due; the clock jump before it wakes parked cases.  Each walks a list of *)
(* rows it read before, and writes what it made of its copy.               *)

Sweep(w, k, copy, l) ==
    /\ pc[w] = "idle" /\ k \in KindsOf[w]
    /\ kind' = [kind EXCEPT ![w] = "tick"]
    /\ snap' = [snap EXCEPT ![w] = copy]
    /\ Goto(w, l)
    /\ UNCHANGED <<row, lock, fresh, paidAtLock, crashes, customer>>

\* A promise whose date is reached is missed unless the copy is paid.
BeginJudge(w) ==
    /\ row.state \in {"promise_to_pay", "promise_missed"}
    /\ Sweep(w, "tick",
             IF IsPaid(row.world) THEN row
             ELSE [row EXCEPT !.state = "promise_missed",
                              !.budget = ConsumeMiss(@)],
             "judge")

BeginPromote(w) ==
    /\ row.state \in {"not_due", "due"}
    /\ Sweep(w, "tick", [row EXCEPT !.state = "overdue"], "sweep")

\* jump_sim_clock rewrites the state of every case, woken or not.
BeginJump(w) ==
    \/ Sweep(w, "jump", row, "sweep")
    \/ /\ row.state \in {"follow_up_scheduled", "blocked"}
       /\ Sweep(w, "jump", [row EXCEPT !.state = "outreach_ready"], "sweep")

JudgeWrite(w) ==
    /\ pc[w] = "judge"
    /\ row' = [row EXCEPT !.state = snap[w].state, !.budget = snap[w].budget]
    /\ \/ Goto(w, "fetch") /\ UNCHANGED locals
       \/ IsPaid(snap[w].world) /\ Finish(w)
    /\ UNCHANGED <<lock, crashes, customer>>

SweepWrite(w) ==
    /\ pc[w] = "sweep"
    /\ row' = [row EXCEPT !.state = snap[w].state]
    /\ \/ Goto(w, "fetch") /\ UNCHANGED locals
       \/ Finish(w)
    /\ UNCHANGED <<lock, crashes, customer>>

-----------------------------------------------------------------------------
(* The tick proper: the case is listed as due, and re-read when its turn   *)
(* comes; a reply is saved and the row re-read the same way.               *)

SelectDue(w) ==
    /\ pc[w] = "idle" /\ "tick" \in KindsOf[w]
    /\ row.state \notin COLLECTIONS_SUPPRESSED_STATES
    /\ Goto(w, "fetch")
    /\ kind' = [kind EXCEPT ![w] = "tick"]
    /\ UNCHANGED <<row, lock, snap, fresh, paidAtLock, crashes, customer>>

Fetch(w) ==
    /\ pc[w] = "fetch"
    /\ snap' = [snap EXCEPT ![w] = row]
    /\ Goto(w, "loop")
    /\ UNCHANGED <<row, lock, kind, fresh, paidAtLock, crashes, customer>>

(* run_traced_follow_up *)
BeginFollowUp(w) ==
    /\ pc[w] = "idle" /\ "follow_up" \in KindsOf[w]
    /\ kind' = [kind EXCEPT ![w] = "follow_up"]
    /\ snap' = [snap EXCEPT ![w] = row]
    /\ Goto(w, "loop")
    /\ UNCHANGED <<row, lock, fresh, paidAtLock, crashes, customer>>

(* advance_case_with_reply saves the reply before it runs the loop;        *)
(* submit_customer_reply carries it in memory to the end of its run.       *)
BeginReply(w, k, r) ==
    /\ pc[w] = "idle" /\ k \in KindsOf[w]
    /\ kind' = [kind EXCEPT ![w] = k]
    /\ snap' = [snap EXCEPT ![w] = ApplyReply(row, r)]
    /\ Goto(w, IF k = "reply" THEN "save" ELSE "loop")
    /\ Heard
    /\ UNCHANGED <<row, lock, fresh, paidAtLock, crashes, handedOff, optedOut>>

\* The loop runs on unless the reply ended the case or deferred it to a date.
\* A reply suppresses the case only when it asks to be left alone.
SaveReply(w) ==
    /\ pc[w] = "save"
    /\ row' = snap[w]
    /\ optedOut' = (optedOut \/ snap[w].state = "suppressed")
    /\ \/ /\ snap[w].state \in {"paid", "disputed", "suppressed",
                                "follow_up_scheduled", "blocked"}
          /\ Finish(w)
       \/ /\ snap[w].state \notin {"paid", "disputed", "suppressed"}
          /\ Goto(w, "fetch")
          /\ UNCHANGED locals
    /\ UNCHANGED <<lock, crashes, outreach, handedOff, reopened>>

-----------------------------------------------------------------------------
(* simulate_payment_for_case and create_dispute_for_case: read the row,    *)
(* then write state and world over it.                                     *)

BeginSignal(w, k) ==
    /\ pc[w] = "idle" /\ k \in KindsOf[w]
    /\ kind' = [kind EXCEPT ![w] = k]
    /\ snap' = [snap EXCEPT ![w] =
           IF k = "payment"
           THEN [row EXCEPT !.state = "paid", !.world.status = "paid",
                            !.world.balance_due = 0]
           ELSE [row EXCEPT !.state = "disputed",
                            !.world.status = "disputed"]]
    /\ Goto(w, "post")
    /\ UNCHANGED <<row, lock, fresh, paidAtLock, crashes, customer>>

PostSignal(w) ==
    /\ pc[w] = "post"
    /\ row' = [row EXCEPT !.state = snap[w].state, !.world = snap[w].world]
    /\ Finish(w)
    /\ UNCHANGED <<lock, crashes, customer>>

-----------------------------------------------------------------------------
(* The head of both loops, on the copy: paid, skipped, escalate, or plan   *)

\* The traced loop does not look at world.status.
SeesPaid(w) ==
    \/ snap[w].world.balance_due = 0
    \/ snap[w].state = "paid"
    \/ Exec(w) /\ snap[w].world.status = "paid"

Proceeds(w) ==
    /\ pc[w] = "loop"
    /\ ~SeesPaid(w)
    /\ snap[w].state \notin SKIPPED_STATES

Must(w) == MustEscalate(snap[w].state, snap[w].world, snap[w].budget)

SkipPaid(w) ==
    /\ pc[w] = "loop"
    /\ SeesPaid(w)
    /\ row' = IF Exec(w)
              THEN [row EXCEPT !.state = "paid", !.world = snap[w].world]
              ELSE [row EXCEPT !.state =
                       IF snap[w].state = "paid" THEN @ ELSE "paid"]
    /\ Finish(w)
    /\ UNCHANGED <<lock, crashes, customer>>

SkipHandled(w) ==
    /\ pc[w] = "loop"
    /\ ~SeesPaid(w)
    /\ snap[w].state \in SKIPPED_STATES
    /\ Finish(w)
    /\ UNCHANGED <<row, lock, crashes, customer>>

\* Escalation outside the lock: budget or objective in either loop, and in
\* the traced loop also the planner's choice or an unknown recipient.
EscalateRead(w) ==
    /\ Proceeds(w)
    /\ Must(w) \/ ~Exec(w)
    /\ snap' = [snap EXCEPT ![w].state = "escalated_to_human"]
    /\ fresh' = [fresh EXCEPT ![w] = row.state]
    /\ Goto(w, "escalate")
    /\ UNCHANGED <<row, lock, kind, paidAtLock, crashes, customer>>

EscalateWrite(w) ==
    /\ pc[w] = "escalate"
    /\ row' = GuardedRow(w, Exec(w))
    /\ reopened' = (reopened /\ row'.state # "escalated_to_human")
    /\ Goto(w, "notice")
    /\ UNCHANGED <<lock, locals, crashes, outreach, handedOff, optedOut>>

EscalateNotice(w) ==
    /\ pc[w] = "notice"
    /\ handedOff' = TRUE
    /\ Finish(w)
    /\ UNCHANGED <<row, lock, crashes, outreach, reopened, optedOut>>

-----------------------------------------------------------------------------
(* The tail, inside the case lock *)

\* Seeded defect: the two loops do not share one lock registry.
Acquire_OwnLock(w) ==
    /\ Proceeds(w) /\ ~Must(w)
    /\ lock' = lock \cup {w}
    /\ paidAtLock' = [paidAtLock EXCEPT ![w] = IsPaid(row.world)]
    /\ \/ Goto(w, "guard")
       \/ Exec(w) /\ Goto(w, "handoff")
    /\ UNCHANGED <<row, kind, snap, fresh, crashes, customer>>

Acquire(w) ==
    /\ Proceeds(w) /\ ~Must(w)
    /\ lock = {}
    /\ lock' = {w}
    /\ paidAtLock' = [paidAtLock EXCEPT ![w] = IsPaid(row.world)]
    /\ \/ Goto(w, "guard")
       \/ Exec(w) /\ Goto(w, "handoff")
    /\ UNCHANGED <<row, kind, snap, fresh, crashes, customer>>

\* Seeded defect: the notice goes out but the state is not set.
HandOff_NoState(w) ==
    /\ pc[w] = "handoff"
    /\ handedOff' = TRUE
    /\ reopened' = FALSE
    /\ Goto(w, "persist")
    /\ UNCHANGED <<row, lock, locals, crashes, outreach, optedOut>>

\* run_case_loop, no recipient or planner's choice: the notice goes out
\* before the state is persisted.
HandOff(w) ==
    /\ pc[w] = "handoff"
    /\ snap' = [snap EXCEPT ![w].state = "escalated_to_human"]
    /\ handedOff' = TRUE
    /\ reopened' = FALSE
    /\ Goto(w, "persist")
    /\ UNCHANGED <<row, lock, kind, fresh, paidAtLock, crashes, outreach,
                   optedOut>>

\* Seeded defect: the guard looks at the run's own copy (before 2026-09-04).
Guard_StaleCopy(w) ==
    /\ pc[w] = "guard"
    /\ CheckBeforeSend(snap[w].state, snap[w].world)
    /\ Goto(w, "send")
    /\ UNCHANGED <<row, lock, locals, crashes, customer>>

Guard(w) ==
    /\ pc[w] = "guard"
    /\ CheckBeforeSend(row.state, row.world)
    /\ Goto(w, "send")
    /\ UNCHANGED <<row, lock, locals, crashes, customer>>

\* Seeded defect: the early return leaves the lock held.
Blocked_LockKept(w) ==
    /\ pc[w] = "guard"
    /\ Finish(w)
    /\ UNCHANGED <<row, lock, crashes, customer>>

\* Any of the guardrail's checks may block a draft; nothing is written back.
Blocked(w) ==
    /\ pc[w] = "guard"
    /\ Release(w)
    /\ Finish(w)
    /\ UNCHANGED <<row, crashes, customer>>

Send(w) ==
    /\ pc[w] = "send"
    /\ outreach' = IF outreach <= MaxUnanswered + MaxCrashes
                   THEN outreach + 1 ELSE outreach
    /\ LET budget == ConsumeUnanswered(snap[w].budget)
       IN \E s \in AfterOutreach(w, snap[w].state, budget) :
            snap' = [snap EXCEPT ![w].budget = budget, ![w].state = s]
    /\ Goto(w, "persist")
    /\ UNCHANGED <<row, lock, kind, fresh, paidAtLock, crashes, handedOff,
                   reopened, optedOut>>

PersistRead(w) ==
    /\ pc[w] = "persist"
    /\ fresh' = [fresh EXCEPT ![w] = row.state]
    /\ Goto(w, "write")
    /\ UNCHANGED <<row, lock, kind, snap, paidAtLock, crashes, customer>>

PersistWrite(w) ==
    /\ pc[w] = "write"
    /\ row' = GuardedRow(w, TRUE)
    /\ Release(w)
    /\ Finish(w)
    /\ UNCHANGED <<crashes, customer>>

-----------------------------------------------------------------------------
(* What people press, and the loss of the process *)

SetState(button, s) ==
    /\ button \in Buttons
    /\ row' = [row EXCEPT !.state = s]
    /\ UNCHANGED <<lock, pc, locals, crashes, outreach, optedOut>>

PauseCase == SetState("pause", "paused") /\ UNCHANGED <<handedOff, reopened>>
CloseCase == SetState("close", "closed") /\ UNCHANGED <<handedOff, reopened>>

\* These give the case back to the agent, whatever its state was.
GiveBack(button, s) ==
    SetState(button, s) /\ handedOff' = FALSE /\ reopened' = TRUE

ResumeCase == GiveBack("resume", "outreach_ready")
RestartCase == GiveBack("restart", "overdue")

\* edit_case_commitment_endpoint enters a new promise of the customer's.
EditCommitment == GiveBack("edit", "promise_to_pay")

Human == PauseCase \/ CloseCase \/ ResumeCase \/ RestartCase \/ EditCommitment

Crash ==
    /\ crashes < MaxCrashes
    /\ crashes' = crashes + 1
    /\ lock' = {}
    /\ pc' = [w \in Workers |-> "idle"]
    /\ kind' = [w \in Workers |-> "none"]
    /\ snap' = [w \in Workers |-> NoRow]
    /\ fresh' = [w \in Workers |-> "overdue"]
    /\ paidAtLock' = [w \in Workers |-> FALSE]
    /\ handedOff' = (handedOff /\ \A w \in Workers : pc[w] \notin Uncounted)
    /\ UNCHANGED <<row, outreach, reopened, optedOut>>

Begin(w) ==
    \/ BeginJudge(w) \/ BeginPromote(w) \/ BeginJump(w)
    \/ SelectDue(w)
    \/ BeginFollowUp(w)
    \/ \E k \in {"reply", "mailbox_reply"}, r \in Replies : BeginReply(w, k, r)
    \/ \E k \in SignalKinds : BeginSignal(w, k)

\* A step of a run under way, outside and inside the lock.
Run(w) ==
    \/ Fetch(w) \/ SaveReply(w) \/ PostSignal(w)
    \/ SkipPaid(w) \/ SkipHandled(w)
    \/ JudgeWrite(w) \/ SweepWrite(w)
    \/ EscalateRead(w) \/ EscalateWrite(w) \/ EscalateNotice(w)
    \/ Acquire(w)
    \/ HandOff(w) \/ Guard(w) \/ Blocked(w) \/ Send(w)
    \/ PersistRead(w) \/ PersistWrite(w)

Next ==
    \/ \E w \in Workers : Begin(w) \/ Run(w)
    \/ Human
    \/ Crash

Spec == Init /\ [][Next]_vars

(***************************************************************************)
(* Fairness.  The tick poller's task wakes up for ever and asyncio runs    *)
(* every ready task, so a due case is selected again and a run under way   *)
(* goes on; asyncio.Lock serves its waiters in order, so a run that waits  *)
(* for the lock gets it.  Nothing is asked of customers, ERP or people.    *)
(***************************************************************************)
FairSpec ==
    /\ Spec
    /\ \A w \in Workers :
         WF_vars(SelectDue(w)) /\ WF_vars(Run(w)) /\ SF_vars(Acquire(w))

-----------------------------------------------------------------------------
(* Properties *)

\* The step in which the run of w emails the customer or the PM.
Emailed(w) == pc[w] = "send" /\ pc'[w] = "persist"

(***************************************************************************)
(* The per-case lock does what concurrency_guard.py adds it for: no two    *)
(* runs are between the guard and the write at once, whichever of the two  *)
(* loops they run, and the lock is held exactly by the run that is there.  *)
(***************************************************************************)
TailMutex ==
    /\ lock = {w \in Workers : pc[w] \in Tail}
    /\ \A v, w \in lock : v = w

(***************************************************************************)
(* Bounded autonomy (P3): between two messages of the customer the agent   *)
(* sends at most max_unanswered emails, through both loops, pauses,        *)
(* resumes and restarts of the case; a crash costs at most one more, the   *)
(* email that went out before its count was persisted.  With one task      *)
(* running loops at a time; two at once overshoot.                          *)
(***************************************************************************)
BoundedAutonomy == outreach <= MaxUnanswered + crashes

\* States a button gives a case and guarded_case_update does not protect.
Reopened == {"paused", "outreach_ready", "overdue", "promise_to_pay"}

(***************************************************************************)
(* A payment that was in the row when a run took the lock is still there   *)
(* when the run ends: guarded_case_update keeps world and state, unless    *)
(* somebody's button took the case out of paid in the meantime.            *)
(***************************************************************************)
PaymentKept ==
    [][\A w \in Workers :
         pc[w] \in Tail /\ paidAtLock[w] /\ fresh[w] \notin Reopened
             => IsPaid(row'.world)]_vars

(***************************************************************************)
(* A payment that was in the row when a run took the lock stops its email, *)
(* however long before that the run copied the row.                        *)
(***************************************************************************)
PaidNotChased ==
    [][\A w \in Workers : Emailed(w) => ~paidAtLock[w]]_vars

(***************************************************************************)
(* Once a customer's request to be left alone is saved, no email goes out, *)
(* whatever is done to the case afterwards: dispute and payment signals,   *)
(* further replies and the worlds they carry in memory, crashes, resume,   *)
(* restart and the edit of a promise.  With one task running loops at a    *)
(* time: the copy of a second one would write the consent back.  A request *)
(* that comes through the mailbox endpoint is not saved.                   *)
(***************************************************************************)
NeverAfterOptOut ==
    [][\A w \in Workers : Emailed(w) => ~optedOut]_vars

(***************************************************************************)
(* Once the PM was told that the agent has stopped, no email goes out      *)
(* until the customer writes again or a human gives the case back; unless  *)
(* the process died after the notice and before the state was in the row.  *)
(***************************************************************************)
HandOffHolds ==
    [][\A w \in Workers : Emailed(w) => ~handedOff \/ reopened]_vars

(***************************************************************************)
(* Every run ends: none waits for ever on the lock of the case, and none   *)
(* keeps it.                                                               *)
(***************************************************************************)
RunsEnd == \A w \in Workers : pc[w] # "idle" ~> pc[w] = "idle"

(***************************************************************************)
(* A case whose unanswered or missed-promise budget is used up is handed   *)
(* to a human, who is told, unless the customer writes or someone closes   *)
(* or pauses the case.  Without crashes: the notice is the last step.      *)
(***************************************************************************)
ExhaustionReachesHuman ==
    HardStop(row.budget) ~>
        \/ handedOff
        \/ ~HardStop(row.budget)
        \/ row.state \in TERMINAL_STATES \cup {"paused"}

-----------------------------------------------------------------------------
(* Why BoundedAutonomy holds: the inductive invariant behind it *)

\* Only one task runs loops (on one case, at one time).
Sequential ==
    \A v, w \in Workers :
        KindsOf[v] \cap LoopKinds # {} /\ KindsOf[w] \cap LoopKinds # {} => v = w

\* Where a run of either loop can be.
LoopPlaces ==
    {"judge", "sweep", "fetch", "loop", "save", "escalate", "notice"} \cup Tail

(***************************************************************************)
(* Every email since the customer's last message is counted in the row, or *)
(* in the copy of the run that sent it, or was lost in a crash; and a run  *)
(* about to send copied a count below the maximum.                         *)
(***************************************************************************)
BudgetInv ==
    /\ \A w \in Workers :
         pc[w] \in LoopPlaces => KindsOf[w] \cap LoopKinds # {}
    /\ \A w \in Workers :
         pc[w] \in LoopPlaces \ {"fetch"} =>
             outreach <= snap[w].budget.unanswered_used + crashes
    /\ \A w \in Workers :
         pc[w] \in {"guard", "send"} =>
             snap[w].budget.unanswered_used < MaxUnanswered
    /\ outreach <= row.budget.unanswered_used + crashes
         + (IF \E w \in Workers : pc[w] \in Uncounted THEN 1 ELSE 0)
    /\ BoundedAutonomy
=============================================================================
