---------------------------- MODULE InvoiceSync ----------------------------
(***************************************************************************)
(* From the ERP's invoices to cases: sync_invoices_to_cases, which an aging *)
(* upload and a button of the web channel start                            *)
(* (src/app/outcome_agent/loop/invoice_sync.py), and the rows of oa_cases  *)
(* it creates and refreshes (store/case_store.py).                         *)
(*                                                                         *)
(* Each read and each write of the store is an await, so a step is the code *)
(* between two of them: two syncs interleave with one another and with what *)
(* the agent, the customer and people do to a case.  Of the row the agent   *)
(* and the handlers of replies and signals keep a copy too, and write its   *)
(* world back later.                                                        *)
(***************************************************************************)
EXTENDS CaseDomain, Sequences

CONSTANTS
    Invoices,
    Syncs,        \* the syncs that may run at the same time
    Face,         \* the amount on the face of an invoice
    MaxRows,      \* bound on the cases of an invoice
    MaxMoves      \* bound on what the ERP, people and crashes do

ASSUME InvoiceSyncAssumption ==
    /\ Face \in Nat \ {0}
    /\ MaxRows \in Nat \ {0}
    /\ MaxMoves \in Nat

\* overdue: any state of a case under way; closed: disputed too.
States == {"overdue", "escalated_to_human", "paid", "suppressed", "closed"}
Amounts == 0 .. Face

\* status, consent: of the row's world.
Row == [state : States, balance : Amounts, status : {"open", "paid"},
        consent : BOOLEAN]
Invoice == [paid : BOOLEAN, open : Amounts]

\* What stands in for an aging feed that fails: the feed of invoices has the
\* amount on the face of each, the aging table alone what is still open.
NoFeed == [i \in Invoices |-> Face]

VARIABLES
    erp,        \* the invoices and their aging rows
    cases,      \* oa_cases: the rows of an invoice, oldest first
    pc,         \* pc[s]: where sync s awaits
    list,       \* list[s]: the invoices as it read them
    aging,      \* aging[s]: the open amounts as it read them
    agingOk,    \* agingOk[s]: could the aging feed be read?
    todo,       \* todo[s]: the invoices it has still to look at
    inv,        \* inv[s]: the invoice at hand
    copy,       \* copy[s]: the row it read, and its position
    held,       \* held[i]: the row as the agent or a handler read it
    \* history, for the properties only
    reported,   \* the figures the aging feed has given
    faced,      \* the invoices whose face amount has stood in for one
    gaveUp,     \* gaveUp[s]: sync s has raised, or died, since it began
    optedOut,   \* the invoices whose customer has opted out
    moves

locals == <<pc, list, aging, agingOk, todo, inv, copy, gaveUp>>
history == <<reported, faced, optedOut>>
vars == <<erp, cases, locals, held, history, moves>>

IsOpen(r) == r.state \notin TERMINAL_STATES
OpenAt(i) == {k \in DOMAIN cases[i] : IsOpen(cases[i][k])}

NoCopy == [at |-> 1, row |-> [state |-> "paid", balance |-> 0,
                              status |-> "paid", consent |-> TRUE]]

TypeOK ==
    /\ erp \in [Invoices -> Invoice]
    /\ cases \in [Invoices -> Seq(Row)]
    /\ pc \in [Syncs -> {"idle", "aging", "look", "refresh", "notice",
                         "create", "insert"}]
    /\ list \in [Syncs -> [Invoices -> BOOLEAN]]
    /\ aging \in [Syncs -> [Invoices -> Amounts]]
    /\ agingOk \in [Syncs -> BOOLEAN]
    /\ todo \in [Syncs -> SUBSET Invoices]
    /\ inv \in [Syncs -> Invoices]
    /\ copy \in [Syncs -> [at : Nat \ {0}, row : Row]]
    /\ held \in [Invoices -> [at : Nat \ {0}, row : Row]]
    /\ reported \in [Invoices -> SUBSET Amounts]
    /\ faced \in SUBSET Invoices
    /\ gaveUp \in [Syncs -> BOOLEAN]
    /\ optedOut \in SUBSET Invoices
    /\ moves \in Nat

Init ==
    /\ erp = [i \in Invoices |-> [paid |-> FALSE, open |-> Face]]
    /\ cases = [i \in Invoices |-> <<>>]
    /\ pc = [s \in Syncs |-> "idle"]
    /\ list = [s \in Syncs |-> [i \in Invoices |-> FALSE]]
    /\ aging = [s \in Syncs |-> NoFeed]
    /\ agingOk = [s \in Syncs |-> FALSE]
    /\ todo = [s \in Syncs |-> {}]
    /\ inv \in [Syncs -> Invoices]
    /\ copy = [s \in Syncs |-> NoCopy]
    /\ held = [i \in Invoices |-> NoCopy]
    /\ faced = {}
    /\ reported = [i \in Invoices |-> {}]
    /\ gaveUp = [s \in Syncs |-> FALSE]
    /\ optedOut = {}
    /\ moves = 0

Goto(s, l) == pc' = [pc EXCEPT ![s] = l]

-----------------------------------------------------------------------------
(* The ERP, and whoever moves the case meanwhile *)

Move == moves < MaxMoves /\ moves' = moves + 1

\* A payment in full drops the invoice from the weekly file; the last aging
\* row survives it.
InvoicePaid(i) ==
    /\ Move /\ ~erp[i].paid
    /\ erp' = [erp EXCEPT ![i].paid = TRUE]
    /\ UNCHANGED <<cases, locals, held, history>>

\* A part-payment, or a correction.
BalanceMoves(i) ==
    /\ Move
    /\ \E a \in Amounts \ {erp[i].open} :
         erp' = [erp EXCEPT ![i].open = a]
    /\ UNCHANGED <<cases, locals, held, history>>

\* A button, or a sweep of the tick, sets the state of the open case alone.
CaseMoves(i) ==
    /\ Move
    /\ \E k \in OpenAt(i), st \in States \ {"paid", "suppressed"} :
         cases' = [cases EXCEPT ![i][k].state = st]
    /\ UNCHANGED <<erp, locals, held, history>>

\* Seeded defect: the table has no unique index on the open case.
Admits_NoIndex(i, k) == TRUE

\* idx_oa_cases_open_case: row k of the invoice may be open.
Admits(i, k) == OpenAt(i) \subseteq {k}

\* restart_case on any row, an old one too.
CaseRestarted(i) ==
    /\ Move
    /\ \E k \in DOMAIN cases[i] :
         /\ Admits(i, k)
         /\ cases' = [cases EXCEPT ![i][k].state = "overdue"]
    /\ UNCHANGED <<erp, locals, held, history>>

\* A run of the agent, or the handler of a reply or a signal, reads the case ...
CaseRead(i) ==
    /\ Move
    /\ held[i] = NoCopy
    /\ \E k \in OpenAt(i) :
         held' = [held EXCEPT ![i] = [at |-> k, row |-> cases[i][k]]]
    /\ UNCHANGED <<erp, cases, locals, history>>

\* The copy, with what the run or the handler has made of it.
WrittenBack(c, st) ==
    CASE st = "paid" ->       [c EXCEPT !.state = st, !.balance = 0,
                                        !.status = "paid"]
      [] st = "suppressed" -> [c EXCEPT !.state = st, !.consent = FALSE]
      [] OTHER ->             [c EXCEPT !.state = st]

\* ... and writes state and world back: a run by guarded_case_update, which
\* drops both for a row that is terminal by now, a handler as they are.  The
\* index may refuse.
CaseWritten(i) ==
    LET k == held[i].at
        now == cases[i][k].state
    IN /\ held[i] # NoCopy
       /\ held' = [held EXCEPT ![i] = NoCopy]
       /\ \E st \in States, guarded \in BOOLEAN :
            LET r == WrittenBack(held[i].row, st)
            IN \/ /\ \/ guarded /\ IsDbStateTerminal(now) /\ now # st
                     \/ IsOpen(r) /\ ~Admits(i, k)
                  /\ UNCHANGED <<cases, optedOut>>
               \/ /\ ~(guarded /\ IsDbStateTerminal(now) /\ now # st)
                  /\ IsOpen(r) => Admits(i, k)
                  /\ cases' = [cases EXCEPT ![i][k] = r]
                  /\ optedOut' = IF st = "suppressed" THEN optedOut \cup {i}
                                 ELSE optedOut
       /\ UNCHANGED <<erp, locals, reported, faced, moves>>

-----------------------------------------------------------------------------
(* The sync *)

SyncBegins(s) ==
    /\ pc[s] = "idle"
    /\ list' = [list EXCEPT ![s] = [i \in Invoices |-> erp[i].paid]]
    /\ todo' = [todo EXCEPT ![s] = Invoices]
    /\ gaveUp' = [gaveUp EXCEPT ![s] = FALSE]
    /\ Goto(s, "aging")
    /\ UNCHANGED <<erp, cases, aging, agingOk, inv, copy, held, history, moves>>

\* A row without an amount counts as nothing owed.
Figure(i, blank) == IF i \in blank THEN 0 ELSE erp[i].open

\* _open_amounts_by_invoice_no: a feed that fails leaves the face amounts, and
\* so does one that answers, for an invoice whose row is missing or malformed.
SyncReadsAging(s) ==
    /\ pc[s] = "aging"
    /\ \/ \E missing, blank \in SUBSET Invoices :
            /\ agingOk' = [agingOk EXCEPT ![s] = TRUE]
            /\ aging' = [aging EXCEPT ![s] = [i \in Invoices |->
                   IF i \in missing THEN Face ELSE Figure(i, blank)]]
            /\ reported' = [i \in Invoices |->
                   IF i \in missing THEN reported[i]
                   ELSE reported[i] \cup {Figure(i, blank)}]
            /\ faced' = faced \cup missing
       \/ /\ agingOk' = [agingOk EXCEPT ![s] = FALSE]
          /\ aging' = [aging EXCEPT ![s] = NoFeed]
          /\ UNCHANGED <<reported, faced>>
    /\ Goto(s, "look")
    /\ UNCHANGED <<erp, cases, list, todo, inv, copy, held, gaveUp, optedOut,
                   moves>>

Owed(s, i) == ~list[s][i] /\ aging[s][i] > 0

\* Seeded defect: an invoice that is paid is skipped before its case is
\* looked for.
SyncLooks_PaidFirst(s) ==
    /\ pc[s] = "look"
    /\ \E i \in todo[s] :
         /\ todo' = [todo EXCEPT ![s] = @ \ {i}]
         /\ inv' = [inv EXCEPT ![s] = i]
         /\ \/ /\ ~Owed(s, i)
               /\ UNCHANGED <<pc, copy>>
            \/ /\ Owed(s, i) /\ OpenAt(i) # {}
               /\ \E k \in OpenAt(i) :
                    copy' = [copy EXCEPT ![s] = [at |-> k, row |-> cases[i][k]]]
               /\ Goto(s, "refresh")
            \/ /\ Owed(s, i) /\ OpenAt(i) = {}
               /\ UNCHANGED copy /\ Goto(s, "create")
    /\ UNCHANGED <<erp, cases, list, aging, agingOk, held, history, gaveUp,
                   moves>>

\* get_open_for_case: the case to refresh; else create one if money is owed.
SyncLooks(s) ==
    /\ pc[s] = "look"
    /\ \E i \in todo[s] :
         /\ todo' = [todo EXCEPT ![s] = @ \ {i}]
         /\ inv' = [inv EXCEPT ![s] = i]
         /\ \/ \E k \in OpenAt(i) :
                 /\ copy' = [copy EXCEPT ![s] = [at |-> k,
                                                 row |-> cases[i][k]]]
                 /\ Goto(s, "refresh")
            \/ /\ OpenAt(i) = {} /\ Owed(s, i)
               /\ UNCHANGED copy /\ Goto(s, "create")
            \/ /\ OpenAt(i) = {} /\ ~Owed(s, i)
               /\ UNCHANGED <<pc, copy>>
    /\ UNCHANGED <<erp, cases, list, aging, agingOk, held, history, gaveUp,
                   moves>>

\* The world that is written is the copy's: what was recorded in the row's
\* world since it was read is lost.
Put(s, state, balance, status) ==
    cases' = [cases EXCEPT ![inv[s]][copy[s].at] =
        [state |-> state, balance |-> balance, status |-> status,
         consent |-> copy[s].row.consent]]

\* Seeded defect: the face amount is trusted when the feed fails (before
\* 2026-09-04).
BalanceChanged_TrustsFace(s) == aging[s][inv[s]] # copy[s].row.balance

BalanceChanged(s) == agingOk[s] /\ aging[s][inv[s]] # copy[s].row.balance

\* _refresh_existing_case: paid, unknown, as it was, risen or part-paid.
SyncRefreshes(s) ==
    LET i == inv[s]
        r == copy[s].row
        settled == list[s][i] \/ (agingOk[s] /\ aging[s][i] = 0)
    IN /\ pc[s] = "refresh"
       /\ \/ /\ settled /\ r.status # "paid"
             /\ Put(s, "paid", 0, "paid")
             /\ Goto(s, "notice")
          \/ /\ IF settled THEN r.status = "paid" ELSE ~BalanceChanged(s)
             /\ UNCHANGED cases /\ Goto(s, "look")
          \/ /\ ~settled /\ BalanceChanged(s)
             /\ Put(s, cases[i][copy[s].at].state, aging[s][i], r.status)
             /\ Goto(s, IF aging[s][i] < r.balance THEN "notice" ELSE "look")
       /\ copy' = [copy EXCEPT ![s] = NoCopy]
       /\ UNCHANGED <<erp, list, aging, agingOk, todo, inv, held, gaveUp,
                      history, moves>>

\* The PM and finance are told of the payment, or of the part-payment.
SyncTells(s) ==
    /\ pc[s] = "notice"
    /\ Goto(s, "look")
    /\ UNCHANGED <<erp, cases, list, aging, agingOk, todo, inv, copy, held,
                   gaveUp, history, moves>>

\* Its locals go out of scope.
Return(s) ==
    /\ Goto(s, "idle")
    /\ todo' = [todo EXCEPT ![s] = {}]
    /\ list' = [list EXCEPT ![s] = [i \in Invoices |-> FALSE]]
    /\ aging' = [aging EXCEPT ![s] = NoFeed]
    /\ agingOk' = [agingOk EXCEPT ![s] = FALSE]
    /\ copy' = [copy EXCEPT ![s] = NoCopy]

\* An error ends the sync: the invoices that are left are not looked at.
Raise(s) ==
    /\ gaveUp' = [gaveUp EXCEPT ![s] = TRUE]
    /\ Return(s)

\* CaseStore.create looks for an open case again, ...
SyncCreates(s) ==
    /\ pc[s] = "create"
    /\ \/ OpenAt(inv[s]) # {} /\ Raise(s)
       \/ /\ OpenAt(inv[s]) = {} /\ Goto(s, "insert")
          /\ UNCHANGED <<todo, list, aging, agingOk, copy, gaveUp>>
    /\ UNCHANGED <<erp, cases, inv, held, history, moves>>

\* ... and inserts the row in another transaction.
SyncInserts(s) ==
    LET i == inv[s]
    IN /\ pc[s] = "insert"
       /\ Len(cases[i]) < MaxRows
       /\ \/ /\ ~Admits(i, Len(cases[i]) + 1)
             /\ Raise(s) /\ UNCHANGED <<cases, faced>>
          \/ /\ Admits(i, Len(cases[i]) + 1)
             /\ cases' = [cases EXCEPT ![i] = Append(@,
                    [state |-> "overdue", balance |-> aging[s][i],
                     status |-> "open", consent |-> TRUE])]
             /\ faced' = IF agingOk[s] THEN faced ELSE faced \cup {i}
             /\ Goto(s, "look")
             /\ UNCHANGED <<todo, list, aging, agingOk, copy, gaveUp>>
       /\ UNCHANGED <<erp, inv, held, reported, optedOut, moves>>

SyncEnds(s) ==
    /\ pc[s] = "look" /\ todo[s] = {}
    /\ Return(s)
    /\ UNCHANGED <<erp, cases, inv, held, gaveUp, history, moves>>

\* The process dies, and with it every sync, every run and every handler.
Crash ==
    /\ Move
    /\ pc' = [s \in Syncs |-> "idle"]
    /\ todo' = [s \in Syncs |-> {}]
    /\ list' = [s \in Syncs |-> [i \in Invoices |-> FALSE]]
    /\ aging' = [s \in Syncs |-> NoFeed]
    /\ agingOk' = [s \in Syncs |-> FALSE]
    /\ copy' = [s \in Syncs |-> NoCopy]
    /\ gaveUp' = [s \in Syncs |-> TRUE]
    /\ held' = [i \in Invoices |-> NoCopy]
    /\ UNCHANGED <<erp, cases, inv, history>>

\* What a sync does once it has begun.
Step(s) ==
    \/ SyncReadsAging(s) \/ SyncLooks(s) \/ SyncRefreshes(s) \/ SyncTells(s)
    \/ SyncCreates(s) \/ SyncInserts(s) \/ SyncEnds(s)

Next ==
    \/ \E i \in Invoices : \/ InvoicePaid(i) \/ BalanceMoves(i)
                           \/ CaseMoves(i) \/ CaseRestarted(i)
                           \/ CaseRead(i) \/ CaseWritten(i)
    \/ \E s \in Syncs : SyncBegins(s) \/ Step(s)
    \/ Crash

Spec == Init /\ [][Next]_vars /\ \A s \in Syncs : WF_vars(Step(s))

-----------------------------------------------------------------------------
\* A figure the feed has given for the invoice, or what stood in for one.
Given(i, a) ==
    \/ a \in reported[i] \cup {0}
    \/ i \in faced /\ a = Face

(***************************************************************************)
(* However syncs and people interleave, an invoice has at most one case    *)
(* that the agent works on (get_open_for_case, CaseStore.create).          *)
(***************************************************************************)
OneOpenCase ==
    \A i \in Invoices : \A j, k \in OpenAt(i) : j = k

(***************************************************************************)
(* An outage of the aging feed puts no balance on a case, however old the  *)
(* copies are that syncs, runs and handlers write back: what is chased is  *)
(* nothing or a figure the feed has reported, or the face amount where     *)
(* that stood in for a row the feed left out, or in a new case.            *)
(***************************************************************************)
BalanceIsGiven ==
    \A i \in Invoices : \A k \in DOMAIN cases[i] :
        Given(i, cases[i][k].balance)

(***************************************************************************)
(* Once a sync has read that an invoice is paid, the world of its open case *)
(* comes to say so (which the guard blocks on), unless an error or a crash *)
(* ends the sync.                                                          *)
(***************************************************************************)
PaymentStopsChase ==
    \A s \in Syncs, i \in Invoices :
        (pc[s] = "aging" /\ list[s][i]) ~>
            (gaveUp[s] \/ \A k \in OpenAt(i) : cases[i][k].status = "paid")

-----------------------------------------------------------------------------
(* What the code's comments say and the code does not do. *)

(***************************************************************************)
(* chase_guardrails.py:16, "do not email opted-out contacts": the case the *)
(* agent works on knows that the customer has opted out.                   *)
(***************************************************************************)
OptOutOutlivesCase ==
    \A i \in optedOut : \A k \in OpenAt(i) : ~cases[i][k].consent
=============================================================================
