-------------------------- MODULE InvoiceSyncProofs --------------------------
(***************************************************************************)
(* InvoiceSync for every set of invoices and any number of syncs: at most  *)
(* one case of an invoice is open, and an outage of the aging feed puts no *)
(* balance on a case.                                                      *)
(***************************************************************************)
EXTENDS InvoiceSync, SequenceTheorems, TLAPS

\* The part of the types the argument rests on: what is written to the table
\* is a row.
Tables ==
    /\ erp \in [Invoices -> Invoice]
    /\ cases \in [Invoices -> Seq(Row)]
    /\ aging \in [Syncs -> [Invoices -> Amounts]]
    /\ todo \in [Syncs -> SUBSET Invoices]
    /\ inv \in [Syncs -> Invoices]
    /\ copy \in [Syncs -> [at : Nat \ {0}, row : Row]]
    /\ held \in [Invoices -> [at : Nat \ {0}, row : Row]]

\* A row that the step writes is r, of invoice i.
OnlyRow(i, r) ==
    \A h \in Invoices : \A j \in DOMAIN cases'[h] :
        \/ j \in DOMAIN cases[h] /\ cases'[h][j] = cases[h][j]
        \/ h = i /\ cases'[h][j] = r

LEMMA NoCopyTyped == NoCopy \in [at : Nat \ {0}, row : Row]
BY InvoiceSyncAssumption DEF NoCopy, Row, States, Amounts

LEMMA NoFeedTyped == NoFeed \in [Invoices -> Amounts]
BY InvoiceSyncAssumption DEF NoFeed, Amounts

-----------------------------------------------------------------------------
(* Sequences *)

\* Replacing an element leaves a sequence; replacing none leaves it as it was.
LEMMA ReplaceSeq ==
    ASSUME NEW S, NEW q \in Seq(S), NEW k, NEW r, k \in DOMAIN q => r \in S
    PROVE  /\ [q EXCEPT ![k] = r] \in Seq(S)
           /\ DOMAIN [q EXCEPT ![k] = r] = DOMAIN q
           /\ \A j \in DOMAIN q :
                [q EXCEPT ![k] = r][j] = IF j = k THEN r ELSE q[j]
<1>1. /\ Len(q) \in Nat
      /\ DOMAIN q = 1 .. Len(q)
      /\ q \in [1 .. Len(q) -> S]
  BY LenProperties
<1>2. CASE k \in DOMAIN q
  <2>1. [q EXCEPT ![k] = r] \in Seq(S)
    BY <1>1, <1>2, ExceptSeq
  <2>2. QED
    BY <1>1, <2>1, Zenon
<1>3. CASE k \notin DOMAIN q
  <2>1. [q EXCEPT ![k] = r] = q
    BY <1>1, <1>3
  <2>2. QED
    BY <1>3, <2>1
<1>4. QED
  BY <1>2, <1>3

\* A row is added at the end.
LEMMA AppendSeq ==
    ASSUME NEW S, NEW q \in Seq(S), NEW r \in S
    PROVE  /\ Append(q, r) \in Seq(S)
           /\ DOMAIN Append(q, r) = DOMAIN q \cup {Len(q) + 1}
           /\ Len(q) + 1 \notin DOMAIN q
           /\ \A j \in DOMAIN q : Append(q, r)[j] = q[j]
<1>1. /\ Len(q) \in Nat
      /\ DOMAIN q = 1 .. Len(q)
  BY LenProperties
<1>2. QED
  BY <1>1

-----------------------------------------------------------------------------
(* One step *)

\* The row k of invoice i becomes r, and no other row changes.
LEMMA RowReplaced ==
    ASSUME cases \in [Invoices -> Seq(Row)], OneOpenCase,
           NEW i \in Invoices, NEW k, NEW r,
           k \in DOMAIN cases[i] => r \in Row,
           IsOpen(r) /\ k \in DOMAIN cases[i] => Admits(i, k),
           cases' = [cases EXCEPT ![i] = [@ EXCEPT ![k] = r]]
    PROVE  cases' \in [Invoices -> Seq(Row)] /\ OneOpenCase' /\ OnlyRow(i, r)
<1>1. cases[i] \in Seq(Row)
  OBVIOUS
<1>2. /\ cases'[i] \in Seq(Row)
      /\ DOMAIN cases'[i] = DOMAIN cases[i]
      /\ \A j \in DOMAIN cases[i] :
           cases'[i][j] = IF j = k THEN r ELSE cases[i][j]
  <2>1. cases'[i] = [cases[i] EXCEPT ![k] = r]
    OBVIOUS
  <2>2. QED
    BY <1>1, <2>1, ReplaceSeq
<1>3. \A h \in Invoices \ {i} : cases'[h] = cases[h]
  OBVIOUS
<1>4. cases' \in [Invoices -> Seq(Row)]
  <2>1. \A h \in Invoices : cases'[h] \in Seq(Row)
    BY <1>2, <1>3
  <2>2. QED
    BY <1>2
<1>5. \A h \in Invoices : \A a, b \in OpenAt(h)' : a = b
  <2>1. ASSUME NEW h \in Invoices \ {i}, NEW a \in OpenAt(h)',
               NEW b \in OpenAt(h)'
        PROVE  a = b
    BY <2>1, <1>3 DEF OneOpenCase, OpenAt
  <2>2. ASSUME NEW a \in OpenAt(i)', NEW b \in OpenAt(i)'
        PROVE  a = b
    <3>1. \A c \in OpenAt(i)' : c \in OpenAt(i) \/ (c = k /\ IsOpen(r))
      BY <1>2 DEF OpenAt
    <3>2. CASE IsOpen(r) /\ k \in DOMAIN cases[i]
      BY <3>1, <3>2 DEF Admits
    <3>3. CASE ~(IsOpen(r) /\ k \in DOMAIN cases[i])
      BY <3>1, <3>3, <1>2 DEF OneOpenCase, OpenAt
    <3>4. QED
      BY <3>2, <3>3
  <2>3. QED
    BY <2>1, <2>2
<1>6. OnlyRow(i, r)
  BY <1>2, <1>3 DEF OnlyRow
<1>7. QED
  BY <1>4, <1>5, <1>6 DEF OneOpenCase

\* A row is inserted for an invoice without an open case.
LEMMA RowInserted ==
    ASSUME cases \in [Invoices -> Seq(Row)], OneOpenCase,
           NEW i \in Invoices, NEW r \in Row,
           Admits(i, Len(cases[i]) + 1),
           cases' = [cases EXCEPT ![i] = Append(@, r)]
    PROVE  cases' \in [Invoices -> Seq(Row)] /\ OneOpenCase' /\ OnlyRow(i, r)
<1>1. cases[i] \in Seq(Row)
  OBVIOUS
<1>2. cases'[i] = Append(cases[i], r)
  OBVIOUS
<1>3. /\ cases'[i] \in Seq(Row)
      /\ DOMAIN cases'[i] = DOMAIN cases[i] \cup {Len(cases[i]) + 1}
      /\ Len(cases[i]) + 1 \notin DOMAIN cases[i]
      /\ \A j \in DOMAIN cases[i] : cases'[i][j] = cases[i][j]
  BY <1>1, <1>2, AppendSeq
<1>4. \A h \in Invoices \ {i} : cases'[h] = cases[h]
  OBVIOUS
<1>5. \A h \in Invoices : cases'[h] \in Seq(Row)
  BY <1>3, <1>4
<1>6. cases' \in [Invoices -> Seq(Row)]
  BY <1>5
<1>7. OpenAt(i) = {}
  BY <1>3 DEF Admits, OpenAt
<1>8. OpenAt(i)' \subseteq {Len(cases[i]) + 1}
  BY <1>3, <1>7 DEF OpenAt
<1>9. \A h \in Invoices \ {i} : OpenAt(h)' = OpenAt(h)
  BY <1>4 DEF OpenAt
<1>10. OnlyRow(i, r)
  <2>1. cases'[i][Len(cases[i]) + 1] = r
    BY <1>1, <1>2
  <2>2. QED
    BY <2>1, <1>3, <1>4 DEF OnlyRow
<1>11. QED
  BY <1>6, <1>8, <1>9, <1>10 DEF OneOpenCase

\* What a refresh writes: a closed row, or the state the row has.
LEMMA PutKeeps ==
    ASSUME Tables, OneOpenCase, NEW s \in Syncs, NEW st, NEW a \in Amounts,
           NEW w \in {"open", "paid"}, Put(s, st, a, w),
           \/ st = "paid"
           \/ st = cases[inv[s]][copy[s].at].state
    PROVE  /\ cases' \in [Invoices -> Seq(Row)] /\ OneOpenCase'
           /\ \E r : r.balance = a /\ OnlyRow(inv[s], r)
<1> DEFINE i == inv[s]
           k == copy[s].at
           r == [state |-> st, balance |-> a, status |-> w,
                 consent |-> copy[s].row.consent]
<1>1. i \in Invoices /\ copy[s].row.consent \in BOOLEAN
  BY DEF Tables, Row
<1>2. ASSUME k \in DOMAIN cases[i] PROVE r \in Row
  <2>1. cases[i][k] \in Row
    BY <1>1, <1>2 DEF Tables
  <2>2. st \in States
    BY <2>1 DEF Row, States, TERMINAL_STATES
  <2>3. QED
    BY <1>1, <2>2 DEF Row
<1>3. ASSUME IsOpen(r), k \in DOMAIN cases[i] PROVE Admits(i, k)
  <2>1. st = cases[i][k].state
    BY <1>3 DEF IsOpen, TERMINAL_STATES
  <2>2. k \in OpenAt(i)
    BY <1>3, <2>1 DEF IsOpen, OpenAt
  <2>3. QED
    BY <1>1, <2>2 DEF OneOpenCase, Admits
<1>4. cases' = [cases EXCEPT ![i] = [@ EXCEPT ![k] = r]]
  BY DEF Put
<1>5. cases \in [Invoices -> Seq(Row)] /\ r.balance = a
  BY DEF Tables
<1> HIDE DEF k, r
<1>6. QED
  BY <1>1, <1>2, <1>3, <1>4, <1>5, RowReplaced

\* A button or a sweep moves the open case.
LEMMA MoveKeeps ==
    ASSUME Tables, OneOpenCase, NEW i \in Invoices, CaseMoves(i)
    PROVE  /\ cases' \in [Invoices -> Seq(Row)] /\ OneOpenCase'
           /\ \E k \in DOMAIN cases[i], r \in Row :
                r.balance = cases[i][k].balance /\ OnlyRow(i, r)
<1>1. PICK k \in OpenAt(i), st \in States :
        cases' = [cases EXCEPT ![i][k].state = st]
  BY DEF CaseMoves
<1> DEFINE r == [cases[i][k] EXCEPT !.state = st]
<1>2. /\ cases \in [Invoices -> Seq(Row)] /\ cases[i][k] \in Row
      /\ k \in DOMAIN cases[i]
  BY <1>1 DEF Tables, OpenAt
<1>3. r \in Row /\ r.balance = cases[i][k].balance
  BY <1>2 DEF Row
<1>4. Admits(i, k)
  BY <1>1 DEF OneOpenCase, Admits
<1>5. cases' = [cases EXCEPT ![i] = [@ EXCEPT ![k] = r]]
  BY <1>1, Zenon
<1> HIDE DEF r
<1>6. QED
  BY <1>2, <1>3, <1>4, <1>5, RowReplaced

\* restart_case reopens a row when no other one is open.
LEMMA RestartKeeps ==
    ASSUME Tables, OneOpenCase, NEW i \in Invoices, CaseRestarted(i)
    PROVE  /\ cases' \in [Invoices -> Seq(Row)] /\ OneOpenCase'
           /\ \E k \in DOMAIN cases[i], r \in Row :
                r.balance = cases[i][k].balance /\ OnlyRow(i, r)
<1>1. PICK k \in DOMAIN cases[i] :
        /\ Admits(i, k)
        /\ cases' = [cases EXCEPT ![i][k].state = "overdue"]
  BY DEF CaseRestarted
<1> DEFINE r == [cases[i][k] EXCEPT !.state = "overdue"]
<1>2. cases \in [Invoices -> Seq(Row)] /\ cases[i][k] \in Row
  BY <1>1 DEF Tables
<1>3. r \in Row /\ r.balance = cases[i][k].balance
  BY <1>2 DEF Row, States
<1>4. cases' = [cases EXCEPT ![i] = [@ EXCEPT ![k] = r]]
  BY <1>1, Zenon
<1> HIDE DEF r
<1>5. QED
  BY <1>1, <1>2, <1>3, <1>4, RowReplaced

\* A sync inserts an open row, or raises.
LEMMA InsertKeeps ==
    ASSUME Tables, OneOpenCase, NEW s \in Syncs, SyncInserts(s)
    PROVE  \/ UNCHANGED <<cases, faced>>
           \/ /\ cases' \in [Invoices -> Seq(Row)] /\ OneOpenCase'
              /\ faced' = IF agingOk[s] THEN faced ELSE faced \cup {inv[s]}
              /\ \E r \in Row : /\ r.balance = aging[s][inv[s]]
                                /\ OnlyRow(inv[s], r)
<1> DEFINE r == [state |-> "overdue", balance |-> aging[s][inv[s]],
                 status |-> "open", consent |-> TRUE]
<1>1. \/ UNCHANGED <<cases, faced>>
      \/ /\ Admits(inv[s], Len(cases[inv[s]]) + 1)
         /\ cases' = [cases EXCEPT ![inv[s]] = Append(@, r)]
         /\ faced' = IF agingOk[s] THEN faced ELSE faced \cup {inv[s]}
  BY Zenon DEF SyncInserts
<1>2. /\ inv[s] \in Invoices
      /\ cases \in [Invoices -> Seq(Row)]
      /\ aging[s][inv[s]] \in Amounts
  BY DEF Tables
<1>3. r \in Row /\ r.balance = aging[s][inv[s]]
  BY <1>2 DEF Row, States
<1> HIDE DEF r
<1>4. QED
  BY <1>1, <1>2, <1>3, RowInserted

\* A copy that is written back, made of it what may be.
LEMMA WrittenRow ==
    ASSUME NEW c \in Row, NEW st \in States
    PROVE  /\ WrittenBack(c, st) \in Row
           /\ WrittenBack(c, st).balance \in {0, c.balance}
<1>1. 0 \in Amounts /\ c.consent \in BOOLEAN
  BY InvoiceSyncAssumption DEF Amounts, Row
<1>2. CASE st = "paid"
  BY <1>1, <1>2 DEF WrittenBack, Row
<1>3. CASE st = "suppressed"
  BY <1>3 DEF WrittenBack, Row
<1>4. CASE st \notin {"paid", "suppressed"}
  BY <1>4 DEF WrittenBack, Row
<1>5. QED
  BY <1>2, <1>3, <1>4

\* The agent or a handler writes the row of its copy, or nothing.
LEMMA WriteKeeps ==
    ASSUME Tables, OneOpenCase, NEW i \in Invoices, CaseWritten(i)
    PROVE  /\ cases' \in [Invoices -> Seq(Row)] /\ OneOpenCase'
           /\ \/ UNCHANGED cases
              \/ \E r \in Row : /\ r.balance \in {0, held[i].row.balance}
                                /\ OnlyRow(i, r)
<1> DEFINE k == held[i].at
<1>1. CASE UNCHANGED cases
  BY <1>1 DEF Tables, OneOpenCase, OpenAt
<1>2. ASSUME NEW st \in States,
             IsOpen(WrittenBack(held[i].row, st)) => Admits(i, k),
             cases' = [cases EXCEPT ![i][k] = WrittenBack(held[i].row, st)]
      PROVE  /\ cases' \in [Invoices -> Seq(Row)] /\ OneOpenCase'
             /\ \E r \in Row : /\ r.balance \in {0, held[i].row.balance}
                               /\ OnlyRow(i, r)
  <2> DEFINE r == WrittenBack(held[i].row, st)
  <2>1. cases \in [Invoices -> Seq(Row)] /\ held[i].row \in Row
    BY DEF Tables
  <2>2. r \in Row /\ r.balance \in {0, held[i].row.balance}
    BY <2>1, WrittenRow
  <2>3. cases' = [cases EXCEPT ![i] = [@ EXCEPT ![k] = r]]
    BY <1>2, Zenon
  <2>4. IsOpen(r) => Admits(i, k)
    BY <1>2
  <2> HIDE DEF r, k
  <2>5. QED
    BY <2>1, <2>2, <2>3, <2>4, RowReplaced
<1>3. \/ UNCHANGED cases
      \/ \E st \in States :
           /\ IsOpen(WrittenBack(held[i].row, st)) => Admits(i, k)
           /\ cases' = [cases EXCEPT ![i][k] = WrittenBack(held[i].row, st)]
  BY Zenon DEF CaseWritten
<1> HIDE DEF k
<1>4. QED
  BY <1>1, <1>2, <1>3

-----------------------------------------------------------------------------
(* The theorem *)

\* A row that is read is a copy.
LEMMA ReadTyped ==
    ASSUME Tables, NEW i \in Invoices, NEW k \in OpenAt(i)
    PROVE  [at |-> k, row |-> cases[i][k]] \in [at : Nat \ {0}, row : Row]
<1>1. cases[i] \in Seq(Row)
  BY DEF Tables
<1>2. k \in Nat \ {0} /\ cases[i][k] \in Row
  BY <1>1 DEF OpenAt
<1>3. QED
  BY <1>2

\* Every step keeps the tables, and one open case.
LEMMA StepKeeps ==
    ASSUME Tables, OneOpenCase, [Next]_vars
    PROVE  Tables' /\ OneOpenCase'
<1> USE DEF Goto
<1>1. ASSUME NEW i \in Invoices, InvoicePaid(i) PROVE Tables' /\ OneOpenCase'
  <2>1. erp' \in [Invoices -> Invoice]
    BY <1>1 DEF InvoicePaid, Tables, Invoice
  <2>2. QED
    BY <1>1, <2>1 DEF InvoicePaid, locals, Tables, OneOpenCase, OpenAt
<1>2. ASSUME NEW i \in Invoices, BalanceMoves(i) PROVE Tables' /\ OneOpenCase'
  <2>1. erp' \in [Invoices -> Invoice]
    BY <1>2 DEF BalanceMoves, Tables, Invoice
  <2>2. QED
    BY <1>2, <2>1 DEF BalanceMoves, locals, Tables, OneOpenCase, OpenAt
<1>3. ASSUME NEW i \in Invoices, CaseMoves(i) \/ CaseRestarted(i)
      PROVE  Tables' /\ OneOpenCase'
  BY <1>3, MoveKeeps, RestartKeeps DEF CaseMoves, CaseRestarted, locals, Tables
<1>4. ASSUME NEW i \in Invoices, CaseRead(i) \/ CaseWritten(i)
      PROVE  Tables' /\ OneOpenCase'
  <2>1. /\ cases' \in [Invoices -> Seq(Row)] /\ OneOpenCase'
        /\ UNCHANGED <<erp, locals>>
    BY <1>4, WriteKeeps
       DEF CaseRead, CaseWritten, Tables, OneOpenCase, OpenAt
  <2>2. ASSUME NEW k \in OpenAt(i)
        PROVE  [at |-> k, row |-> cases[i][k]] \in [at : Nat \ {0}, row : Row]
    BY ReadTyped
  <2>3. held' \in [Invoices -> [at : Nat \ {0}, row : Row]]
    <3>1. CASE CaseRead(i)
      BY <3>1, <2>2 DEF CaseRead, Tables
    <3>2. CASE CaseWritten(i)
      <4>1. held' = [held EXCEPT ![i] = NoCopy]
        BY <3>2 DEF CaseWritten
      <4>2. QED
        BY <4>1, NoCopyTyped DEF Tables
    <3>3. QED
      BY <1>4, <3>1, <3>2
  <2>4. QED
    BY <2>1, <2>3 DEF Tables, locals
<1>5. ASSUME NEW s \in Syncs, SyncBegins(s) PROVE Tables' /\ OneOpenCase'
  BY <1>5 DEF SyncBegins, Tables, OneOpenCase, OpenAt
<1>6. ASSUME NEW s \in Syncs, SyncReadsAging(s) PROVE Tables' /\ OneOpenCase'
  <2>1. /\ \A i \in Invoices : erp[i].open \in Amounts
        /\ 0 \in Amounts /\ Face \in Amounts
    BY InvoiceSyncAssumption DEF Tables, Invoice, Amounts
  <2>2. \E f \in [Invoices -> Amounts] : aging' = [aging EXCEPT ![s] = f]
    BY <1>6, <2>1, NoFeedTyped DEF SyncReadsAging, Figure
  <2>3. aging' \in [Syncs -> [Invoices -> Amounts]]
    BY <2>2 DEF Tables
  <2>4. QED
    BY <1>6, <2>3 DEF SyncReadsAging, Tables, OneOpenCase, OpenAt
<1>7. ASSUME NEW s \in Syncs, SyncLooks(s) PROVE Tables' /\ OneOpenCase'
  <2>1. PICK i \in Invoices :
          /\ inv' = [inv EXCEPT ![s] = i]
          /\ \/ \E k \in OpenAt(i) :
                  copy' = [copy EXCEPT ![s] = [at |-> k, row |-> cases[i][k]]]
             \/ UNCHANGED copy
    BY <1>7 DEF SyncLooks, Tables
  <2>2. inv' \in [Syncs -> Invoices]
    BY <2>1 DEF Tables
  <2>3. ASSUME NEW k \in OpenAt(i)
        PROVE  [at |-> k, row |-> cases[i][k]] \in [at : Nat \ {0}, row : Row]
    BY ReadTyped
  <2>4. copy' \in [Syncs -> [at : Nat \ {0}, row : Row]]
    BY <2>1, <2>3 DEF Tables
  <2>5. QED
    BY <1>7, <2>2, <2>4 DEF SyncLooks, Tables, OneOpenCase, OpenAt
<1>8. ASSUME NEW s \in Syncs, SyncRefreshes(s) PROVE Tables' /\ OneOpenCase'
  <2>1. /\ 0 \in Amounts
        /\ aging[s][inv[s]] \in Amounts
        /\ copy[s].row.status \in {"open", "paid"}
    BY InvoiceSyncAssumption DEF Tables, Amounts, Row
  <2>2. \/ Put(s, "paid", 0, "paid")
        \/ UNCHANGED cases
        \/ Put(s, cases[inv[s]][copy[s].at].state, aging[s][inv[s]],
               copy[s].row.status)
    BY <1>8 DEF SyncRefreshes
  <2>3. cases' \in [Invoices -> Seq(Row)] /\ OneOpenCase'
    <3>1. CASE Put(s, "paid", 0, "paid")
      BY <2>1, <3>1, PutKeeps
    <3>2. CASE UNCHANGED cases
      BY <3>2 DEF Tables, OneOpenCase, OpenAt
    <3>3. CASE Put(s, cases[inv[s]][copy[s].at].state, aging[s][inv[s]],
                   copy[s].row.status)
      BY <2>1, <3>3, PutKeeps
    <3>4. QED
      BY <2>2, <3>1, <3>2, <3>3
  <2>4. QED
    BY <1>8, <2>3, NoCopyTyped DEF SyncRefreshes, Tables
<1>9. ASSUME NEW s \in Syncs, SyncTells(s) \/ SyncCreates(s) \/ SyncEnds(s)
      PROVE  Tables' /\ OneOpenCase'
  <2>1. /\ UNCHANGED <<erp, cases, inv, held>>
        /\ \/ UNCHANGED <<todo, aging, copy>>
           \/ Return(s)
    BY <1>9 DEF SyncTells, SyncCreates, SyncEnds, Raise
  <2>2. QED
    BY <2>1, NoCopyTyped, NoFeedTyped DEF Return, Tables, OneOpenCase, OpenAt
<1>10. ASSUME NEW s \in Syncs, SyncInserts(s) PROVE Tables' /\ OneOpenCase'
  <2>1. cases' \in [Invoices -> Seq(Row)] /\ OneOpenCase'
    BY <1>10, InsertKeeps DEF Tables, OneOpenCase, OpenAt
  <2>2. /\ UNCHANGED <<erp, inv, held>>
        /\ \/ UNCHANGED <<todo, aging, copy>>
           \/ Return(s)
    BY <1>10, Zenon DEF SyncInserts, Raise
  <2>3. QED
    BY <2>1, <2>2, NoCopyTyped, NoFeedTyped DEF Return, Tables
<1>11. ASSUME Crash PROVE Tables' /\ OneOpenCase'
  BY <1>11, NoCopyTyped, NoFeedTyped DEF Crash, Tables, OneOpenCase, OpenAt
<1>12. ASSUME UNCHANGED vars PROVE Tables' /\ OneOpenCase'
  BY <1>12 DEF vars, locals, Tables, OneOpenCase, OpenAt
<1>13. QED
  BY <1>1, <1>2, <1>3, <1>4, <1>5, <1>6, <1>7, <1>8, <1>9, <1>10, <1>11,
     <1>12 DEF Next, Step

LEMMA InitKept == Init => Tables /\ OneOpenCase
<1>1. ASSUME Init PROVE Tables
  <2>2. [i \in Invoices |-> <<>>] \in [Invoices -> Seq(Row)]
    BY EmptySeq
  <2>3. QED
    BY <1>1, <2>2, NoCopyTyped, NoFeedTyped, InvoiceSyncAssumption
       DEF Init, Tables, Invoice, Amounts
<1>2. ASSUME Init PROVE OneOpenCase
  BY <1>2 DEF Init, OneOpenCase, OpenAt
<1>3. QED
  BY <1>1, <1>2

\* OneOpenCase for every set of invoices, any number of syncs, people and
\* crashes: the unique index decides what the two transactions of
\* CaseStore.create cannot.
THEOREM OneOpen == Spec => []OneOpenCase
<1>1. (Tables /\ OneOpenCase) /\ [Next]_vars => (Tables /\ OneOpenCase)'
  BY StepKeeps
<1>2. QED
  BY <1>1, InitKept, PTL DEF Spec

-----------------------------------------------------------------------------
(* The types of the rest *)

Others ==
    /\ pc \in [Syncs -> {"idle", "aging", "look", "refresh", "notice",
                         "create", "insert"}]
    /\ list \in [Syncs -> [Invoices -> BOOLEAN]]
    /\ agingOk \in [Syncs -> BOOLEAN]
    /\ reported \in [Invoices -> SUBSET Amounts]
    /\ faced \in SUBSET Invoices
    /\ gaveUp \in [Syncs -> BOOLEAN]
    /\ optedOut \in SUBSET Invoices
    /\ moves \in Nat

LEMMA OthersKept ==
    ASSUME Tables, Others, [Next]_vars
    PROVE  Others'
<1> USE DEF Others, Goto, Move
<1>1. \A i \in Invoices : erp[i].open \in Amounts /\ erp[i].paid \in BOOLEAN
  BY DEF Tables, Invoice
<1>2. ASSUME NEW i \in Invoices,
             \/ InvoicePaid(i) \/ BalanceMoves(i) \/ CaseMoves(i)
             \/ CaseRestarted(i) \/ CaseRead(i) \/ CaseWritten(i)
      PROVE  Others'
  <2>1. /\ UNCHANGED <<locals, reported, faced>>
        /\ moves' \in {moves, moves + 1}
    BY <1>2 DEF InvoicePaid, BalanceMoves, CaseMoves, CaseRestarted, CaseRead,
                CaseWritten, history
  <2>2. optedOut' \in {optedOut, optedOut \cup {i}}
    BY <1>2 DEF InvoicePaid, BalanceMoves, CaseMoves, CaseRestarted, CaseRead,
                CaseWritten, history
  <2>3. QED
    BY <2>1, <2>2 DEF locals
<1>3. ASSUME NEW s \in Syncs, SyncBegins(s) PROVE Others'
  BY <1>1, <1>3 DEF SyncBegins, history
<1>4. ASSUME NEW s \in Syncs, SyncReadsAging(s) PROVE Others'
  <2>1. /\ UNCHANGED <<list, gaveUp, optedOut, moves>>
        /\ pc' = [pc EXCEPT ![s] = "look"]
        /\ \E b \in BOOLEAN : agingOk' = [agingOk EXCEPT ![s] = b]
    BY <1>4 DEF SyncReadsAging
  <2>2. 0 \in Amounts
    BY InvoiceSyncAssumption DEF Amounts
  <2>3. reported' \in [Invoices -> SUBSET Amounts] /\ faced' \in SUBSET Invoices
    BY <1>1, <1>4, <2>2 DEF SyncReadsAging, Figure
  <2>4. QED
    BY <2>1, <2>3
<1>5. ASSUME NEW s \in Syncs, SyncLooks(s) \/ SyncRefreshes(s) PROVE Others'
  BY <1>5 DEF SyncLooks, SyncRefreshes, history
<1>6. ASSUME NEW s \in Syncs, SyncTells(s) \/ SyncEnds(s) PROVE Others'
  <2>1. CASE SyncTells(s)
    BY <2>1 DEF SyncTells, history
  <2>2. CASE SyncEnds(s)
    BY <2>2 DEF SyncEnds, Return, history
  <2>3. QED
    BY <1>6, <2>1, <2>2
<1>7. ASSUME NEW s \in Syncs, SyncCreates(s) \/ SyncInserts(s) PROVE Others'
  <2>1. inv[s] \in Invoices
    BY DEF Tables
  <2>2. faced' \in SUBSET Invoices /\ UNCHANGED <<reported, optedOut, moves>>
    BY <1>7, <2>1 DEF SyncCreates, SyncInserts, history
  <2>3. \/ Raise(s)
        \/ /\ \E l \in {"insert", "look"} : pc' = [pc EXCEPT ![s] = l]
           /\ UNCHANGED <<list, agingOk, gaveUp>>
    BY <1>7 DEF SyncCreates, SyncInserts
  <2>4. CASE Raise(s)
    BY <2>2, <2>4 DEF Raise, Return
  <2>5. QED
    BY <2>2, <2>3, <2>4
<1>8. ASSUME Crash PROVE Others'
  BY <1>8 DEF Crash, history
<1>9. ASSUME UNCHANGED vars PROVE Others'
  BY <1>9 DEF vars, locals, history
<1>10. QED
  BY <1>2, <1>3, <1>4, <1>5, <1>6, <1>7, <1>8, <1>9 DEF Next, Step

\* TypeOK of InvoiceSync: the ERP's feeds, the table and every sync under way.
THEOREM SyncTyping == Spec => []TypeOK
<1>1. Init => Others
  BY DEF Init, Others
<1>2. (Tables /\ OneOpenCase /\ Others) /\ [Next]_vars
        => (Tables /\ OneOpenCase /\ Others)'
  BY StepKeeps, OthersKept
<1>3. Tables /\ Others => TypeOK
  BY DEF Tables, Others, TypeOK
<1>4. QED
  BY <1>1, <1>2, <1>3, InitKept, PTL DEF Spec

-----------------------------------------------------------------------------
(* The balance *)

\* What syncs, runs and handlers hold, and may write, is given too.
GivenInv ==
    /\ BalanceIsGiven
    /\ \A i \in Invoices : Given(i, held[i].row.balance)
    /\ \A s \in Syncs : IF agingOk[s] THEN \A i \in Invoices : Given(i, aging[s][i])
                        ELSE aging[s] = NoFeed

\* Given after the step.
GivenNext(i, a) ==
    \/ a \in reported'[i] \cup {0}
    \/ i \in faced' /\ a = Face

\* What is given stays so.
Grows == \A i \in Invoices : /\ reported[i] \subseteq reported'[i]
                             /\ i \in faced => i \in faced'

LEMMA GivenStays ==
    ASSUME Grows, NEW i \in Invoices, NEW a, Given(i, a)
    PROVE  GivenNext(i, a)
BY DEF Grows, Given, GivenNext

\* A row that is written with a given balance.
LEMMA RowGiven ==
    ASSUME BalanceIsGiven, Grows, NEW i \in Invoices, NEW r, OnlyRow(i, r),
           GivenNext(i, r.balance)
    PROVE  BalanceIsGiven'
<1>1. ASSUME NEW h \in Invoices, NEW j \in DOMAIN cases'[h]
      PROVE  GivenNext(h, cases'[h][j].balance)
  <2>1. CASE j \in DOMAIN cases[h] /\ cases'[h][j] = cases[h][j]
    BY <2>1, GivenStays DEF BalanceIsGiven
  <2>2. CASE h = i /\ cases'[h][j] = r
    BY <2>2
  <2>3. QED
    BY <2>1, <2>2 DEF OnlyRow
<1>2. QED
  BY <1>1 DEF BalanceIsGiven, Given, GivenNext

\* The rows that a step leaves alone.
LEMMA RowsGiven ==
    ASSUME BalanceIsGiven, Grows, UNCHANGED cases
    PROVE  BalanceIsGiven'
BY GivenStays DEF BalanceIsGiven, Given, GivenNext

\* The feed's answer: figures, and the face amount for a row that is missing.
LEMMA ReadGiven ==
    ASSUME Tables, reported \in [Invoices -> SUBSET Amounts],
           faced \in SUBSET Invoices, agingOk \in [Syncs -> BOOLEAN],
           GivenInv, NEW s \in Syncs, SyncReadsAging(s)
    PROVE  Grows /\ GivenInv'
<1>1. CASE /\ agingOk' = [agingOk EXCEPT ![s] = FALSE]
           /\ aging' = [aging EXCEPT ![s] = NoFeed]
           /\ UNCHANGED <<reported, faced>>
  <2>1. Grows
    BY <1>1 DEF Grows
  <2>2. \A z \in Syncs :
          /\ agingOk'[z] = IF z = s THEN FALSE ELSE agingOk[z]
          /\ aging'[z] = IF z = s THEN NoFeed ELSE aging[z]
    BY <1>1 DEF Tables
  <2>3. QED
    BY <1>1, <2>1, <2>2, RowsGiven DEF GivenInv, Given, SyncReadsAging
<1>2. ASSUME NEW missing \in SUBSET Invoices, NEW blank \in SUBSET Invoices,
             agingOk' = [agingOk EXCEPT ![s] = TRUE],
             aging' = [aging EXCEPT ![s] = [i \in Invoices |->
                           IF i \in missing THEN Face
                           ELSE Figure(i, blank)]],
             reported' = [i \in Invoices |->
                           IF i \in missing THEN reported[i]
                           ELSE reported[i] \cup {Figure(i, blank)}],
             faced' = faced \cup missing
      PROVE  Grows /\ GivenInv'
  <2>1. Grows
    BY <1>2 DEF Grows
  <2>2. \A i \in Invoices : GivenNext(i, aging'[s][i])
    <3> TAKE i \in Invoices
    <3>1. aging'[s][i] = IF i \in missing THEN Face
                                 ELSE Figure(i, blank)
      BY <1>2 DEF Tables
    <3>2. CASE i \in missing
      BY <1>2, <3>1, <3>2 DEF GivenNext
    <3>3. CASE i \notin missing
      BY <1>2, <3>1, <3>3 DEF GivenNext
    <3>4. QED
      BY <3>2, <3>3
  <2>3. \A z \in Syncs \ {s} : agingOk'[z] = agingOk[z] /\ aging'[z] = aging[z]
    BY <1>2 DEF Tables
  <2>4. agingOk'[s]
    BY <1>2
  <2>5. ASSUME NEW z \in Syncs
        PROVE  IF agingOk'[z] THEN \A i \in Invoices : GivenNext(i, aging'[z][i])
               ELSE aging'[z] = NoFeed
    <3>1. CASE z = s
      BY <3>1, <2>2, <2>4
    <3>2. CASE z # s
      BY <3>2, <2>1, <2>3, GivenStays DEF GivenInv
    <3>3. QED
      BY <3>1, <3>2
  <2>6. BalanceIsGiven' /\ UNCHANGED held
    BY <2>1, RowsGiven DEF GivenInv, SyncReadsAging
  <2>7. \A i \in Invoices : GivenNext(i, held'[i].row.balance)
    BY <2>1, <2>6, GivenStays DEF GivenInv
  <2>8. QED
    BY <2>1, <2>5, <2>6, <2>7 DEF GivenInv, Given, GivenNext
<1>3. QED
  BY <1>1, <1>2, Zenon DEF SyncReadsAging

\* The parts of the rest that the argument rests on.
Figures ==
    /\ reported \in [Invoices -> SUBSET Amounts]
    /\ faced \in SUBSET Invoices
    /\ agingOk \in [Syncs -> BOOLEAN]

\* Runs and handlers hold what they held, a row, or nothing ...
HeldMoves ==
    \A i \in Invoices :
        held'[i] \in {held[i], NoCopy} \cup
            {[at |-> k, row |-> cases[i][k]] : k \in DOMAIN cases[i]}

\* ... and syncs the feed they read, or none.
FeedMoves ==
    \A s \in Syncs : \/ agingOk'[s] = agingOk[s] /\ aging'[s] = aging[s]
                     \/ ~agingOk'[s] /\ aging'[s] = NoFeed

LEMMA HoldersKept ==
    ASSUME GivenInv, Grows, BalanceIsGiven', HeldMoves, FeedMoves
    PROVE  GivenInv'
<1>1. ASSUME NEW h \in Invoices
      PROVE  GivenNext(h, held'[h].row.balance)
  <2>1. NoCopy.row.balance = 0
    BY DEF NoCopy
  <2>2. CASE held'[h] = held[h]
    BY <2>2, GivenStays DEF GivenInv
  <2>3. CASE held'[h] = NoCopy
    BY <2>1, <2>3 DEF GivenNext
  <2>4. ASSUME NEW k \in DOMAIN cases[h],
               held'[h] = [at |-> k, row |-> cases[h][k]]
        PROVE  GivenNext(h, held'[h].row.balance)
    BY <2>4, GivenStays DEF GivenInv, BalanceIsGiven
  <2>5. QED
    BY <2>2, <2>3, <2>4 DEF HeldMoves
<1>2. ASSUME NEW z \in Syncs
      PROVE  IF agingOk'[z] THEN \A h \in Invoices : GivenNext(h, aging'[z][h])
             ELSE aging'[z] = NoFeed
  BY GivenStays DEF GivenInv, FeedMoves
<1>3. QED
  BY <1>1, <1>2 DEF GivenInv, Given, GivenNext

LEMMA GivenKept ==
    ASSUME Tables, OneOpenCase, Figures, GivenInv, [Next]_vars
    PROVE  GivenInv'
<1>1. ASSUME UNCHANGED <<reported, faced>>
      PROVE  Grows
  BY <1>1 DEF Grows
<1>2. ASSUME NEW s \in Syncs, SyncReadsAging(s) PROVE GivenInv'
  BY <1>2, ReadGiven DEF Figures
<1>3. ASSUME NEW i \in Invoices, CaseMoves(i) \/ CaseRestarted(i)
      PROVE  GivenInv'
  <2>1. Grows /\ HeldMoves /\ FeedMoves
    BY <1>1, <1>3
       DEF CaseMoves, CaseRestarted, locals, history, HeldMoves, FeedMoves
  <2>2. PICK k \in DOMAIN cases[i], r \in Row :
          r.balance = cases[i][k].balance /\ OnlyRow(i, r)
    BY <1>3, MoveKeeps, RestartKeeps
  <2>3. GivenNext(i, r.balance)
    BY <2>1, <2>2, GivenStays DEF GivenInv, BalanceIsGiven
  <2>4. BalanceIsGiven'
    BY <2>1, <2>2, <2>3, RowGiven DEF GivenInv
  <2>5. QED
    BY <2>1, <2>4, HoldersKept
<1>4. ASSUME NEW i \in Invoices, CaseRead(i) PROVE GivenInv'
  <2>1. Grows /\ FeedMoves /\ UNCHANGED cases
    BY <1>1, <1>4 DEF CaseRead, locals, history, FeedMoves
  <2>2. HeldMoves
    BY <1>4 DEF CaseRead, OpenAt, HeldMoves, Tables
  <2>3. BalanceIsGiven'
    BY <2>1, RowsGiven DEF GivenInv
  <2>4. QED
    BY <2>1, <2>2, <2>3, HoldersKept
<1>5. ASSUME NEW i \in Invoices, CaseWritten(i) PROVE GivenInv'
  <2>1. Grows /\ HeldMoves /\ FeedMoves
    BY <1>1, <1>5 DEF CaseWritten, locals, HeldMoves, FeedMoves, Tables
  <2>2. ASSUME UNCHANGED cases PROVE BalanceIsGiven'
    BY <2>1, <2>2, RowsGiven DEF GivenInv
  <2>3. ASSUME NEW r \in Row, r.balance \in {0, held[i].row.balance},
               OnlyRow(i, r)
        PROVE  BalanceIsGiven'
    <3>1. GivenNext(i, 0) /\ GivenNext(i, held[i].row.balance)
      BY <2>1, GivenStays DEF GivenInv, GivenNext
    <3>2. QED
      BY <2>1, <2>3, <3>1, RowGiven DEF GivenInv
  <2>4. BalanceIsGiven'
    BY <1>5, <2>2, <2>3, WriteKeeps
  <2>5. QED
    BY <2>1, <2>4, HoldersKept
<1>6. ASSUME NEW s \in Syncs, SyncRefreshes(s) PROVE GivenInv'
  <2>1. Grows /\ HeldMoves /\ FeedMoves
    BY <1>1, <1>6 DEF SyncRefreshes, history, HeldMoves, FeedMoves
  <2>2. inv[s] \in Invoices
    BY DEF Tables
  <2>3. ASSUME UNCHANGED cases PROVE BalanceIsGiven'
    BY <2>1, <2>3, RowsGiven DEF GivenInv
  <2>4. ASSUME NEW r, OnlyRow(inv[s], r), r.balance = 0
        PROVE  BalanceIsGiven'
    BY <2>1, <2>2, <2>4, RowGiven DEF GivenInv, GivenNext
  <2>5. ASSUME NEW r, OnlyRow(inv[s], r), agingOk[s],
               r.balance = aging[s][inv[s]]
        PROVE  BalanceIsGiven'
    <3>1. GivenNext(inv[s], r.balance)
      BY <2>1, <2>2, <2>5, GivenStays DEF GivenInv
    <3>2. QED
      BY <2>1, <2>2, <2>5, <3>1, RowGiven DEF GivenInv
  <2>6. /\ 0 \in Amounts
        /\ aging[s][inv[s]] \in Amounts
        /\ copy[s].row.status \in {"open", "paid"}
    BY InvoiceSyncAssumption DEF Tables, Amounts, Row
  <2>7. \/ Put(s, "paid", 0, "paid")
        \/ UNCHANGED cases
        \/ /\ agingOk[s]
           /\ Put(s, cases[inv[s]][copy[s].at].state, aging[s][inv[s]],
                  copy[s].row.status)
    BY <1>6 DEF SyncRefreshes, BalanceChanged
  <2>8. BalanceIsGiven'
    <3>1. CASE Put(s, "paid", 0, "paid")
      BY <2>4, <2>6, <3>1, PutKeeps
    <3>2. CASE /\ agingOk[s]
               /\ Put(s, cases[inv[s]][copy[s].at].state, aging[s][inv[s]],
                      copy[s].row.status)
      BY <2>5, <2>6, <3>2, PutKeeps
    <3>3. QED
      BY <2>3, <2>7, <3>1, <3>2
  <2>9. QED
    BY <2>1, <2>8, HoldersKept
<1>7. ASSUME NEW s \in Syncs, SyncInserts(s) PROVE GivenInv'
  <2>1. UNCHANGED <<held, reported>> /\ HeldMoves /\ FeedMoves
    BY <1>7
       DEF SyncInserts, Raise, Return, HeldMoves, FeedMoves, Tables, Figures
  <2>2. inv[s] \in Invoices
    BY DEF Tables
  <2>3. CASE UNCHANGED <<cases, faced>>
    <3>1. Grows
      BY <1>1, <2>1, <2>3
    <3>2. QED
      BY <2>1, <2>3, <3>1, RowsGiven, HoldersKept DEF GivenInv
  <2>4. ASSUME NEW r, r.balance = aging[s][inv[s]], OnlyRow(inv[s], r),
               faced' = IF agingOk[s] THEN faced ELSE faced \cup {inv[s]}
        PROVE  GivenInv'
    <3>1. Grows
      BY <2>1, <2>4 DEF Grows
    <3>2. GivenNext(inv[s], r.balance)
      <4>1. CASE agingOk[s]
        BY <2>2, <2>4, <3>1, <4>1, GivenStays DEF GivenInv
      <4>2. CASE ~agingOk[s]
        <5>1. r.balance = Face
          BY <2>2, <2>4, <4>2 DEF GivenInv, NoFeed
        <5>2. QED
          BY <2>4, <4>2, <5>1 DEF GivenNext
      <4>3. QED
        BY <4>1, <4>2
    <3>3. BalanceIsGiven'
      BY <2>2, <2>4, <3>1, <3>2, RowGiven DEF GivenInv
    <3>4. QED
      BY <2>1, <3>1, <3>3, HoldersKept
  <2>5. QED
    BY <1>7, <2>3, <2>4, InsertKeeps
<1>8. ASSUME NEW s \in Syncs, SyncCreates(s) \/ SyncEnds(s) PROVE GivenInv'
  <2>1. Grows /\ HeldMoves /\ FeedMoves /\ UNCHANGED cases
    BY <1>1, <1>8
       DEF SyncCreates, SyncEnds, Raise, Return, history, HeldMoves, FeedMoves,
           Tables, Figures
  <2>2. BalanceIsGiven'
    BY <2>1, RowsGiven DEF GivenInv
  <2>3. QED
    BY <2>1, <2>2, HoldersKept
<1>9. ASSUME UNCHANGED <<cases, held, aging, agingOk, reported, faced>>
      PROVE  GivenInv'
  BY <1>9 DEF GivenInv, BalanceIsGiven, Given
<1>10. ASSUME Crash PROVE GivenInv'
  <2>1. Grows /\ HeldMoves /\ FeedMoves /\ UNCHANGED cases
    BY <1>1, <1>10 DEF Crash, history, HeldMoves, FeedMoves
  <2>2. BalanceIsGiven'
    BY <2>1, RowsGiven DEF GivenInv
  <2>3. QED
    BY <2>1, <2>2, HoldersKept
<1>11. \/ UNCHANGED <<cases, held, aging, agingOk, reported, faced>>
       \/ \E i \in Invoices : \/ CaseMoves(i) \/ CaseRestarted(i)
                              \/ CaseRead(i) \/ CaseWritten(i)
       \/ \E s \in Syncs : \/ SyncReadsAging(s) \/ SyncRefreshes(s)
                           \/ SyncCreates(s) \/ SyncInserts(s) \/ SyncEnds(s)
       \/ Crash
  BY DEF Next, Step, InvoicePaid, BalanceMoves, SyncBegins, SyncLooks,
         SyncTells, vars, locals, history
<1>12. QED
  BY <1>2, <1>3, <1>4, <1>5, <1>6, <1>7, <1>8, <1>9, <1>10, <1>11

\* BalanceIsGiven for every set of invoices and any number of syncs, runs and
\* handlers: an outage of the feed never puts the face amount on a case.
THEOREM BalanceGiven == Spec => []BalanceIsGiven
<1> DEFINE I == Tables /\ OneOpenCase /\ Others /\ GivenInv
<1>1. Init => I
  <2>1. ASSUME Init PROVE Others /\ GivenInv
    <3>1. NoCopy.row.balance = 0
      BY DEF NoCopy
    <3>2. GivenInv
      BY <2>1, <3>1 DEF Init, GivenInv, BalanceIsGiven, Given
    <3>3. QED
      BY <2>1, <3>2 DEF Init, Others
  <2>2. QED
    BY <2>1, InitKept
<1>2. I /\ [Next]_vars => I'
  BY StepKeeps, OthersKept, GivenKept DEF Others, Figures
<1>3. I => BalanceIsGiven
  BY DEF GivenInv
<1> HIDE DEF I
<1>4. QED
  BY <1>1, <1>2, <1>3, PTL DEF Spec
=============================================================================
