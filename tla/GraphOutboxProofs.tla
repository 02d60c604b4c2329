-------------------------- MODULE GraphOutboxProofs --------------------------
(***************************************************************************)
(* GraphOutbox for every set of targets and relationships, runs of every   *)
(* length, any limit of a flush and any number of faults: of what the runs *)
(* write an invoice has one current edge per relationship, the last run's  *)
(* is the one that is shown, and what the outbox calls done was carried    *)
(* out.                                                                    *)
(***************************************************************************)
EXTENDS GraphOutbox, WellFoundedInduction, TLAPS

-----------------------------------------------------------------------------
(* Induction: what fails for some number fails for a least one.             *)

LEMMA LessWellFounded == IsWellFoundedOn({p \in Nat \X Nat : p[1] < p[2]}, Nat)
BY NatLessThanWellFounded, Zenon DEF OpToRel

LEMMA LeastOf ==
    ASSUME NEW T, T \subseteq Nat, T # {}
    PROVE  \E x \in T : \A y \in T : x <= y
<1> DEFINE less == {p \in Nat \X Nat : p[1] < p[2]}
<1>1. PICK x \in T : \A y \in T : ~ (<<y, x>> \in less)
  BY LessWellFounded, WFMin, Zenon
<1>2. ASSUME NEW y \in T PROVE x <= y
  <2>1. ~ (<<y, x>> \in less)
    BY <1>1
  <2>2. x \in Nat /\ y \in Nat
    OBVIOUS
  <2> QED
    BY <2>1, <2>2
<1> QED
  BY <1>2

-----------------------------------------------------------------------------
(* The list of a flush                                                      *)

\* What of the rows up to i a flush lists, when f has what it lists of those
\* before.
Upto(f, i) ==
    IF i = 0 THEN <<>>
    ELSE IF status[i] = "pending" /\ Len(f[i - 1]) < Limit
         THEN Append(f[i - 1], i) ELSE f[i - 1]

LEMMA ListExists ==
    ASSUME NEW n \in Nat
    PROVE  \E f : f = [i \in 0 .. n |-> Upto(f, i)]
<1> DEFINE Solves(f, k) == f = [i \in 0 .. k |-> Upto(f, i)]
           Without == {k \in Nat : ~ \E f : Solves(f, k)}
<1>1. ASSUME Without # {} PROVE FALSE
  <2>1. PICK k \in Without : \A j \in Without : k <= j
    <3>1. Without \subseteq Nat
      OBVIOUS
    <3> HIDE DEF Without
    <3> QED
      BY <1>1, <3>1, LeastOf, Zenon
  <2>2. k \in Nat /\ ~ \E f : Solves(f, k)
    BY <2>1
  <2>3. CASE k = 0
    <3> DEFINE g == [i \in 0 .. 0 |-> <<>>]
    <3>1. \A i \in 0 .. 0 : Upto(g, i) = <<>>
      BY DEF Upto
    <3>2. Solves(g, 0)
      BY <3>1
    <3> QED
      BY <2>2, <2>3, <3>2
  <2>4. CASE k # 0
    <3>1. k - 1 \in Nat /\ k - 1 \notin Without
      BY <2>1, <2>2, <2>4
    <3>2. PICK f : Solves(f, k - 1)
      BY <3>1
    <3> DEFINE g == [i \in 0 .. k |-> Upto(f, i)]
    <3>3. ASSUME NEW i \in 0 .. k PROVE Upto(g, i) = Upto(f, i)
      <4>1. CASE i = 0
        BY <4>1 DEF Upto
      <4>2. CASE i # 0
        <5>1. i - 1 \in 0 .. k /\ i - 1 \in 0 .. k - 1
          BY <4>2, <2>2
        <5>2. g[i - 1] = Upto(f, i - 1) /\ f[i - 1] = Upto(f, i - 1)
          BY <3>2, <5>1
        <5> HIDE DEF g
        <5> QED
          BY <4>2, <5>2 DEF Upto
      <4> QED
        BY <4>1, <4>2
    <3>4. g = [i \in 0 .. k |-> Upto(g, i)]
      BY <3>3, Zenon
    <3> QED
      BY <2>2, <3>4
  <2> QED
    BY <2>3, <2>4
<1> QED
  BY <1>1

LEMMA ListUnfold ==
    ASSUME TypeOK
    PROVE  \E f : /\ f = [i \in 0 .. Len(log) |-> Upto(f, i)]
                  /\ ListPending = f[Len(log)]
<1> DEFINE list[i \in 0 .. Len(log)] ==
             IF i = 0 THEN <<>>
             ELSE IF status[i] = "pending" /\ Len(list[i - 1]) < Limit
                  THEN Append(list[i - 1], i) ELSE list[i - 1]
<1>1. Len(log) \in Nat
  BY DEF TypeOK
<1>2. PICK f : f = [i \in 0 .. Len(log) |-> Upto(f, i)]
  BY <1>1, ListExists
<1>3. list = [i \in 0 .. Len(log) |-> Upto(list, i)]
  BY <1>2, Zenon DEF Upto
<1>4. ListPending = list[Len(log)]
  BY Zenon DEF ListPending
<1> HIDE DEF list
<1> QED
  BY <1>3, <1>4

Increasing(s) == \A i, j \in 1 .. Len(s) : i < j => s[i] < s[j]

\* A flush lists pending rows, the oldest first, and all of them if they are
\* fewer than its limit.
LEMMA Listed ==
    ASSUME TypeOK
    PROVE  /\ ListPending \in Seq(1 .. Len(log))
           /\ Increasing(ListPending)
           /\ \A i \in 1 .. Len(ListPending) : status[ListPending[i]] = "pending"
           /\ Len(ListPending) < Limit =>
                \A o \in 1 .. Len(log) : status[o] = "pending" =>
                    \E i \in 1 .. Len(ListPending) : ListPending[i] = o
<1> DEFINE n == Len(log)
<1>1. n \in Nat /\ Limit \in Nat \ {0}
  BY GraphAssumption DEF TypeOK
<1>2. PICK f : f = [i \in 0 .. n |-> Upto(f, i)] /\ ListPending = f[n]
  BY ListUnfold, Zenon
<1> HIDE DEF n
<1> DEFINE Good(k) ==
             /\ f[k] \in Seq(1 .. k)
             /\ Increasing(f[k])
             /\ \A i \in 1 .. Len(f[k]) : status[f[k][i]] = "pending"
             /\ Len(f[k]) < Limit =>
                  \A o \in 1 .. k : status[o] = "pending" =>
                      \E i \in 1 .. Len(f[k]) : f[k][i] = o
           Bad == {k \in 0 .. n : ~ Good(k)}
<1>3. \A k \in 0 .. n : f[k] = Upto(f, k)
  BY <1>2
<1>4. ASSUME Bad # {} PROVE FALSE
  <2>1. PICK k \in Bad : \A j \in Bad : k <= j
    <3>1. Bad \subseteq Nat
      BY <1>1
    <3> HIDE DEF Bad
    <3> QED
      BY <1>4, <3>1, LeastOf, Zenon
  <2>2. k \in 0 .. n /\ ~ Good(k)
    BY <2>1
  <2>3. CASE k = 0
    <3>1. f[k] = <<>>
      BY <1>3, <2>2, <2>3 DEF Upto
    <3>2. <<>> \in Seq(1 .. k)
      OBVIOUS
    <3>3. Good(k)
      BY <2>3, <3>1, <3>2 DEF Increasing
    <3> QED
      BY <2>2, <3>3
  <2>4. CASE k # 0
    <3> DEFINE s == f[k - 1]
    <3>1. k - 1 \in 0 .. n /\ Good(k - 1)
      BY <1>1, <2>1, <2>2, <2>4
    <3>2. f[k] = IF status[k] = "pending" /\ Len(s) < Limit THEN Append(s, k) ELSE s
      BY <1>3, <2>2, <2>4 DEF Upto
    <3>3. /\ s \in Seq(1 .. k - 1) /\ Increasing(s)
          /\ \A i \in 1 .. Len(s) : status[s[i]] = "pending"
          /\ Len(s) < Limit =>
               \A o \in 1 .. k - 1 : status[o] = "pending" =>
                   \E i \in 1 .. Len(s) : s[i] = o
      BY <3>1
    <3>4. k \in Nat /\ s \in Seq(1 .. k) /\ Len(s) \in Nat
          /\ \A i \in 1 .. Len(s) : s[i] \in Nat /\ s[i] < k
      BY <1>1, <2>2, <2>4, <3>3
    <3> HIDE DEF s
    <3>5. CASE status[k] = "pending" /\ Len(s) < Limit
      <4>1. f[k] = Append(s, k)
        BY <3>2, <3>5
      <4>2. /\ f[k] \in Seq(1 .. k) /\ Len(f[k]) = Len(s) + 1
            /\ f[k][Len(s) + 1] = k
            /\ \A i \in 1 .. Len(s) : f[k][i] = s[i]
        BY <2>2, <2>4, <3>4, <4>1
      <4>3. \A i \in 1 .. Len(f[k]) : i \in 1 .. Len(s) \/ i = Len(s) + 1
        BY <3>4, <4>2
      <4>4. ASSUME NEW i \in 1 .. Len(f[k]), NEW j \in 1 .. Len(f[k]), i < j
            PROVE  f[k][i] < f[k][j]
        <5>1. i \in 1 .. Len(s) /\ f[k][i] = s[i]
          BY <3>4, <4>2, <4>3, <4>4
        <5>2. CASE j = Len(s) + 1
          BY <3>4, <4>2, <5>1, <5>2
        <5>3. CASE j # Len(s) + 1
          BY <3>3, <4>2, <4>3, <4>4, <5>1, <5>3 DEF Increasing
        <5> QED
          BY <5>2, <5>3
      <4>5. \A i \in 1 .. Len(f[k]) : status[f[k][i]] = "pending"
        BY <3>3, <3>5, <4>2, <4>3
      <4>6. ASSUME NEW o \in 1 .. k, status[o] = "pending"
            PROVE  \E i \in 1 .. Len(f[k]) : f[k][i] = o
        <5>1. Len(s) + 1 \in 1 .. Len(f[k]) /\ 1 .. Len(s) \subseteq 1 .. Len(f[k])
          BY <3>4, <4>2
        <5>2. CASE o = k
          BY <4>2, <5>1, <5>2
        <5>3. CASE o # k
          <6>1. PICK i \in 1 .. Len(s) : s[i] = o
            BY <3>3, <3>4, <3>5, <4>6, <5>3
          <6> QED
            BY <4>2, <5>1, <6>1
        <5> QED
          BY <5>2, <5>3
      <4> QED
        BY <2>2, <4>2, <4>4, <4>5, <4>6 DEF Increasing
    <3>6. CASE ~ (status[k] = "pending" /\ Len(s) < Limit)
      <4>1. f[k] = s
        BY <3>2, <3>6
      <4>2. Len(s) < Limit =>
              \A o \in 1 .. k : status[o] = "pending" =>
                  \E i \in 1 .. Len(s) : s[i] = o
        BY <3>3, <3>4, <3>6
      <4> QED
        BY <2>2, <3>3, <3>4, <4>1, <4>2
    <3> QED
      BY <3>5, <3>6
  <2> QED
    BY <2>3, <2>4
<1>5. Good(n)
  BY <1>1, <1>4
<1> QED
  BY <1>2, <1>5 DEF n

-----------------------------------------------------------------------------
(* Where the run and the flushes are                                        *)

\* A flush has rows of the log before it, the oldest first.
QueueInv ==
    \A f \in Flushers : batch[f] \in Seq(1 .. Len(log)) /\ Increasing(batch[f])

\* A run that awaits has written the first of its operations into the log, and
\* there is room for the others.
WriterInv ==
    /\ wpc = "next" => Len(log) + Len(todo) <= MaxOps
    /\ wpc \in {"add", "flush"} =>
         /\ todo # <<>> /\ log # <<>> /\ Last(log) = Head(todo)
         /\ Len(log) + Len(todo) <= MaxOps + 1
    /\ wpc = "add" => backend = "sqlite" /\ Head(todo) # Node
    /\ wpc = "flush" => backend = "azure"
    /\ batch["own"] # <<>> => wpc = "flush"

\* Only Cosmos has flushes, and only an edge has a target.
FlushInv ==
    \A f \in Flushers :
        /\ batch[f] # <<>> => backend = "azure"
        /\ at[f] \in {"target", "close", "link"} => Item(f) # Node

Holds(f, o) == \E i \in 1 .. Len(batch[f]) : batch[f][i] = o

\* No row is tried more than once after it was given up, and that by the flush
\* that had listed it before.
Spent(o) ==
    /\ status[o] = "pending" => attempts[o] < MaxAttempts
    /\ attempts[o] = MaxAttempts => ~ (Holds("own", o) /\ Holds("other", o))
    /\ attempts[o] > MaxAttempts => ~ (Holds("own", o) \/ Holds("other", o))

AttemptsInv == \A o \in Ops : Spent(o)

\* Only SQLite has replies; what one has listed blocked the invoice then.
ReplyInv ==
    /\ rpc # "idle" => backend = "sqlite" /\ meant \in Targets
    /\ \A e \in listed : RelOf[e.to] = Blocked /\ e.till = Open

PlacesInv == TypeOK /\ QueueInv /\ WriterInv /\ FlushInv /\ AttemptsInv /\ ReplyInv

LEMMA InitialPlaces == Init => PlacesInv
<1> SUFFICES ASSUME Init PROVE PlacesInv
  OBVIOUS
<1>0. \A f \in Flushers : batch[f] = <<>> /\ at[f] = "idle"
  BY DEF Init
<1>1. TypeOK
  <2>1. \A S : <<>> \in Seq(S)
    OBVIOUS
  <2>2. attempts \in [Ops -> 0 .. MaxAttempts + 1] /\ faults \in 0 .. MaxFaults
    BY GraphAssumption DEF Init
  <2>3. batch \in [Flushers -> Seq(Ops)]
    BY <2>1 DEF Init
  <2>4. log \in Seq(Targets \cup {Node}) /\ Len(log) <= MaxOps
    BY <2>1, GraphAssumption DEF Init
  <2>5. \A f \in Flushers : at[f] = "idle" <=> batch[f] = <<>>
    BY <1>0
  <2>6. /\ backend \in {"sqlite", "azure"} /\ edges \in SUBSET Edge
        /\ todo \in Seq(Targets \cup {Node})
        /\ wpc \in {"idle", "next", "add", "flush"}
        /\ status \in [Ops -> {"pending", "done", "failed"}]
        /\ at \in [Flushers -> {"idle", "drop", "add", "target", "close",
                                "link", "mark", "fail"}]
        /\ applied \in SUBSET Ops
        /\ rpc \in {"idle", "list", "close", "run"}
        /\ listed \in SUBSET Edge /\ meant \in Targets \cup {Node}
    BY <2>1 DEF Init
  <2>7. vertex \in BOOLEAN /\ overlapped \in BOOLEAN
    BY DEF Init
  <2> QED
    BY <2>2, <2>3, <2>4, <2>5, <2>6, <2>7 DEF TypeOK
<1>2. QueueInv
  <2>1. <<>> \in Seq(1 .. Len(log)) /\ Increasing(<<>>)
    BY DEF Increasing
  <2> QED
    BY <1>0, <2>1, Zenon DEF QueueInv
<1>3. WriterInv /\ FlushInv /\ ReplyInv
  BY <1>0 DEF Init, WriterInv, FlushInv, ReplyInv, Flushers
<1>4. AttemptsInv
  BY <1>0, GraphAssumption DEF Init, AttemptsInv, Spent, Holds, Flushers
<1> QED
  BY <1>1, <1>2, <1>3, <1>4 DEF PlacesInv

\* The first row of a flush and those behind it.
LEMMA Rows ==
    ASSUME PlacesInv, NEW f \in Flushers, batch[f] # <<>>
    PROVE  /\ Head(batch[f]) \in 1 .. Len(log) /\ Head(batch[f]) \in Ops
           /\ Holds(f, Head(batch[f]))
           /\ Tail(batch[f]) \in Seq(1 .. Len(log)) /\ Tail(batch[f]) \in Seq(Ops)
           /\ Increasing(Tail(batch[f]))
           /\ \A i \in 1 .. Len(Tail(batch[f])) :
                /\ Tail(batch[f])[i] > Head(batch[f])
                /\ Holds(f, Tail(batch[f])[i])
           /\ Len(batch[f]) = 1 <=> Tail(batch[f]) = <<>>
<1> DEFINE b == batch[f]
           n == Len(log)
<1>1. b \in Seq(1 .. n) /\ Increasing(b) /\ b # <<>> /\ b \in Seq(Ops)
      /\ n \in Nat /\ n <= MaxOps
  BY DEF PlacesInv, TypeOK, QueueInv
<1> HIDE DEF b, n
<1>2. /\ Head(b) = b[1] /\ Len(b) \in Nat \ {0} /\ b[1] \in 1 .. n
      /\ Tail(b) \in Seq(1 .. n) /\ Len(Tail(b)) = Len(b) - 1
      /\ \A i \in 1 .. Len(b) - 1 : Tail(b)[i] = b[i + 1]
  BY <1>1
<1>3. b[1] \in Ops /\ Tail(b) \in Seq(Ops)
  BY <1>1, <1>2
<1>4. Increasing(Tail(b))
  BY <1>1, <1>2 DEF Increasing
<1>5. \A i \in 1 .. Len(Tail(b)) : Tail(b)[i] > b[1]
  BY <1>1, <1>2 DEF Increasing
<1>6. \A i \in 1 .. Len(Tail(b)) : \E j \in 1 .. Len(b) : b[j] = Tail(b)[i]
  BY <1>1, <1>2
<1>7. \E j \in 1 .. Len(b) : b[j] = b[1]
  BY <1>2
<1>8. Len(b) = 1 <=> Tail(b) = <<>>
  BY <1>1, <1>2
<1> QED
  BY <1>2, <1>3, <1>4, <1>5, <1>6, <1>7, <1>8 DEF b, n, Holds

\* A row's end.
LEMMA RowEnds ==
    ASSUME PlacesInv, NEW f \in Flushers, batch[f] # <<>>, RowDone(f)
    PROVE  /\ batch' \in [Flushers -> Seq(Ops)]
           /\ at' \in [Flushers -> {"idle", "drop", "add", "target", "close",
                                    "link", "mark", "fail"}]
           /\ \A g \in Flushers :
                /\ batch'[g] = IF g = f THEN Tail(batch[f]) ELSE batch[g]
                /\ at'[g] = IF g # f THEN at[g]
                            ELSE IF Tail(batch[f]) = <<>> THEN "idle" ELSE "drop"
           /\ \/ /\ f = "own" /\ Tail(batch[f]) = <<>>
                 /\ wpc' = "next" /\ todo' = Tail(todo)
              \/ /\ f = "other" \/ Tail(batch[f]) # <<>>
                 /\ wpc' = wpc /\ todo' = todo
           /\ UNCHANGED <<backend, vertex, edges, log, applied, overlapped, faults>>
           /\ UNCHANGED <<rpc, listed, meant>>
           /\ \A g \in Flushers, o \in Ops : Holds(g, o)' =>
                Holds(g, o) /\ ~ (g = f /\ o = Head(batch[f]))
<1>1. /\ Len(batch[f]) = 1 <=> Tail(batch[f]) = <<>>
      /\ Tail(batch[f]) \in Seq(Ops)
  BY Rows
<1>2. /\ batch' = [batch EXCEPT ![f] = Tail(@)]
      /\ at' = [at EXCEPT ![f] = IF Len(batch[f]) = 1 THEN "idle" ELSE "drop"]
      /\ IF f = "own" /\ Len(batch[f]) = 1
         THEN wpc' = "next" /\ todo' = Tail(todo)
         ELSE wpc' = wpc /\ todo' = todo
      /\ UNCHANGED <<backend, vertex, edges, log, applied, overlapped, faults>>
      /\ UNCHANGED <<rpc, listed, meant>>
  BY DEF RowDone, writer, graph, answer
<1>3. batch \in [Flushers -> Seq(Ops)]
      /\ at \in [Flushers -> {"idle", "drop", "add", "target", "close",
                              "link", "mark", "fail"}]
  BY DEF PlacesInv, TypeOK
<1>4. /\ batch' \in [Flushers -> Seq(Ops)]
      /\ \A g \in Flushers :
           batch'[g] = IF g = f THEN Tail(batch[f]) ELSE batch[g]
  BY <1>1, <1>2, <1>3
<1>5. /\ at' \in [Flushers -> {"idle", "drop", "add", "target", "close",
                               "link", "mark", "fail"}]
      /\ \A g \in Flushers :
           at'[g] = IF g # f THEN at[g]
                    ELSE IF Tail(batch[f]) = <<>> THEN "idle" ELSE "drop"
  BY <1>1, <1>2, <1>3
<1>6. ASSUME NEW g \in Flushers, NEW o \in Ops, Holds(g, o)'
      PROVE  Holds(g, o) /\ ~ (g = f /\ o = Head(batch[f]))
  <2>1. CASE g # f
    BY <1>4, <1>6, <2>1 DEF Holds
  <2>2. CASE g = f
    <3>1. PICK i \in 1 .. Len(Tail(batch[f])) : Tail(batch[f])[i] = o
      BY <1>4, <1>6, <2>2 DEF Holds
    <3>2. o > Head(batch[f]) /\ Holds(f, o) /\ Head(batch[f]) \in Ops
      BY <3>1, Rows
    <3> QED
      BY <2>2, <3>2 DEF Ops
  <2> QED
    BY <2>1, <2>2
<1>7. f = "own" \/ f = "other"
  BY DEF Flushers
<1>8. \/ /\ f = "own" /\ Tail(batch[f]) = <<>>
         /\ wpc' = "next" /\ todo' = Tail(todo)
      \/ /\ f = "other" \/ Tail(batch[f]) # <<>>
         /\ wpc' = wpc /\ todo' = todo
  BY <1>1, <1>2, <1>7
<1> QED
  BY <1>2, <1>4, <1>5, <1>6, <1>8

\* What the run writes is in the log for good: the flushes' rows stay theirs.
LEMMA LogKeeps ==
    ASSUME PlacesInv, NEW x \in Targets \cup {Node}, log' = Append(log, x),
           UNCHANGED flushes
    PROVE  /\ Len(log') = Len(log) + 1 /\ log' # <<>> /\ Last(log') = x
           /\ log' \in Seq(Targets \cup {Node})
           /\ QueueInv'
           /\ \A f \in Flushers : batch[f] # <<>> => Item(f)' = Item(f)
<1>1. log \in Seq(Targets \cup {Node}) /\ Len(log) \in Nat
  BY DEF PlacesInv, TypeOK
<1>2. /\ Len(log') = Len(log) + 1 /\ log' # <<>>
      /\ log' \in Seq(Targets \cup {Node})
      /\ log'[Len(log) + 1] = x
      /\ \A i \in 1 .. Len(log) : log'[i] = log[i]
  BY <1>1
<1>3. ASSUME NEW f \in Flushers
      PROVE  batch'[f] \in Seq(1 .. Len(log')) /\ Increasing(batch[f])
  <2>1. batch[f] \in Seq(1 .. Len(log)) /\ Increasing(batch[f]) /\ batch' = batch
    BY DEF PlacesInv, QueueInv, flushes
  <2>2. 1 .. Len(log) \subseteq 1 .. Len(log')
    BY <1>1, <1>2
  <2> QED
    BY <2>1, <2>2
<1>4. QueueInv'
  BY <1>3 DEF QueueInv, Increasing, flushes
<1>5. ASSUME NEW f \in Flushers, batch[f] # <<>> PROVE Item(f)' = Item(f)
  BY <1>2, <1>5, Rows DEF Item, flushes
<1> QED
  BY <1>2, <1>4, <1>5 DEF Last

LEMMA WriterPlaces ==
    ASSUME PlacesInv, RunWrites \/ RunDone \/ LiteClose \/ LiteAdd \/ Enqueue
    PROVE  PlacesInv'
<1> USE GraphAssumption
<1>0. /\ todo \in Seq(Targets \cup {Node}) /\ log \in Seq(Targets \cup {Node})
      /\ Len(log) \in Nat /\ Len(log) <= MaxOps /\ edges \in SUBSET Edge
      /\ Len(todo) \in Nat
  BY DEF PlacesInv, TypeOK
<1>1. UNCHANGED <<backend, status, attempts, batch, at, applied, overlapped, faults>>
      /\ vertex' = vertex
  BY DEF RunWrites, RunDone, LiteClose, LiteAdd, Enqueue, graph, outbox, flushes
<1>9. /\ ReplyInv' /\ rpc' \in {"idle", "list", "close", "run"}
      /\ listed' \in SUBSET Edge /\ meant' \in Targets \cup {Node}
  <2>1. /\ listed' = listed
        /\ \/ rpc' = rpc /\ meant' = meant
           \/ rpc' = "idle" /\ meant' = Node
    BY DEF RunWrites, RunDone, LiteClose, LiteAdd, Enqueue, answer
  <2> QED
    BY <1>1, <2>1 DEF PlacesInv, TypeOK, ReplyInv
<1>2. AttemptsInv'
  BY <1>1 DEF PlacesInv, AttemptsInv, Spent, Holds
<1>3. /\ log' = log
      \/ (log' = Append(log, Head(todo)) /\ todo # <<>> /\ wpc = "next")
  BY DEF RunWrites, RunDone, LiteClose, LiteAdd, Enqueue, outbox
<1>4. todo # <<>> => Head(todo) \in Targets \cup {Node}
  BY <1>0
<1>5. QueueInv' /\ \A f \in Flushers : batch[f] # <<>> => Item(f)' = Item(f)
  <2>1. CASE log' = log
    BY <1>1, <2>1 DEF PlacesInv, QueueInv, Item, Increasing
  <2>2. CASE log' # log
    BY <1>1, <1>3, <1>4, <2>2, LogKeeps DEF flushes
  <2> QED
    BY <2>1, <2>2
<1>6. FlushInv'
  <2>1. \A f \in Flushers : at[f] \in {"target", "close", "link"} => batch[f] # <<>>
    BY DEF PlacesInv, TypeOK
  <2> QED
    BY <1>1, <1>5, <2>1 DEF PlacesInv, FlushInv
<1>7. /\ WriterInv' /\ todo' \in Seq(Targets \cup {Node})
      /\ log' \in Seq(Targets \cup {Node}) /\ Len(log') <= MaxOps
      /\ wpc' \in {"idle", "next", "add", "flush"} /\ edges' \in SUBSET Edge
  <2> USE DEF PlacesInv, WriterInv
  <2>1. CASE RunWrites
    <3>1. PICK ts \in Runs : Len(log) + Len(ts) < MaxOps /\ todo' = <<Node>> \o ts
      BY <2>1 DEF RunWrites
    <3>2. ts \in Seq(Targets)
      BY <3>1
    <3>3. todo' \in Seq(Targets \cup {Node}) /\ Len(todo') = Len(ts) + 1
      BY <3>1, <3>2
    <3>4. Len(ts) \in Nat
      BY <3>2
    <3> QED
      BY <1>0, <1>1, <2>1, <3>1, <3>3, <3>4 DEF RunWrites, outbox, graph, TypeOK
  <2>2. CASE RunDone
    BY <1>0, <1>1, <2>2 DEF RunDone, outbox, graph, TypeOK
  <2>3. CASE LiteClose
    <3>1. /\ Len(log') = Len(log) + 1 /\ log' # <<>> /\ Last(log') = Head(todo)
          /\ log' \in Seq(Targets \cup {Node})
      BY <1>1, <1>4, <2>3, LogKeeps DEF LiteClose, flushes
    <3>2. Len(log) + Len(todo) <= MaxOps /\ Len(todo) > 0 /\ batch["own"] = <<>>
      BY <1>0, <2>3 DEF LiteClose
    <3>3. Len(log') <= MaxOps
      BY <1>0, <3>1, <3>2
    <3>4. CASE Head(todo) = Node
      <4>1. todo' = Tail(todo) /\ wpc' = "next" /\ edges' = edges
        BY <2>3, <3>4 DEF LiteClose
      <4>2. todo' \in Seq(Targets \cup {Node}) /\ Len(todo') = Len(todo) - 1
        BY <1>0, <3>2, <4>1
      <4> QED
        BY <1>0, <1>1, <3>1, <3>2, <3>3, <4>1, <4>2
    <3>5. CASE Head(todo) # Node
      <4>1. /\ edges' = Closed(edges, RelOf[Head(todo)], Len(log'))
            /\ wpc' = "add" /\ todo' = todo /\ backend = "sqlite"
        BY <2>3, <3>5 DEF LiteClose
      <4>2. Len(log') \in Ops
        BY <1>0, <3>1, <3>3 DEF Ops
      <4>3. edges' \in SUBSET Edge
        BY <1>0, <4>1, <4>2 DEF Closed, Edge
      <4> QED
        BY <1>0, <1>1, <3>1, <3>2, <3>3, <3>5, <4>1, <4>3
    <3> QED
      BY <3>4, <3>5
  <2>4. CASE LiteAdd
    <3>1. /\ todo # <<>> /\ log # <<>> /\ Head(todo) # Node
          /\ Len(log) + Len(todo) <= MaxOps + 1 /\ batch["own"] = <<>>
      BY <2>4 DEF LiteAdd
    <3>2. /\ todo' = Tail(todo) /\ wpc' = "next" /\ log' = log
          /\ edges' = edges \cup {[to |-> Head(todo), from |-> Len(log), till |-> Open]}
      BY <2>4 DEF LiteAdd, outbox
    <3>3. Head(todo) \in Targets /\ Len(log) \in Ops
      BY <1>0, <1>4, <3>1 DEF Ops
    <3>4. edges' \in SUBSET Edge
      BY <1>0, <3>2, <3>3 DEF Edge
    <3>5. todo' \in Seq(Targets \cup {Node}) /\ Len(todo') = Len(todo) - 1
      BY <1>0, <3>1, <3>2
    <3> QED
      BY <1>0, <1>1, <3>1, <3>2, <3>4, <3>5
  <2>5. CASE Enqueue
    <3>1. /\ Len(log') = Len(log) + 1 /\ log' # <<>> /\ Last(log') = Head(todo)
          /\ log' \in Seq(Targets \cup {Node})
      BY <1>1, <1>4, <2>5, LogKeeps DEF Enqueue, flushes
    <3>2. Len(log) + Len(todo) <= MaxOps /\ todo # <<>> /\ backend = "azure"
          /\ wpc' = "flush" /\ todo' = todo /\ edges' = edges
      BY <2>5 DEF Enqueue, graph
    <3>3. Len(todo) > 0
      BY <1>0, <3>2
    <3> QED
      BY <1>0, <1>1, <3>1, <3>2, <3>3
  <2> QED
    BY <2>1, <2>2, <2>3, <2>4, <2>5
<1>8. TypeOK'
  BY <1>1, <1>7, <1>9 DEF PlacesInv, TypeOK
<1> QED
  BY <1>2, <1>5, <1>6, <1>7, <1>8, <1>9 DEF PlacesInv

LEMMA ReplyPlaces ==
    ASSUME PlacesInv, Replying
    PROVE  PlacesInv'
<1>1. UNCHANGED <<backend, vertex, todo, wpc, log, status, attempts, batch, at,
                  applied, overlapped, faults>>
  BY DEF Replying, ReplyComes, ReplyLists, ReplyCloses, ReplyAdds, ReplyReturns,
         graph, writer, outbox, flushes
<1>2. /\ edges \in SUBSET Edge /\ listed \in SUBSET Edge
      /\ meant \in Targets \cup {Node}
  BY DEF PlacesInv, TypeOK
<1>3. /\ ReplyInv' /\ rpc' \in {"idle", "list", "close", "run"}
      /\ listed' \in SUBSET Edge /\ meant' \in Targets \cup {Node}
      /\ edges' \in SUBSET Edge
  <2>1. CASE ReplyComes
    BY <1>1, <1>2, <2>1 DEF ReplyComes, graph, PlacesInv, ReplyInv
  <2>2. CASE ReplyLists
    BY <1>1, <1>2, <2>2 DEF ReplyLists, graph, PlacesInv, ReplyInv
  <2>3. ASSUME NEW e \in listed, ReplyCloses(e)
        PROVE  /\ ReplyInv' /\ rpc' \in {"idle", "list", "close", "run"}
               /\ listed' \in SUBSET Edge /\ meant' \in Targets \cup {Node}
               /\ edges' \in SUBSET Edge
    <3>1. [e EXCEPT !.till = Aside] \in Edge
      BY <1>2 DEF Edge
    <3>2. edges' \subseteq edges \cup {[e EXCEPT !.till = Aside]}
      BY <2>3 DEF ReplyCloses
    <3> QED
      BY <1>1, <1>2, <2>3, <3>1, <3>2 DEF ReplyCloses, PlacesInv, ReplyInv
  <2>4. CASE ReplyAdds
    <3>1. [to |-> meant, from |-> Aside, till |-> Open] \in Edge
      BY <2>4 DEF ReplyAdds, PlacesInv, ReplyInv, Edge
    <3> QED
      BY <1>1, <1>2, <2>4, <3>1 DEF ReplyAdds, PlacesInv, ReplyInv
  <2>5. CASE ReplyReturns
    BY <1>1, <1>2, <2>5 DEF ReplyReturns, graph, PlacesInv, ReplyInv
  <2> QED
    BY <2>1, <2>2, <2>3, <2>4, <2>5 DEF Replying
<1>4. TypeOK'
  BY <1>1, <1>3 DEF PlacesInv, TypeOK
<1>5. QueueInv' /\ WriterInv' /\ FlushInv' /\ AttemptsInv'
  BY <1>1 DEF PlacesInv, QueueInv, WriterInv, FlushInv, AttemptsInv, Spent, Holds,
              Increasing, Item
<1> QED
  BY <1>3, <1>4, <1>5 DEF PlacesInv

LEMMA BeginsPlaces ==
    ASSUME PlacesInv, NEW f \in Flushers, FlushBegins(f)
    PROVE  PlacesInv'
<1> USE GraphAssumption
<1> DEFINE rows == ListPending
<1>1. /\ rows \in Seq(1 .. Len(log)) /\ Increasing(rows)
      /\ \A i \in 1 .. Len(rows) : status[rows[i]] = "pending"
  BY Listed DEF PlacesInv
<1>2. rows \in Seq(Ops) /\ 1 .. Len(log) \subseteq Ops
  <2>1. Len(log) \in Nat /\ 1 .. Len(log) \subseteq Ops
    BY DEF PlacesInv, TypeOK, Ops
  <2> QED
    BY <1>1, <2>1
<1>3. /\ batch' = [batch EXCEPT ![f] = rows]
      /\ at' = [at EXCEPT ![f] = IF rows = <<>> THEN "idle" ELSE "drop"]
      /\ backend = "azure" /\ batch[f] = <<>> /\ (f = "own" => wpc = "flush")
      /\ UNCHANGED <<backend, vertex, edges, log, status, attempts, applied, faults>>
      /\ UNCHANGED <<rpc, listed, meant>>
  BY DEF FlushBegins, graph, outbox, answer
<1> HIDE DEF rows
<1>4. /\ \A g \in Flushers : batch'[g] = IF g = f THEN rows ELSE batch[g]
      /\ \A g \in Flushers :
           at'[g] = IF g # f THEN at[g] ELSE IF rows = <<>> THEN "idle" ELSE "drop"
      /\ batch' \in [Flushers -> Seq(Ops)]
      /\ at' \in [Flushers -> {"idle", "drop", "add", "target", "close", "link",
                               "mark", "fail"}]
  BY <1>2, <1>3 DEF PlacesInv, TypeOK
<1>5. QueueInv'
  <2>1. \A g \in Flushers : batch'[g] \in Seq(1 .. Len(log)) /\ Increasing(batch'[g])
    BY <1>1, <1>4 DEF PlacesInv, QueueInv
  <2> QED
    BY <1>3, <2>1 DEF QueueInv, Increasing
<1>6. \/ f = "own" /\ rows = <<>> /\ wpc' = "next" /\ todo' = Tail(todo)
      \/ (f = "other" \/ rows # <<>>) /\ wpc' = wpc /\ todo' = todo
  BY DEF FlushBegins, writer, rows, Flushers
<1>7. /\ todo \in Seq(Targets \cup {Node}) /\ Len(todo) \in Nat /\ Len(log) \in Nat
      /\ wpc = "flush" => todo # <<>>
  BY DEF PlacesInv, TypeOK, WriterInv
<1>8. todo # <<>> => /\ Tail(todo) \in Seq(Targets \cup {Node})
                     /\ Len(Tail(todo)) = Len(todo) - 1
  BY <1>7
<1>9. WriterInv' /\ todo' \in Seq(Targets \cup {Node})
      /\ wpc' \in {"idle", "next", "add", "flush"}
  <2>1. CASE f = "own" /\ rows = <<>> /\ wpc' = "next" /\ todo' = Tail(todo)
    <3>1. wpc = "flush" /\ batch'["own"] = <<>>
      BY <1>3, <1>4, <2>1
    <3>2. Len(log) + Len(todo) <= MaxOps + 1 /\ todo # <<>>
      BY <3>1 DEF PlacesInv, WriterInv
    <3> QED
      BY <1>3, <1>7, <1>8, <2>1, <3>1, <3>2 DEF WriterInv
  <2>2. CASE (f = "other" \/ rows # <<>>) /\ wpc' = wpc /\ todo' = todo
    <3>1. "own" \in Flushers
      BY DEF Flushers
    <3>2. batch'["own"] # <<>> => wpc = "flush"
      BY <1>3, <1>4, <3>1 DEF PlacesInv, WriterInv
    <3> QED
      BY <1>3, <1>7, <2>2, <3>2 DEF PlacesInv, TypeOK, WriterInv
  <2> QED
    BY <1>6, <2>1, <2>2
<1>10. FlushInv'
  <2>1. \A g \in Flushers : g # f => Item(g)' = Item(g)
    BY <1>3, <1>4 DEF Item
  <2> QED
    BY <1>3, <1>4, <2>1 DEF PlacesInv, FlushInv
<1>11. AttemptsInv'
  <2>1. \A g \in Flushers, o \in Ops :
          Holds(g, o)' => Holds(g, o) \/ status[o] = "pending"
    BY <1>1, <1>4 DEF Holds
  <2>2. \A o \in Ops : attempts[o] \in Nat
    BY DEF PlacesInv, TypeOK
  <2> QED
    BY <1>3, <2>1, <2>2 DEF PlacesInv, AttemptsInv, Spent, Flushers
<1>12. TypeOK'
  <2>1. overlapped' \in BOOLEAN
    BY Zenon DEF FlushBegins
  <2>2. \A g \in Flushers : at'[g] = "idle" <=> batch'[g] = <<>>
    BY <1>4 DEF PlacesInv, TypeOK
  <2> QED
    BY <1>3, <1>4, <1>9, <2>1, <2>2 DEF PlacesInv, TypeOK
<1> QED
  BY <1>3, <1>5, <1>9, <1>10, <1>11, <1>12 DEF PlacesInv, ReplyInv

\* The steps of a flush within a row.
Within(f) ==
    \/ FlushDrop(f) \/ FlushAdd(f) \/ FlushTarget(f)
    \/ FlushClose(f) \/ FlushLink(f)

LEMMA WithinPlaces ==
    ASSUME PlacesInv, NEW f \in Flushers, Within(f)
    PROVE  PlacesInv'
<1>1. /\ UNCHANGED <<backend, todo, wpc, log, status, attempts, batch,
                     overlapped, faults>>
      /\ UNCHANGED <<rpc, listed, meant>>
      /\ at[f] \in {"drop", "add", "target", "close", "link"}
      /\ \E p \in {"add", "target", "close", "link", "mark", "fail"} :
           /\ at' = [at EXCEPT ![f] = p]
           /\ p \in {"target", "close", "link"} => Item(f) # Node
  BY DEF Within, FlushDrop, FlushAdd, FlushTarget, FlushClose, FlushLink, Goes,
       writer, answer, outbox, PlacesInv, FlushInv
<1>2. batch[f] # <<>>
  BY <1>1 DEF PlacesInv, TypeOK
<1>3. PICK p \in {"add", "target", "close", "link", "mark", "fail"} :
           /\ at' = [at EXCEPT ![f] = p]
           /\ p \in {"target", "close", "link"} => Item(f) # Node
  BY <1>1
<1>4. /\ \A g \in Flushers : at'[g] = IF g = f THEN p ELSE at[g]
      /\ at' \in [Flushers -> {"idle", "drop", "add", "target", "close", "link",
                               "mark", "fail"}]
  BY <1>3 DEF PlacesInv, TypeOK
<1>5. Head(batch[f]) \in Ops
  BY <1>2, Rows
<1>6. \A g \in Flushers : Item(g)' = Item(g)
  BY <1>1 DEF Item
<1>7. QueueInv' /\ WriterInv' /\ AttemptsInv'
  BY <1>1 DEF PlacesInv, QueueInv, WriterInv, AttemptsInv, Spent, Holds, Increasing
<1>8. FlushInv'
  BY <1>1, <1>2, <1>3, <1>4, <1>6 DEF PlacesInv, FlushInv
<1>9. edges' \in SUBSET Edge /\ vertex' \in BOOLEAN /\ applied' \in SUBSET Ops
  <2>1. edges \in SUBSET Edge /\ vertex \in BOOLEAN /\ applied \in SUBSET Ops
    BY DEF PlacesInv, TypeOK
  <2>2. CASE FlushDrop(f)
    BY <2>1, <2>2 DEF FlushDrop
  <2>3. CASE FlushAdd(f)
    BY <1>5, <2>1, <2>3 DEF FlushAdd
  <2>4. CASE FlushTarget(f)
    BY <2>1, <2>4 DEF FlushTarget
  <2>5. CASE FlushClose(f)
    <3>1. \A e \in edges : [e EXCEPT !.till = Head(batch[f])] \in Edge
      BY <1>5, <2>1 DEF Edge
    <3>2. edges' \in SUBSET Edge
      BY <2>1, <2>5, <3>1 DEF FlushClose, Closed
    <3> QED
      BY <2>1, <2>5, <3>2 DEF FlushClose
  <2>6. CASE FlushLink(f)
    <3>1. Item(f) \in Targets
      <4>1. Item(f) # Node /\ Item(f) \in Targets \cup {Node}
        BY <1>2, <2>6, Rows DEF FlushLink, Goes, PlacesInv, FlushInv, TypeOK, Item
      <4> QED
        BY <4>1
    <3>2. [to |-> Item(f), from |-> Head(batch[f]), till |-> Open] \in Edge
      BY <1>5, <3>1 DEF Edge
    <3> QED
      BY <1>5, <2>1, <2>6, <3>2 DEF FlushLink
  <2> QED
    BY <1>1, <2>2, <2>3, <2>4, <2>5, <2>6 DEF Within
<1>10. TypeOK'
  <2>1. \A g \in Flushers : at'[g] = "idle" <=> batch'[g] = <<>>
    BY <1>1, <1>2, <1>4 DEF PlacesInv, TypeOK
  <2> QED
    BY <1>1, <1>4, <1>9, <2>1 DEF PlacesInv, TypeOK
<1> QED
  BY <1>1, <1>7, <1>8, <1>10 DEF PlacesInv, ReplyInv

LEMMA EndsPlaces ==
    ASSUME PlacesInv, NEW f \in Flushers, FlushMark(f) \/ FlushFailed(f)
    PROVE  PlacesInv'
<1> USE GraphAssumption
<1> DEFINE o == Head(batch[f])
<1>1. at[f] \in {"mark", "fail"} /\ RowDone(f)
  BY DEF FlushMark, FlushFailed
<1>2. batch[f] # <<>>
  BY <1>1 DEF PlacesInv, TypeOK
<1>3. /\ o \in Ops /\ Holds(f, o)
      /\ Tail(batch[f]) \in Seq(1 .. Len(log)) /\ Increasing(Tail(batch[f]))
  BY <1>2, Rows
<1>4. /\ batch' \in [Flushers -> Seq(Ops)]
      /\ at' \in [Flushers -> {"idle", "drop", "add", "target", "close",
                               "link", "mark", "fail"}]
      /\ \A g \in Flushers :
           /\ batch'[g] = IF g = f THEN Tail(batch[f]) ELSE batch[g]
           /\ at'[g] = IF g # f THEN at[g]
                       ELSE IF Tail(batch[f]) = <<>> THEN "idle" ELSE "drop"
      /\ \/ /\ f = "own" /\ Tail(batch[f]) = <<>>
            /\ wpc' = "next" /\ todo' = Tail(todo)
         \/ /\ f = "other" \/ Tail(batch[f]) # <<>>
            /\ wpc' = wpc /\ todo' = todo
      /\ UNCHANGED <<backend, vertex, edges, log, applied, overlapped, faults>>
      /\ UNCHANGED <<rpc, listed, meant>>
  BY <1>1, <1>2, RowEnds
<1>5. \A g \in Flushers, r \in Ops : Holds(g, r)' =>
        Holds(g, r) /\ ~ (g = f /\ r = o)
  BY <1>1, <1>2, RowEnds
<1>6. status \in [Ops -> {"pending", "done", "failed"}]
      /\ attempts \in [Ops -> 0 .. MaxAttempts + 1]
  BY DEF PlacesInv, TypeOK
<1>7. f = "own" \/ f = "other"
  BY DEF Flushers
<1>8. QueueInv'
  <2>1. \A g \in Flushers : batch'[g] \in Seq(1 .. Len(log)) /\ Increasing(batch'[g])
    BY <1>3, <1>4 DEF PlacesInv, QueueInv
  <2> QED
    BY <1>4, <2>1 DEF QueueInv, Increasing
<1>9. WriterInv' /\ todo' \in Seq(Targets \cup {Node})
      /\ wpc' \in {"idle", "next", "add", "flush"}
  <2>1. /\ todo \in Seq(Targets \cup {Node}) /\ Len(todo) \in Nat /\ Len(log) \in Nat
        /\ wpc = "flush" => todo # <<>>
    BY DEF PlacesInv, TypeOK, WriterInv
  <2>2. todo # <<>> => /\ Tail(todo) \in Seq(Targets \cup {Node})
                       /\ Len(Tail(todo)) = Len(todo) - 1
    BY <2>1
  <2>3. f = "own" => wpc = "flush"
    BY <1>2 DEF PlacesInv, WriterInv
  <2>4. CASE /\ f = "own" /\ Tail(batch[f]) = <<>>
             /\ wpc' = "next" /\ todo' = Tail(todo)
    <3>1. batch'["own"] = <<>>
      BY <1>4, <2>4
    <3>2. Len(log) + Len(todo) <= MaxOps + 1 /\ todo # <<>>
      BY <2>3, <2>4 DEF PlacesInv, WriterInv
    <3> QED
      BY <1>4, <2>1, <2>2, <2>4, <3>1, <3>2 DEF WriterInv
  <2>5. CASE /\ f = "other" \/ Tail(batch[f]) # <<>>
             /\ wpc' = wpc /\ todo' = todo
    <3>1. "own" \in Flushers
      BY DEF Flushers
    <3>2. batch'["own"] # <<>> => wpc = "flush"
      BY <1>2, <1>4, <3>1 DEF PlacesInv, WriterInv
    <3> QED
      BY <1>4, <2>1, <2>5, <3>2 DEF PlacesInv, TypeOK, WriterInv
  <2> QED
    BY <1>4, <2>4, <2>5
<1>10. FlushInv'
  <2>1. \A g \in Flushers : g # f => Item(g)' = Item(g)
    BY <1>4 DEF Item
  <2> QED
    BY <1>2, <1>4, <2>1 DEF PlacesInv, FlushInv
<1>11. /\ AttemptsInv' /\ status' \in [Ops -> {"pending", "done", "failed"}]
       /\ attempts' \in [Ops -> 0 .. MaxAttempts + 1]
  <2>0. PICK k \in Ops : k = Head(batch[f])
    BY <1>3
  <2>1. CASE FlushMark(f)
    <3>1. attempts' = attempts /\ status' = [status EXCEPT ![k] = "done"]
      BY <2>0, <2>1 DEF FlushMark
    <3> QED
      BY <2>0, <1>5, <1>6, <3>1 DEF PlacesInv, AttemptsInv, Spent, Flushers
  <2>2. CASE FlushFailed(f)
    <3>1. /\ attempts' = [attempts EXCEPT ![k] = @ + 1]
          /\ status' = [status EXCEPT ![k] =
               IF attempts'[k] >= MaxAttempts THEN "failed" ELSE "pending"]
      BY <2>0, <2>2 DEF FlushFailed
    <3>2. attempts[k] \in 0 .. MaxAttempts
      BY <1>3, <2>0, <1>6, <1>7 DEF PlacesInv, AttemptsInv, Spent
    <3>3. /\ attempts' \in [Ops -> 0 .. MaxAttempts + 1]
          /\ attempts'[k] = attempts[k] + 1
          /\ \A r \in Ops : r # k => attempts'[r] = attempts[r]
      BY <1>3, <1>6, <3>1, <3>2
    <3>4. /\ status' \in [Ops -> {"pending", "done", "failed"}]
          /\ status'[k] = "pending" => attempts'[k] < MaxAttempts
          /\ \A r \in Ops : r # k => status'[r] = status[r]
      BY <1>3, <1>6, <3>1, <3>3
    <3>5. Spent(k)'
      <4>1. ~ Holds(f, k)' /\ \A g \in Flushers : Holds(g, k)' => Holds(g, k)
        BY <2>0, <1>5
      <4>2. attempts[k] = MaxAttempts => ~ (Holds("own", k) /\ Holds("other", k))
        BY DEF PlacesInv, AttemptsInv, Spent
      <4>3. "own" \in Flushers /\ "other" \in Flushers
        BY DEF Flushers
      <4>4. attempts'[k] > MaxAttempts => attempts[k] = MaxAttempts
        BY <3>2, <3>3
      <4>5. attempts'[k] > MaxAttempts => ~ (Holds("own", k)' \/ Holds("other", k)')
        <5>1. Holds(f, k)
          BY <1>3, <2>0
        <5> QED
          BY <1>7, <4>1, <4>2, <4>3, <4>4, <5>1
      <4>6. ~ (Holds("own", k)' /\ Holds("other", k)')
        BY <1>7, <4>1
      <4> QED
        BY <3>4, <4>5, <4>6 DEF Spent
    <3>6. ASSUME NEW r \in Ops, r # k PROVE Spent(r)'
      <4>1. \A g \in Flushers : Holds(g, r)' => Holds(g, r)
        BY <1>5
      <4>2. status'[r] = status[r] /\ attempts'[r] = attempts[r] /\ Spent(r)
        BY <3>3, <3>4, <3>6 DEF PlacesInv, AttemptsInv
      <4> QED
        BY <4>1, <4>2 DEF Spent, Flushers
    <3>7. AttemptsInv'
      BY <3>5, <3>6, Zenon DEF AttemptsInv
    <3> QED
      BY <3>3, <3>4, <3>7
  <2> QED
    BY <2>1, <2>2
<1>12. TypeOK'
  <2>1. \A g \in Flushers : at'[g] = "idle" <=> batch'[g] = <<>>
    BY <1>4 DEF PlacesInv, TypeOK
  <2> QED
    BY <1>4, <1>9, <1>11, <2>1 DEF PlacesInv, TypeOK
<1> QED
  BY <1>4, <1>8, <1>9, <1>10, <1>11, <1>12 DEF PlacesInv, ReplyInv

LEMMA FaultPlaces ==
    ASSUME PlacesInv, (\E f \in Flushers : CosmosFails(f)) \/ Crash
    PROVE  PlacesInv'
<1> USE GraphAssumption
<1>1. /\ UNCHANGED <<backend, vertex, edges, log, status, attempts, applied,
                     overlapped>>
      /\ faults' \in 0 .. MaxFaults
  BY DEF CosmosFails, Crash, graph, outbox, PlacesInv, TypeOK
<1>2. ASSUME NEW f \in Flushers, CosmosFails(f) PROVE PlacesInv'
  <2>1. /\ at' = [at EXCEPT ![f] = "fail"]
        /\ UNCHANGED <<batch, todo, wpc, rpc, listed, meant>>
        /\ at[f] # "idle"
    BY <1>2 DEF CosmosFails, writer, answer
  <2>2. /\ \A g \in Flushers : at'[g] = IF g = f THEN "fail" ELSE at[g]
        /\ at' \in [Flushers -> {"idle", "drop", "add", "target", "close", "link",
                                 "mark", "fail"}]
    BY <2>1 DEF PlacesInv, TypeOK
  <2>3. \A g \in Flushers : Item(g)' = Item(g)
    BY <1>1, <2>1 DEF Item
  <2>4. QueueInv' /\ WriterInv' /\ AttemptsInv' /\ FlushInv' /\ ReplyInv'
    BY <1>1, <2>1, <2>2, <2>3
       DEF PlacesInv, QueueInv, WriterInv, AttemptsInv, Spent, Holds, Increasing,
           FlushInv, ReplyInv
  <2>5. TypeOK'
    <3>1. \A g \in Flushers : at'[g] = "idle" <=> batch'[g] = <<>>
      BY <2>1, <2>2 DEF PlacesInv, TypeOK
    <3> QED
      BY <1>1, <2>1, <2>2, <3>1 DEF PlacesInv, TypeOK
  <2> QED
    BY <2>4, <2>5 DEF PlacesInv
<1>3. CASE Crash
  <2>1. /\ batch' = [f \in Flushers |-> <<>>] /\ at' = [f \in Flushers |-> "idle"]
        /\ todo' = <<>> /\ wpc' = "idle"
        /\ rpc' = "idle" /\ listed' = {} /\ meant' = Node
    BY <1>3 DEF Crash
  <2>2. \A f \in Flushers : batch'[f] = <<>> /\ at'[f] = "idle"
    BY <2>1
  <2>3. \A S : <<>> \in Seq(S)
    OBVIOUS
  <2>4. QueueInv'
    <3>1. <<>> \in Seq(1 .. Len(log')) /\ Increasing(<<>>)
      BY DEF Increasing
    <3>2. ASSUME NEW f \in Flushers PROVE Increasing(batch'[f])
      BY <2>2, <3>1
    <3> QED
      BY <2>2, <3>1, <3>2 DEF QueueInv, Increasing
  <2>5. WriterInv' /\ FlushInv' /\ ReplyInv'
    BY <2>1, <2>2 DEF WriterInv, FlushInv, ReplyInv, Flushers
  <2>6. AttemptsInv'
    BY <1>1, <2>2 DEF PlacesInv, AttemptsInv, Spent, Holds, Flushers
  <2>7. TypeOK'
    <3>1. batch' \in [Flushers -> Seq(Ops)]
      BY <2>1, <2>3
    <3>2. at' \in [Flushers -> {"idle", "drop", "add", "target", "close", "link",
                                "mark", "fail"}]
      BY <2>1
    <3>3. \A g \in Flushers : at'[g] = "idle" <=> batch'[g] = <<>>
      BY <2>2
    <3>4. todo' \in Seq(Targets \cup {Node})
      BY <2>1, <2>3
    <3> QED
      BY <1>1, <2>1, <3>1, <3>2, <3>3, <3>4 DEF PlacesInv, TypeOK
  <2> QED
    BY <2>4, <2>5, <2>6, <2>7 DEF PlacesInv
<1> QED
  BY <1>2, <1>3

LEMMA NextPlaces ==
    ASSUME PlacesInv, [Next]_vars
    PROVE  PlacesInv'
<1>1. CASE RunWrites \/ RunDone \/ LiteClose \/ LiteAdd \/ Enqueue
  BY <1>1, WriterPlaces
<1>2. ASSUME NEW f \in Flushers, FlushBegins(f) PROVE PlacesInv'
  BY <1>2, BeginsPlaces
<1>3. ASSUME NEW f \in Flushers, Within(f) PROVE PlacesInv'
  BY <1>3, WithinPlaces
<1>4. ASSUME NEW f \in Flushers, FlushMark(f) \/ FlushFailed(f) PROVE PlacesInv'
  BY <1>4, EndsPlaces
<1>5. CASE (\E f \in Flushers : CosmosFails(f)) \/ Crash
  BY <1>5, FaultPlaces
<1>6. CASE UNCHANGED vars
  <2>1. UNCHANGED <<backend, vertex, edges, todo, wpc, rpc, listed, meant, log,
                    status, attempts, batch, at, applied, overlapped, faults>>
    BY <1>6 DEF vars, graph, writer, answer, outbox, flushes
  <2> QED
    BY <2>1 DEF PlacesInv, TypeOK, QueueInv, WriterInv, FlushInv, AttemptsInv,
         ReplyInv, Spent, Holds, Increasing, Item
<1>7. CASE Replying
  BY <1>7, ReplyPlaces
<1> QED
  BY <1>1, <1>2, <1>3, <1>4, <1>5, <1>6, <1>7 DEF Next, Within

(***************************************************************************)
(* TypeOK of GraphOutbox.  It says that a row is never tried more than     *)
(* once after it was given up, which is why AttemptsInv is needed for it.  *)
(***************************************************************************)
THEOREM OutboxTyping == Spec => []TypeOK
<1>1. PlacesInv => TypeOK
  BY DEF PlacesInv
<1> QED
  BY InitialPlaces, NextPlaces, <1>1, PTL DEF Spec

-----------------------------------------------------------------------------
(* What the outbox calls done                                               *)

\* What is done, or about to be called so, was carried out; as long as no two
\* flushes have met, one flush is at work and its rows are pending.
RowsInv ==
    /\ \A o \in Ops : status[o] = "done" => o \in applied
    /\ \A f \in Flushers : at[f] = "mark" => Head(batch[f]) \in applied
    /\ ~ overlapped =>
         /\ \A f, g \in Flushers : batch[f] # <<>> /\ batch[g] # <<>> => f = g
         /\ \A f \in Flushers, o \in Ops : Holds(f, o) => status[o] = "pending"

LEMMA WriterStill ==
    ASSUME RunWrites \/ RunDone \/ LiteClose \/ LiteAdd \/ Enqueue
    PROVE  UNCHANGED <<backend, vertex, status, attempts, batch, at, applied,
                       overlapped, faults>>
BY DEF RunWrites, RunDone, LiteClose, LiteAdd, Enqueue, graph, outbox, flushes

LEMMA ReplyStill ==
    ASSUME Replying
    PROVE  UNCHANGED <<backend, vertex, todo, wpc, log, status, attempts, batch, at,
                       applied, overlapped, faults>>
BY DEF Replying, ReplyComes, ReplyLists, ReplyCloses, ReplyAdds, ReplyReturns,
       graph, writer, outbox, flushes

LEMMA FlushStill ==
    ASSUME PlacesInv, NEW f \in Flushers, Within(f)
    PROVE  /\ UNCHANGED <<backend, todo, wpc, log, status, attempts, batch,
                          overlapped, faults>>
           /\ batch[f] # <<>> /\ Head(batch[f]) \in Ops /\ backend = "azure"
           /\ \A g \in Flushers : g # f => at'[g] = at[g]
           /\ applied \subseteq applied'
           /\ at'[f] = "mark" => Head(batch[f]) \in applied'
<1>1. /\ UNCHANGED <<backend, todo, wpc, log, status, attempts, batch,
                     overlapped, faults>>
      /\ at[f] # "idle"
      /\ \E p \in {"add", "target", "close", "link", "mark", "fail"} :
           at' = [at EXCEPT ![f] = p]
  BY DEF Within, FlushDrop, FlushAdd, FlushTarget, FlushClose, FlushLink, Goes,
       writer, outbox
<1>2. batch[f] # <<>>
  BY <1>1 DEF PlacesInv, TypeOK
<1>3. DOMAIN at = Flushers
  BY DEF PlacesInv, TypeOK
<1>4. /\ applied \subseteq applied'
      /\ at'[f] = "mark" => Head(batch[f]) \in applied'
  BY <1>3 DEF Within, FlushDrop, FlushAdd, FlushTarget, FlushClose, FlushLink, Goes
<1>5. Head(batch[f]) \in Ops /\ backend = "azure"
  BY <1>2, Rows DEF PlacesInv, FlushInv
<1> QED
  BY <1>1, <1>2, <1>3, <1>4, <1>5

\* The rows that a flush lists, and whether it meets another.
LEMMA BeginsWith ==
    ASSUME PlacesInv, NEW f \in Flushers, FlushBegins(f)
    PROVE  /\ UNCHANGED <<backend, vertex, edges, log, status, attempts, applied,
                          faults>>
           /\ backend = "azure" /\ batch[f] = <<>>
           /\ \A g \in Flushers :
                /\ batch'[g] = IF g = f THEN ListPending ELSE batch[g]
                /\ at'[g] = IF g # f THEN at[g]
                            ELSE IF ListPending = <<>> THEN "idle" ELSE "drop"
           /\ \A o \in Ops : Holds(f, o)' => status[o] = "pending"
           /\ \A g \in Flushers : g # f => \A o \in Ops : Holds(g, o)' <=> Holds(g, o)
           /\ ~ overlapped' => ~ overlapped /\ \A g \in Flushers :
                                  g # f => batch[g] = <<>>
           /\ \/ f = "own" /\ ListPending = <<>> /\ wpc' = "next"
              \/ (f = "other" => ListPending # <<>>) /\ wpc' = wpc
                   /\ (f = "own" => ListPending # <<>>) /\ todo' = todo
           /\ f = "own" => wpc = "flush"
<1>1. /\ UNCHANGED <<backend, vertex, edges, log, status, attempts, applied, faults>>
      /\ backend = "azure" /\ batch[f] = <<>> /\ (f = "own" => wpc = "flush")
      /\ batch' = [batch EXCEPT ![f] = ListPending]
      /\ at' = [at EXCEPT ![f] = IF ListPending = <<>> THEN "idle" ELSE "drop"]
  BY DEF FlushBegins, graph, outbox
<1>2. DOMAIN batch = Flushers /\ DOMAIN at = Flushers
  BY DEF PlacesInv, TypeOK
<1>3. \A g \in Flushers :
        /\ batch'[g] = IF g = f THEN ListPending ELSE batch[g]
        /\ at'[g] = IF g # f THEN at[g]
                    ELSE IF ListPending = <<>> THEN "idle" ELSE "drop"
  BY <1>1, <1>2
<1>4. \A i \in 1 .. Len(ListPending) : status[ListPending[i]] = "pending"
  BY Listed DEF PlacesInv
<1>5. \A o \in Ops : Holds(f, o)' => status[o] = "pending"
  <2>1. batch'[f] = ListPending
    BY <1>3
  <2> QED
    BY <1>4, <2>1 DEF Holds
<1>6. \A g \in Flushers : g # f => \A o \in Ops : Holds(g, o)' <=> Holds(g, o)
  BY <1>3 DEF Holds
<1>7. ~ overlapped' => ~ overlapped /\ \A g \in Flushers : g # f => batch[g] = <<>>
  BY Zenon DEF FlushBegins
<1>8. \/ f = "own" /\ ListPending = <<>> /\ wpc' = "next"
      \/ (f = "other" => ListPending # <<>>) /\ wpc' = wpc
           /\ (f = "own" => ListPending # <<>>) /\ todo' = todo
  BY DEF FlushBegins, writer
<1> QED
  BY <1>1, <1>3, <1>5, <1>6, <1>7, <1>8

\* What a row's end writes into the table.
LEMMA EndsWith ==
    ASSUME PlacesInv, NEW f \in Flushers, FlushMark(f) \/ FlushFailed(f)
    PROVE  /\ batch[f] # <<>> /\ RowDone(f)
           /\ Head(batch[f]) \in Ops
           /\ \A o \in Ops : o # Head(batch[f]) => status'[o] = status[o]
           /\ at[f] = "mark" => status'[Head(batch[f])] = "done"
           /\ at[f] = "fail" => status'[Head(batch[f])] # "done"
           /\ at[f] \in {"mark", "fail"}
<1>1. at[f] \in {"mark", "fail"} /\ RowDone(f)
  BY DEF FlushMark, FlushFailed
<1>2. batch[f] # <<>>
  BY <1>1 DEF PlacesInv, TypeOK
<1>3. PICK k \in Ops : k = Head(batch[f])
  BY <1>2, Rows
<1>4. status \in [Ops -> {"pending", "done", "failed"}]
  BY DEF PlacesInv, TypeOK
<1>5. /\ \A o \in Ops : o # k => status'[o] = status[o]
      /\ at[f] = "mark" => status'[k] = "done"
      /\ at[f] = "fail" => status'[k] # "done"
  BY <1>3, <1>4 DEF FlushMark, FlushFailed
<1> QED
  BY <1>1, <1>2, <1>3, <1>5

LEMMA InitialRows == Init => RowsInv
<1> SUFFICES ASSUME Init PROVE RowsInv
  OBVIOUS
<1>1. \A f \in Flushers : batch[f] = <<>> /\ at[f] = "idle"
  BY DEF Init
<1>2. \A o \in Ops : status[o] = "pending"
  BY DEF Init
<1> QED
  BY <1>1, <1>2 DEF RowsInv, Holds

LEMMA NextRows ==
    ASSUME PlacesInv, RowsInv, [Next]_vars
    PROVE  RowsInv'
<1>1. CASE UNCHANGED <<status, batch, at, applied, overlapped>>
  BY <1>1 DEF RowsInv, Holds
<1>2. ASSUME NEW f \in Flushers, FlushBegins(f) PROVE RowsInv'
  <2>1. \A o \in Ops : status'[o] = "done" => o \in applied'
    BY <1>2, BeginsWith DEF RowsInv
  <2>2. \A g \in Flushers : at'[g] = "mark" => Head(batch'[g]) \in applied'
    BY <1>2, BeginsWith DEF RowsInv
  <2>3. ASSUME ~ overlapped'
        PROVE  /\ \A g, h \in Flushers : batch'[g] # <<>> /\ batch'[h] # <<>> => g = h
               /\ \A g \in Flushers, o \in Ops : Holds(g, o)' => status'[o] = "pending"
    BY <1>2, <2>3, BeginsWith DEF RowsInv
  <2> QED
    BY <2>1, <2>2, <2>3 DEF RowsInv
<1>3. ASSUME NEW f \in Flushers, Within(f) PROVE RowsInv'
  <2>1. \A g \in Flushers : at'[g] = "mark" => Head(batch'[g]) \in applied'
    BY <1>3, FlushStill DEF RowsInv
  <2>2. UNCHANGED <<status, batch, overlapped>> /\ applied \subseteq applied'
    BY <1>3, FlushStill
  <2> QED
    BY <2>1, <2>2 DEF RowsInv, Holds
<1>4. ASSUME NEW f \in Flushers, FlushMark(f) \/ FlushFailed(f) PROVE RowsInv'
  <2>1. PICK k \in Ops : k = Head(batch[f])
    BY <1>4, EndsWith
  <2>2. /\ batch[f] # <<>> /\ at[f] \in {"mark", "fail"}
        /\ \A o \in Ops : o # k => status'[o] = status[o]
        /\ at[f] = "mark" => status'[k] = "done"
        /\ at[f] = "fail" => status'[k] # "done"
    BY <1>4, <2>1, EndsWith
  <2>3. /\ UNCHANGED <<applied, overlapped>>
        /\ \A g \in Flushers :
             /\ g # f => batch'[g] = batch[g] /\ at'[g] = at[g]
             /\ at'[f] \in {"idle", "drop"}
             /\ batch'[g] # <<>> => batch[g] # <<>>
        /\ \A g \in Flushers, o \in Ops : Holds(g, o)' =>
             Holds(g, o) /\ ~ (g = f /\ o = k)
    BY <1>4, <2>1, EndsWith, RowEnds
  <2>4. \A o \in Ops : status'[o] = "done" => o \in applied'
    BY <2>1, <2>2, <2>3 DEF RowsInv
  <2>5. \A g \in Flushers : at'[g] = "mark" => Head(batch'[g]) \in applied'
    BY <2>3 DEF RowsInv
  <2>6. ASSUME ~ overlapped'
        PROVE  /\ \A g, h \in Flushers : batch'[g] # <<>> /\ batch'[h] # <<>> => g = h
               /\ \A g \in Flushers, o \in Ops : Holds(g, o)' => status'[o] = "pending"
    <3>1. ~ overlapped
      BY <2>3, <2>6
    <3>2. \A g, h \in Flushers : batch'[g] # <<>> /\ batch'[h] # <<>> => g = h
      BY <2>3, <3>1 DEF RowsInv
    <3>3. ASSUME NEW g \in Flushers, NEW o \in Ops, Holds(g, o)'
          PROVE  status'[o] = "pending"
      <4>1. Holds(g, o) /\ status[o] = "pending" /\ ~ (g = f /\ o = k)
        BY <2>3, <3>1, <3>3 DEF RowsInv
      <4>2. batch[g] # <<>>
        BY <4>1 DEF Holds
      <4>3. g = f
        BY <2>2, <3>1, <4>2 DEF RowsInv
      <4> QED
        BY <2>2, <4>1, <4>3
    <3> QED
      BY <3>2, <3>3
  <2> QED
    BY <2>4, <2>5, <2>6 DEF RowsInv
<1>5. ASSUME NEW f \in Flushers, CosmosFails(f) PROVE RowsInv'
  <2>1. /\ UNCHANGED <<status, batch, applied, overlapped>>
        /\ at' = [at EXCEPT ![f] = "fail"]
    BY <1>5 DEF CosmosFails, outbox
  <2>2. \A g \in Flushers : at'[g] = "mark" => at[g] = "mark"
    BY <2>1 DEF PlacesInv, TypeOK
  <2> QED
    BY <2>1, <2>2 DEF RowsInv, Holds
<1>6. CASE Crash
  <2>1. UNCHANGED <<status, applied, overlapped>>
    BY <1>6 DEF Crash, outbox
  <2>2. \A f \in Flushers : batch'[f] = <<>> /\ at'[f] = "idle"
    BY <1>6 DEF Crash
  <2> QED
    BY <2>1, <2>2 DEF RowsInv, Holds
<1>7. CASE RunWrites \/ RunDone \/ LiteClose \/ LiteAdd \/ Enqueue
  BY <1>1, <1>7, WriterStill
<1>8. CASE UNCHANGED vars
  BY <1>1, <1>8 DEF vars, outbox, flushes
<1>9. CASE Replying
  BY <1>1, <1>9, ReplyStill
<1> QED
  BY <1>2, <1>3, <1>4, <1>5, <1>6, <1>7, <1>8, <1>9 DEF Next, Within

(***************************************************************************)
(* DoneIsDone, for every limit, number of attempts and of faults: a row is *)
(* called done only when a flush has carried it out, and only two flushes  *)
(* that overlapped can take that back.                                     *)
(***************************************************************************)
THEOREM DoneStays == Spec => DoneIsDone
<1> DEFINE Step ==
        \A o \in Ops :
         /\ status'[o] = "done" => o \in applied
         /\ (status[o] = "done" /\ status'[o] # "done") => overlapped
<1>1. ASSUME PlacesInv, RowsInv, [Next]_vars PROVE [Step]_vars
  <2>1. CASE status' = status
    BY <1>1, <2>1 DEF RowsInv
  <2>2. ASSUME NEW f \in Flushers, FlushMark(f) \/ FlushFailed(f) PROVE Step
    <3>1. PICK k \in Ops : k = Head(batch[f])
      BY <1>1, <2>2, EndsWith
    <3>2. /\ batch[f] # <<>> /\ at[f] \in {"mark", "fail"}
          /\ \A o \in Ops : o # k => status'[o] = status[o]
          /\ at[f] = "mark" => status'[k] = "done"
          /\ at[f] = "fail" => status'[k] # "done"
      BY <1>1, <2>2, <3>1, EndsWith
    <3>3. Holds(f, k)
      BY <1>1, <3>1, <3>2, Rows
    <3> QED
      BY <1>1, <3>1, <3>2, <3>3 DEF RowsInv
  <2>3. CASE RunWrites \/ RunDone \/ LiteClose \/ LiteAdd \/ Enqueue
    BY <2>1, <2>3, WriterStill
  <2>4. ASSUME NEW f \in Flushers, FlushBegins(f) \/ Within(f) \/ CosmosFails(f)
        PROVE  status' = status
    BY <1>1, <2>4, BeginsWith, FlushStill DEF CosmosFails, outbox
  <2>5. CASE Crash
    BY <2>1, <2>5 DEF Crash, outbox
  <2>6. CASE UNCHANGED vars
    BY <2>6
  <2>7. CASE Replying
    BY <2>1, <2>7, ReplyStill
  <2> QED
    BY <1>1, <2>1, <2>2, <2>3, <2>4, <2>5, <2>6, <2>7 DEF Next, Within
<1> QED
  BY InitialPlaces, NextPlaces, InitialRows, NextRows, <1>1,
     PTL DEF Spec, DoneIsDone

-----------------------------------------------------------------------------
(* The current edges                                                        *)

\* No edge of the relationship is current, but for those of replies.
Free(rel) == \A e \in edges : e.till = Open /\ e.from # Aside => RelOf[e.to] # rel

Single ==
    \A d, e \in edges : Twins(d, e) => d.from = Aside \/ e.from = Aside

\* A reply adds commitments only.
Promises ==
    /\ \A e \in edges : e.from = Aside => RelOf[e.to] = Promised
    /\ rpc # "idle" => RelOf[meant] = Promised

\* Whoever is about to add an edge has closed those that it supersedes.
EdgesInv ==
    /\ Promises
    /\ ~ overlapped => Single
    /\ wpc = "add" => Free(RelOf[Head(todo)])
    /\ ~ overlapped => \A f \in Flushers : at[f] = "link" => Free(RelOf[Item(f)])

LEMMA ClosedAre ==
    ASSUME edges \in SUBSET Edge, NEW rel, NEW o \in Ops
    PROVE  \A e \in Closed(edges, rel, o) :
             e.till = Open => e \in edges /\ RelOf[e.to] # rel
<1>1. o # Open
  BY GraphAssumption DEF Ops, Open
<1>2. ASSUME NEW x \in edges PROVE [x EXCEPT !.till = o].till = o
  BY DEF Edge
<1> QED
  BY <1>1, <1>2 DEF Closed

\* What replies added stays known as theirs, whoever writes next.
LEMMA PromisesStay ==
    ASSUME PlacesInv, Promises, UNCHANGED <<rpc, meant>> \/ rpc' = "idle",
           \A e \in edges' : e.from = Aside => \E d \in edges : d.from = Aside /\ d.to = e.to
    PROVE  Promises'
BY DEF Promises

LEMMA PromisesKept ==
    ASSUME PlacesInv, Promises, [Next]_vars
    PROVE  Promises'
<1>0. edges \in SUBSET Edge /\ ~ (Aside \in Ops)
  BY DEF PlacesInv, TypeOK, Ops, Aside
<1>1. UNCHANGED <<rpc, meant>> \/ rpc' = "idle" \/ Replying
  BY DEF Next, RunWrites, RunDone, LiteClose, LiteAdd, Enqueue, FlushBegins, FlushDrop,
         FlushAdd, FlushTarget, FlushClose, FlushLink, Goes, FlushMark, FlushFailed,
         RowDone, CosmosFails, Crash, vars, answer
<1>2. CASE edges' \subseteq edges /\ ~ Replying
  BY <1>1, <1>2, PromisesStay
<1>3. ASSUME NEW rel, NEW o, edges' = Closed(edges, rel, o), ~ Replying
      PROVE  Promises'
  <2>1. \A e \in edges : /\ [e EXCEPT !.till = o].from = e.from
                        /\ [e EXCEPT !.till = o].to = e.to
    BY <1>0 DEF Edge
  <2>2. \A e \in edges' : \E d \in edges : d.from = e.from /\ d.to = e.to
    BY <1>3, <2>1 DEF Closed
  <2> QED
    BY <1>1, <1>3, <2>2, PromisesStay
<1>4. ASSUME NEW new, new.from \in Ops, edges' \subseteq edges \cup {new}, ~ Replying
      PROVE  Promises'
  BY <1>0, <1>1, <1>4, PromisesStay
<1>5. CASE Replying
  <2>1. CASE ReplyComes
    BY <2>1 DEF ReplyComes, Promises, graph
  <2>2. CASE ReplyLists
    BY <2>2 DEF ReplyLists, Promises, graph
  <2>3. ASSUME NEW e \in listed, ReplyCloses(e) PROVE Promises'
    <3>1. [e EXCEPT !.till = Aside].from = e.from /\ [e EXCEPT !.till = Aside].to = e.to
      BY DEF PlacesInv, TypeOK, Edge
    <3>2. \A d \in edges' : d \in edges \/ (e \in edges /\ d.from = e.from /\ d.to = e.to)
      BY <2>3, <3>1 DEF ReplyCloses
    <3> QED
      BY <2>3, <3>2 DEF ReplyCloses, Promises
  <2>4. CASE ReplyAdds
    BY <2>4 DEF ReplyAdds, Promises
  <2>5. CASE ReplyReturns
    BY <2>5 DEF ReplyReturns, Promises, graph
  <2> QED
    BY <1>5, <2>1, <2>2, <2>3, <2>4, <2>5 DEF Replying
<1>6. CASE LiteClose
  BY <1>2, <1>3, <1>5, <1>6 DEF LiteClose
<1>7. CASE LiteAdd
  <2> DEFINE new == [to |-> Head(todo), from |-> Len(log), till |-> Open]
  <2>1. Len(log) \in Ops
    BY <1>7 DEF LiteAdd, PlacesInv, TypeOK, WriterInv, Ops
  <2>2. new.from \in Ops /\ edges' \subseteq edges \cup {new}
    BY <1>7, <2>1 DEF LiteAdd
  <2> HIDE DEF new
  <2> QED
    BY <1>4, <1>5, <2>2
<1>8. ASSUME NEW f \in Flushers, Within(f) PROVE Promises'
  <2>1. Head(batch[f]) \in Ops
    BY <1>8, FlushStill
  <2>2. CASE FlushDrop(f) \/ FlushAdd(f) \/ FlushTarget(f)
    BY <1>2, <1>5, <2>2 DEF FlushDrop, FlushAdd, FlushTarget
  <2>3. CASE FlushClose(f)
    BY <1>3, <1>5, <2>3 DEF FlushClose
  <2>4. CASE FlushLink(f)
    <3> DEFINE new == [to |-> Item(f), from |-> Head(batch[f]), till |-> Open]
    <3>1. new.from \in Ops /\ edges' \subseteq edges \cup {new}
      BY <2>1, <2>4 DEF FlushLink
    <3> HIDE DEF new
    <3> QED
      BY <1>4, <1>5, <3>1
  <2> QED
    BY <1>8, <2>2, <2>3, <2>4 DEF Within
<1>9. ASSUME NEW f \in Flushers,
             FlushBegins(f) \/ FlushMark(f) \/ FlushFailed(f) \/ CosmosFails(f)
      PROVE  edges' = edges
  BY <1>9 DEF FlushBegins, FlushMark, FlushFailed, RowDone, CosmosFails, graph
<1>10. CASE RunWrites \/ RunDone \/ Enqueue \/ Crash \/ UNCHANGED vars
  <2>1. edges' = edges
    BY <1>10 DEF RunWrites, RunDone, Enqueue, Crash, vars, graph
  <2> QED
    BY <1>2, <1>5, <2>1
<1> QED
  BY <1>2, <1>5, <1>6, <1>7, <1>8, <1>9, <1>10 DEF Next, Within

\* While no two have met, a flush at work is the only one.
LEMMA OthersIdle ==
    ASSUME PlacesInv, RowsInv, ~ overlapped, NEW f \in Flushers, batch[f] # <<>>
    PROVE  \A g \in Flushers : g # f => at[g] = "idle" /\ batch[g] = <<>>
BY DEF PlacesInv, TypeOK, RowsInv

LEMMA InitialEdges == Init => EdgesInv
BY DEF Init, EdgesInv, Single, Free, Promises, Twins

LEMMA WriterEdges ==
    ASSUME PlacesInv, EdgesInv,
           RunWrites \/ RunDone \/ LiteClose \/ LiteAdd \/ Enqueue
    PROVE  EdgesInv'
<1> USE DEF Twins
<1>0. UNCHANGED <<backend, batch, at, overlapped>> /\ Promises'
  BY WriterStill, PromisesKept DEF EdgesInv, Next
<1>1. backend = "sqlite" => \A f \in Flushers : at[f] # "link"
  BY DEF PlacesInv, FlushInv, TypeOK
<1>2. CASE LiteClose
  <2>1. backend = "sqlite" /\ todo # <<>>
    BY <1>2 DEF LiteClose
  <2>2. CASE Head(todo) = Node
    BY <1>0, <1>1, <1>2, <2>1, <2>2 DEF LiteClose, EdgesInv, Single
  <2>3. CASE Head(todo) # Node
    <3>1. /\ edges' = Closed(edges, RelOf[Head(todo)], Len(log'))
          /\ wpc' = "add" /\ todo' = todo
      BY <1>2, <2>3 DEF LiteClose
    <3>2. Len(log') \in Ops
      <4>1. PlacesInv'
        BY <1>2, WriterPlaces
      <4>2. Len(log') \in Nat /\ Len(log') <= MaxOps /\ log' # <<>>
        BY <3>1, <4>1 DEF PlacesInv, TypeOK, WriterInv
      <4>3. log' \in Seq(Targets \cup {Node})
        BY <4>1 DEF PlacesInv, TypeOK
      <4> QED
        BY <4>2, <4>3 DEF Ops
    <3>3. \A e \in edges' : e.till = Open => e \in edges /\ RelOf[e.to] # RelOf[Head(todo)]
      BY <3>1, <3>2, ClosedAre DEF PlacesInv, TypeOK
    <3>4. Free(RelOf[Head(todo)])'
      BY <3>1, <3>3 DEF Free
    <3>5. ~ overlapped' => Single'
      BY <1>0, <3>3 DEF EdgesInv, Single
    <3> QED
      BY <1>0, <1>1, <2>1, <3>1, <3>4, <3>5 DEF EdgesInv
  <2> QED
    BY <2>2, <2>3
<1>3. CASE LiteAdd
  <2>1. /\ wpc = "add" /\ wpc' = "next"
        /\ edges' = edges \cup {[to |-> Head(todo), from |-> Len(log), till |-> Open]}
    BY <1>3 DEF LiteAdd
  <2>2. backend = "sqlite"
    BY <2>1 DEF PlacesInv, WriterInv
  <2>3. Free(RelOf[Head(todo)])
    BY <2>1 DEF EdgesInv
  <2>4. ~ overlapped' => Single'
    BY <1>0, <2>1, <2>3 DEF EdgesInv, Single, Free
  <2> QED
    BY <1>0, <1>1, <2>1, <2>2, <2>4 DEF EdgesInv
<1>4. CASE RunWrites \/ RunDone \/ Enqueue
  <2>1. edges' = edges /\ wpc' # "add" /\ wpc # "add"
    BY <1>4 DEF RunWrites, RunDone, Enqueue, graph
  <2>2. \A f \in Flushers : at[f] = "link" => Item(f)' = Item(f)
    <3>1. CASE log' = log
      BY <1>0, <3>1 DEF Item
    <3>2. CASE Enqueue
      <4>1. Head(todo) \in Targets \cup {Node} /\ log' = Append(log, Head(todo))
        BY <3>2 DEF Enqueue, PlacesInv, TypeOK
      <4>2. \A f \in Flushers : at[f] = "link" => batch[f] # <<>>
        BY DEF PlacesInv, TypeOK
      <4> QED
        BY <1>0, <4>1, <4>2, LogKeeps DEF flushes
    <3> QED
      BY <1>4, <3>1, <3>2 DEF RunWrites, RunDone, outbox
  <2> QED
    BY <1>0, <2>1, <2>2 DEF EdgesInv, Single, Free
<1> QED
  BY <1>2, <1>3, <1>4

LEMMA ReplyEdges ==
    ASSUME PlacesInv, EdgesInv, Replying
    PROVE  EdgesInv'
<1>1. UNCHANGED <<backend, todo, wpc, log, batch, at, overlapped>> /\ Promises'
  BY ReplyStill, PromisesKept DEF EdgesInv, Next
<1>2. \A e \in edges' : e.till = Open /\ e.from # Aside => e \in edges
  <2>1. CASE edges' = edges
    BY <2>1
  <2>2. ASSUME NEW e \in listed, ReplyCloses(e)
        PROVE  \A d \in edges' : d.till = Open /\ d.from # Aside => d \in edges
    <3>1. [e EXCEPT !.till = Aside].till # Open
      BY GraphAssumption DEF PlacesInv, TypeOK, Edge, Aside, Open
    <3> QED
      BY <2>2, <3>1 DEF ReplyCloses
  <2>3. CASE ReplyAdds
    BY <2>3 DEF ReplyAdds
  <2> QED
    BY <2>1, <2>2, <2>3 DEF Replying, ReplyComes, ReplyLists, ReplyReturns, graph
<1>3. ~ overlapped' => Single'
  BY <1>1, <1>2 DEF EdgesInv, Single, Twins
<1>4. \A f \in Flushers : Item(f)' = Item(f)
  BY <1>1 DEF Item
<1> QED
  BY <1>1, <1>2, <1>3, <1>4 DEF EdgesInv, Free

LEMMA WithinEdges ==
    ASSUME PlacesInv, RowsInv, EdgesInv, NEW f \in Flushers, Within(f)
    PROVE  EdgesInv'
<1> USE DEF Twins
<1>1. /\ UNCHANGED <<todo, wpc, log, batch, overlapped>>
      /\ batch[f] # <<>> /\ Head(batch[f]) \in Ops /\ backend = "azure"
      /\ \A g \in Flushers : g # f => at'[g] = at[g]
      /\ Promises'
  BY FlushStill, PromisesKept DEF EdgesInv, Within, Next
<1>2. wpc # "add"
  BY <1>1 DEF PlacesInv, WriterInv
<1>3. CASE overlapped
  BY <1>1, <1>2, <1>3 DEF EdgesInv
<1>4. CASE ~ overlapped
  <2>1. \A g \in Flushers : g # f => at'[g] = "idle"
    BY <1>1, <1>4, OthersIdle
  <2>2. edges \in SUBSET Edge /\ DOMAIN at = Flushers /\ Single
    BY <1>4 DEF PlacesInv, TypeOK, EdgesInv
  <2>3. CASE FlushDrop(f) \/ FlushAdd(f) \/ FlushTarget(f)
    <3>1. edges' \subseteq edges /\ at'[f] # "link"
      BY <2>2, <2>3 DEF FlushDrop, FlushAdd, FlushTarget, Goes
    <3>2. Single'
      BY <2>2, <3>1 DEF Single
    <3> QED
      BY <1>1, <1>2, <2>1, <3>1, <3>2 DEF EdgesInv
  <2>4. CASE FlushClose(f)
    <3>1. edges' = Closed(edges, RelOf[Item(f)], Head(batch[f]))
      BY <2>4 DEF FlushClose
    <3>2. \A e \in edges' : e.till = Open => e \in edges /\ RelOf[e.to] # RelOf[Item(f)]
      BY <1>1, <2>2, <3>1, ClosedAre
    <3>3. Single'
      BY <2>2, <3>2 DEF Single
    <3>4. Item(f)' = Item(f)
      BY <1>1 DEF Item
    <3>5. Free(RelOf[Item(f)])'
      BY <3>2, <3>4 DEF Free
    <3> QED
      BY <1>1, <1>2, <2>1, <3>3, <3>5 DEF EdgesInv
  <2>5. CASE FlushLink(f)
    <3>1. at[f] = "link" /\ at'[f] # "link"
      BY <2>2, <2>5 DEF FlushLink, Goes
    <3>2. \A e \in edges' : \/ e \in edges
                            \/ e = [to |-> Item(f), from |-> Head(batch[f]), till |-> Open]
      BY <2>5 DEF FlushLink
    <3>3. Free(RelOf[Item(f)])
      BY <1>4, <3>1 DEF EdgesInv
    <3>4. Single'
      BY <2>2, <3>2, <3>3 DEF Single, Free
    <3> QED
      BY <1>1, <1>2, <2>1, <3>1, <3>4 DEF EdgesInv
  <2> QED
    BY <2>3, <2>4, <2>5 DEF Within
<1> QED
  BY <1>3, <1>4

LEMMA NextEdges ==
    ASSUME PlacesInv, RowsInv, EdgesInv, [Next]_vars
    PROVE  EdgesInv'
<1> USE DEF Twins
<1>0. Promises'
  BY PromisesKept DEF EdgesInv
<1>1. CASE RunWrites \/ RunDone \/ LiteClose \/ LiteAdd \/ Enqueue
  BY <1>1, WriterEdges
<1>2. ASSUME NEW f \in Flushers, Within(f) PROVE EdgesInv'
  BY <1>2, WithinEdges
<1>3. ASSUME NEW f \in Flushers, FlushBegins(f) PROVE EdgesInv'
  <2>1. /\ UNCHANGED <<edges, log>> /\ backend = "azure"
        /\ wpc' = "next" \/ wpc' = wpc
        /\ ~ overlapped' => ~ overlapped
        /\ \A g \in Flushers : at'[g] = "link" => at[g] = "link" /\ batch'[g] = batch[g]
    BY <1>3, BeginsWith
  <2>2. wpc' # "add"
    BY <2>1 DEF PlacesInv, WriterInv
  <2>3. \A g \in Flushers : at'[g] = "link" => Item(g)' = Item(g)
    BY <2>1 DEF Item
  <2> QED
    BY <1>0, <2>1, <2>2, <2>3 DEF EdgesInv, Single, Free
<1>4. ASSUME NEW f \in Flushers, FlushMark(f) \/ FlushFailed(f) PROVE EdgesInv'
  <2>1. batch[f] # <<>> /\ RowDone(f)
    BY <1>4, EndsWith
  <2>2. /\ UNCHANGED <<edges, log, overlapped>>
        /\ wpc' = "next" \/ wpc' = wpc
        /\ \A g \in Flushers : at'[g] = "link" => at[g] = "link" /\ batch'[g] = batch[g]
    BY <2>1, RowEnds
  <2>3. wpc # "add"
    BY <2>1 DEF PlacesInv, WriterInv, FlushInv
  <2>4. \A g \in Flushers : at'[g] = "link" => Item(g)' = Item(g)
    BY <2>2 DEF Item
  <2> QED
    BY <1>0, <2>2, <2>3, <2>4 DEF EdgesInv, Single, Free
<1>5. ASSUME NEW f \in Flushers, CosmosFails(f) PROVE EdgesInv'
  <2>1. /\ UNCHANGED <<edges, log, batch, overlapped, wpc, todo>>
        /\ at' = [at EXCEPT ![f] = "fail"]
    BY <1>5 DEF CosmosFails, outbox, graph, writer
  <2>2. \A g \in Flushers : at'[g] = "link" => at[g] = "link" /\ Item(g)' = Item(g)
    BY <2>1 DEF PlacesInv, TypeOK, Item
  <2> QED
    BY <1>0, <2>1, <2>2 DEF EdgesInv, Single, Free
<1>6. CASE Crash
  <2>1. UNCHANGED <<edges, overlapped>> /\ wpc' = "idle"
        /\ \A f \in Flushers : at'[f] = "idle"
    BY <1>6 DEF Crash, graph
  <2> QED
    BY <1>0, <2>1 DEF EdgesInv, Single
<1>7. CASE UNCHANGED vars
  <2>1. UNCHANGED <<edges, log, batch, at, overlapped, wpc, todo>>
    BY <1>7 DEF vars, graph, writer, outbox, flushes
  <2> QED
    BY <1>0, <2>1 DEF EdgesInv, Single, Free, Item
<1>8. CASE Replying
  BY <1>8, ReplyEdges
<1> QED
  BY <1>1, <1>2, <1>3, <1>4, <1>5, <1>6, <1>7, <1>8 DEF Next, Within

(***************************************************************************)
(* OneCurrent, in either store, whatever fails half-way and whatever a     *)
(* reply does meanwhile, for all the targets an invoice may have.          *)
(***************************************************************************)
THEOREM OneIsCurrent == Spec => []OneCurrent
<1>1. EdgesInv => OneCurrent
  <2> SUFFICES ASSUME EdgesInv, ~ overlapped, NEW d \in edges, NEW e \in edges,
                      Twins(d, e)
               PROVE  (d.from = Aside \/ e.from = Aside) /\ RelOf[d.to] = Promised
    BY DEF OneCurrent
  <2>1. d.from = Aside \/ e.from = Aside
    BY DEF EdgesInv, Single
  <2>2. RelOf[d.to] = RelOf[e.to]
    BY DEF Twins
  <2> QED
    BY <2>1, <2>2 DEF EdgesInv, Promises
<1> QED
  BY InitialPlaces, NextPlaces, InitialRows, NextRows, InitialEdges, NextEdges,
     <1>1, PTL DEF Spec

-----------------------------------------------------------------------------
(* What a run wrote last                                                    *)

Shown ==
    \E e \in edges :
        /\ e.to = Last(log) /\ e.from = Len(log)
        /\ e.till = Open \/ (e.till = Aside /\ RelOf[e.to] = Blocked)

\* If the last operation is an edge, it is current or what a reply has closed.
Settled == log # <<>> /\ Last(log) # Node => Shown

Unwritten == \A o \in Ops : o > Len(log) => status[o] = "pending"

LiteNewest ==
    (backend = "sqlite" /\ wpc \in {"idle", "next"} /\ faults = 0) => Settled

Quiet == backend = "azure" /\ faults = 0 /\ ~ overlapped

\* A flush that nothing disturbs has the last row only, and where it is says
\* what the graph holds.
Works(f) ==
    /\ wpc = "flush" /\ batch[f] = <<Len(log)>> /\ at[f] # "fail"
    /\ at[f] = "add" => vertex = FALSE /\ edges = {}
    /\ at[f] \in {"target", "close", "link"} => vertex = TRUE /\ edges = {}
    /\ at[f] = "mark" => Settled

\* All rows are done but, while the run waits for its flush, the last.
CosmosNewest ==
    /\ \A o \in Ops : o < Len(log) => status[o] = "done"
    /\ wpc = "flush" => status[Len(log)] \in {"pending", "done"}
    /\ wpc # "flush" /\ log # <<>> => status[Len(log)] = "done"
    /\ log # <<>> /\ status[Len(log)] = "done" => Settled
    /\ \A f \in Flushers : batch[f] # <<>> => Works(f)

NewestInv == Unwritten /\ LiteNewest /\ (Quiet => CosmosNewest)

LEMMA InitialNewest == Init => NewestInv
<1> SUFFICES ASSUME Init PROVE NewestInv
  OBVIOUS
<1>1. log = <<>> /\ Len(log) = 0 /\ wpc = "idle"
      /\ \A f \in Flushers : batch[f] = <<>>
  BY DEF Init
<1>2. \A o \in Ops : status[o] = "pending" /\ ~ (o < 0)
  BY DEF Init, Ops
<1> QED
  BY <1>1, <1>2 DEF NewestInv, Unwritten, LiteNewest, CosmosNewest, Settled

\* The last row is the only one that such a flush can list.
LEMMA OnlyLast ==
    ASSUME PlacesInv, \A o \in Ops : o < Len(log) => status[o] = "done"
    PROVE  /\ log = <<>> => ListPending = <<>>
           /\ log # <<>> =>
                ListPending = IF status[Len(log)] = "pending" THEN <<Len(log)>> ELSE <<>>
<1> DEFINE n == Len(log)
           l == ListPending
<1>1. /\ l \in Seq(1 .. n) /\ Increasing(l)
      /\ \A i \in 1 .. Len(l) : status[l[i]] = "pending"
      /\ Len(l) < Limit =>
           \A o \in 1 .. n : status[o] = "pending" => \E i \in 1 .. Len(l) : l[i] = o
  BY Listed DEF PlacesInv
<1>2. /\ n \in Nat /\ n <= MaxOps /\ Limit \in Nat /\ Limit > 0 /\ MaxOps \in Nat
      /\ log = <<>> <=> n = 0
  BY GraphAssumption DEF PlacesInv, TypeOK
<1>3. \A o \in Ops : o < n => status[o] # "pending"
  OBVIOUS
<1> HIDE DEF n, l
<1>4. /\ Len(l) \in Nat
      /\ \A i \in 1 .. Len(l) : l[i] \in 1 .. n /\ status[l[i]] = "pending"
  <2>1. l \in Seq(1 .. n) /\ \A i \in 1 .. Len(l) : status[l[i]] = "pending"
    BY <1>1
  <2>2. Len(l) \in Nat /\ \A i \in 1 .. Len(l) : l[i] \in 1 .. n
    BY <1>2, <2>1
  <2> QED
    BY <2>1, <2>2
<1>5. \A i \in 1 .. Len(l) : l[i] = n
  BY <1>2, <1>3, <1>4 DEF Ops
<1>6. Len(l) \in {0, 1}
  <2>1. CASE Len(l) > 1
    <3>1. 1 \in 1 .. Len(l) /\ 2 \in 1 .. Len(l) /\ n \in Nat
      BY <1>2, <1>4, <2>1
    <3>2. l[1] < l[2] /\ l[1] = n /\ l[2] = n
      BY <1>1, <1>5, <3>1 DEF Increasing
    <3> QED
      BY <3>1, <3>2
  <2>2. Len(l) \in Nat
    BY <1>4
  <2> QED
    BY <2>1, <2>2
<1>7. CASE l = <<>>
  <2>1. n # 0 => status[n] # "pending"
    BY <1>1, <1>2, <1>7
  <2> QED
    BY <1>2, <1>7, <2>1 DEF n, l
<1>8. CASE l # <<>>
  <2>1. Len(l) = 1
    BY <1>1, <1>6, <1>8
  <2>2. l = <<n>> /\ status[n] = "pending" /\ n # 0
    BY <1>1, <1>2, <1>4, <1>5, <2>1
  <2> QED
    BY <1>2, <2>2 DEF n, l
<1> QED
  BY <1>7, <1>8

LEMMA LiteNewestStep ==
    ASSUME PlacesInv, NewestInv, LiteClose \/ LiteAdd
    PROVE  NewestInv'
<1>1. /\ UNCHANGED <<backend, status, faults>> /\ log \in Seq(Targets \cup {Node})
      /\ Len(log) \in Nat
  BY WriterStill DEF PlacesInv, TypeOK
<1>2. backend = "sqlite"
  BY DEF LiteClose, LiteAdd, PlacesInv, WriterInv
<1>3. CASE LiteClose
  <2>1. /\ log' = Append(log, Head(todo)) /\ Head(todo) \in Targets \cup {Node}
        /\ Head(todo) # Node => wpc' = "add"
    BY <1>3 DEF LiteClose, PlacesInv, TypeOK
  <2>2. Last(log') = Head(todo) /\ Len(log') = Len(log) + 1
    BY <1>1, <2>1 DEF Last
  <2>3. Unwritten'
    BY <1>1, <2>2 DEF NewestInv, Unwritten, Ops
  <2>4. LiteNewest'
    BY <2>1, <2>2 DEF LiteNewest, Settled
  <2> QED
    BY <1>1, <1>2, <2>3, <2>4 DEF NewestInv, Quiet
<1>4. CASE LiteAdd
  <2>1. /\ log' = log /\ wpc = "add"
        /\ edges' = edges \cup {[to |-> Head(todo), from |-> Len(log), till |-> Open]}
    BY <1>4 DEF LiteAdd, outbox
  <2>2. Last(log) = Head(todo)
    BY <2>1 DEF PlacesInv, WriterInv
  <2>3. Shown'
    <3> DEFINE new == [to |-> Head(todo), from |-> Len(log), till |-> Open]
    <3>1. new.to = Head(todo) /\ new.from = Len(log) /\ new.till = Open
      OBVIOUS
    <3>2. new \in edges' /\ Last(log') = Head(todo) /\ Len(log') = Len(log)
      BY <2>1, <2>2
    <3> HIDE DEF new
    <3> QED
      BY <3>1, <3>2 DEF Shown
  <2> QED
    BY <1>1, <1>2, <2>1, <2>3 DEF NewestInv, Unwritten, LiteNewest, Settled, Quiet
<1> QED
  BY <1>3, <1>4

LEMMA ReplyNewest ==
    ASSUME PlacesInv, NewestInv, Replying
    PROVE  NewestInv'
<1>1. UNCHANGED <<backend, todo, wpc, log, status, batch, at, overlapped, faults>>
  BY ReplyStill
<1>2. backend = "sqlite"
  BY DEF Replying, ReplyComes, ReplyLists, ReplyCloses, ReplyAdds, ReplyReturns,
         PlacesInv, ReplyInv
<1>3. Shown => Shown'
  <2> SUFFICES ASSUME NEW x \in edges, x.to = Last(log), x.from = Len(log),
                      x.till = Open \/ (x.till = Aside /\ RelOf[x.to] = Blocked)
               PROVE  Shown'
    BY DEF Shown
  <2>1. CASE x \in edges'
    BY <1>1, <2>1 DEF Shown
  <2>2. ASSUME NEW e \in listed, ReplyCloses(e), x \notin edges' PROVE Shown'
    <3>1. e = x /\ [e EXCEPT !.till = Aside] \in edges'
      BY <2>2 DEF ReplyCloses
    <3>2. RelOf[e.to] = Blocked /\ e \in Edge
      BY DEF PlacesInv, TypeOK, ReplyInv
    <3> DEFINE y == [e EXCEPT !.till = Aside]
    <3>3. y.to = e.to /\ y.from = e.from /\ y.till = Aside
      BY <3>2 DEF Edge
    <3>4. y \in edges'
      BY <3>1
    <3> HIDE DEF y
    <3> QED
      BY <1>1, <3>1, <3>2, <3>3, <3>4 DEF Shown
  <2> QED
    BY <2>1, <2>2 DEF Replying, ReplyComes, ReplyLists, ReplyAdds, ReplyReturns, graph
<1>4. Settled => Settled'
  BY <1>1, <1>3 DEF Settled
<1> QED
  BY <1>1, <1>2, <1>4 DEF NewestInv, Unwritten, LiteNewest, Quiet

LEMMA CosmosWriterStep ==
    ASSUME PlacesInv, NewestInv, RunWrites \/ RunDone \/ Enqueue
    PROVE  NewestInv'
<1>1. /\ UNCHANGED <<backend, vertex, status, batch, at, overlapped, faults>>
      /\ edges' = edges /\ log \in Seq(Targets \cup {Node}) /\ Len(log) \in Nat
      /\ Len(log) <= MaxOps /\ MaxOps \in Nat
  <2>1. UNCHANGED <<backend, vertex, status, batch, at, overlapped, faults>>
    BY WriterStill
  <2>2. edges' = edges
    BY DEF RunWrites, RunDone, Enqueue, graph
  <2>3. log \in Seq(Targets \cup {Node}) /\ Len(log) <= MaxOps /\ MaxOps \in Nat
    BY GraphAssumption DEF PlacesInv, TypeOK
  <2> QED
    BY <2>1, <2>2, <2>3
<1>2. CASE RunWrites \/ RunDone
  <2>1. log' = log /\ wpc \in {"idle", "next"} /\ wpc' \in {"idle", "next"}
    BY <1>2 DEF RunWrites, RunDone, outbox
  <2>2. Settled' = Settled /\ Quiet' = Quiet /\ Unwritten'
    BY <1>1, <2>1 DEF Settled, Shown, Quiet, NewestInv, Unwritten
  <2>3. Quiet => CosmosNewest'
    BY <1>1, <2>1, <2>2 DEF NewestInv, CosmosNewest, Works
  <2> QED
    BY <1>1, <2>1, <2>2, <2>3 DEF NewestInv, LiteNewest
<1>3. CASE Enqueue
  <2>1. /\ backend = "azure" /\ wpc = "next" /\ wpc' = "flush" /\ todo # <<>>
        /\ log' = Append(log, Head(todo)) /\ Head(todo) \in Targets \cup {Node}
    BY <1>3 DEF Enqueue, PlacesInv, TypeOK
  <2>2. Len(log') = Len(log) + 1 /\ log' # <<>> /\ (log = <<>> => Len(log) = 0)
        /\ Len(log) + Len(todo) <= MaxOps /\ Len(todo) \in Nat \ {0}
    BY <1>1, <2>1 DEF PlacesInv, WriterInv, TypeOK
  <2>3. Len(log') \in Ops /\ status[Len(log')] = "pending" /\ Unwritten'
    BY <1>1, <2>2 DEF NewestInv, Unwritten, Ops
  <2>4. ASSUME Quiet PROVE CosmosNewest'
    <3>1. /\ \A o \in Ops : o < Len(log) => status[o] = "done"
          /\ log # <<>> => status[Len(log)] = "done"
          /\ \A f \in Flushers : batch[f] = <<>>
      BY <2>1, <2>4 DEF NewestInv, CosmosNewest, Works
    <3>2. \A o \in Ops : o < Len(log') => o < Len(log) \/ (o = Len(log) /\ log # <<>>)
      BY <1>1, <2>2 DEF Ops
    <3> QED
      BY <1>1, <2>1, <2>2, <2>3, <3>1, <3>2 DEF CosmosNewest
  <2> QED
    BY <1>1, <2>1, <2>3, <2>4 DEF NewestInv, LiteNewest, Quiet
<1> QED
  BY <1>2, <1>3

LEMMA WithinNewest ==
    ASSUME PlacesInv, RowsInv, NewestInv, NEW f \in Flushers, Within(f)
    PROVE  NewestInv'
<1>1. /\ UNCHANGED <<backend, todo, wpc, log, status, batch, overlapped, faults>>
      /\ batch[f] # <<>> /\ backend = "azure"
      /\ \A g \in Flushers : g # f => at'[g] = at[g]
  BY FlushStill
<1>2. Unwritten' /\ LiteNewest' /\ Quiet' = Quiet
  BY <1>1 DEF NewestInv, Unwritten, LiteNewest, Quiet
<1>3. ASSUME Quiet PROVE CosmosNewest'
  <2>1. CosmosNewest /\ Works(f) /\ ~ overlapped
    BY <1>1, <1>3 DEF NewestInv, CosmosNewest, Quiet
  <2>2. PICK n : n = Len(log) /\ batch[f] = <<n>> /\ Head(batch[f]) = n
    BY <2>1 DEF Works
  <2>3. n \in Ops /\ status[n] = "pending" /\ log # <<>> /\ Last(log) = Item(f)
    <3>1. n \in Ops /\ Holds(f, n) /\ n \in 1 .. Len(log)
      BY <1>1, <2>2, Rows
    <3>2. log # <<>> /\ Last(log) = log[n]
      BY <2>2, <3>1 DEF Last, PlacesInv, TypeOK
    <3> QED
      BY <2>1, <2>2, <3>1, <3>2 DEF RowsInv, Item
  <2>4. \A g \in Flushers : batch[g] # <<>> => g = f
    BY <1>1, <2>1 DEF RowsInv
  <2>5. DOMAIN at = Flushers
    BY DEF PlacesInv, TypeOK
  <2>6. Works(f)'
    <3>1. wpc' = "flush" /\ batch'[f] = <<Len(log')>>
      BY <1>1, <2>1 DEF Works
    <3>2. CASE FlushDrop(f)
      BY <2>5, <3>1, <3>2 DEF FlushDrop, Goes, Works
    <3>3. CASE FlushAdd(f)
      <4>1. vertex = FALSE /\ edges = {}
        BY <2>1, <3>3 DEF FlushAdd, Works
      <4>2. /\ vertex' = TRUE /\ edges' = {}
            /\ at'[f] = IF Item(f) = Node THEN "mark" ELSE "target"
        BY <2>5, <3>3, <4>1 DEF FlushAdd, Goes
      <4>3. Item(f) = Node => Settled'
        BY <1>1, <2>3 DEF Settled
      <4> QED
        BY <3>1, <4>2, <4>3 DEF Works
    <3>4. CASE FlushTarget(f)
      <4>1. vertex = TRUE /\ edges = {}
        BY <2>1, <3>4 DEF FlushTarget, Goes, Works
      <4>2. vertex' = TRUE /\ edges' = {} /\ at'[f] = "close"
        BY <2>5, <3>4, <4>1 DEF FlushTarget, Goes
      <4> QED
        BY <3>1, <4>2 DEF Works
    <3>5. CASE FlushClose(f)
      <4>1. vertex = TRUE /\ edges = {}
        BY <2>1, <3>5 DEF FlushClose, Goes, Works
      <4>2. vertex' = TRUE /\ edges' = {} /\ at'[f] = "link"
        BY <2>5, <3>5, <4>1 DEF FlushClose, Goes, Closed
      <4> QED
        BY <3>1, <4>2 DEF Works
    <3>6. CASE FlushLink(f)
      <4>1. vertex = TRUE /\ edges = {}
        BY <2>1, <3>6 DEF FlushLink, Goes, Works
      <4>2. edges' = {[to |-> Item(f), from |-> n, till |-> Open]} /\ at'[f] = "mark"
        BY <2>2, <2>5, <3>6, <4>1 DEF FlushLink, Goes
      <4>3. Shown'
        BY <1>1, <2>2, <2>3, <4>2 DEF Shown
      <4> QED
        BY <3>1, <4>2, <4>3 DEF Works, Settled
    <3> QED
      BY <3>2, <3>3, <3>4, <3>5, <3>6 DEF Within
  <2> QED
    BY <1>1, <2>1, <2>2, <2>3, <2>4, <2>6 DEF CosmosNewest, Works
<1> QED
  BY <1>2, <1>3 DEF NewestInv

LEMMA BeginsNewest ==
    ASSUME PlacesInv, NewestInv, NEW f \in Flushers, FlushBegins(f)
    PROVE  NewestInv'
<1>1. /\ UNCHANGED <<backend, vertex, edges, log, status, faults>>
      /\ backend = "azure" /\ batch[f] = <<>>
      /\ \A g \in Flushers :
           /\ batch'[g] = IF g = f THEN ListPending ELSE batch[g]
           /\ at'[g] = IF g # f THEN at[g]
                       ELSE IF ListPending = <<>> THEN "idle" ELSE "drop"
      /\ ~ overlapped' => ~ overlapped /\ \A g \in Flushers : g # f => batch[g] = <<>>
      /\ \/ f = "own" /\ ListPending = <<>> /\ wpc' = "next"
         \/ ListPending # <<>> /\ wpc' = wpc
      /\ f = "own" => wpc = "flush"
  <2>1. f = "own" \/ f = "other"
    BY DEF Flushers
  <2> QED
    BY <2>1, BeginsWith
<1>2. Unwritten' /\ LiteNewest' /\ Settled' = Settled
  BY <1>1 DEF NewestInv, Unwritten, LiteNewest, Settled, Shown
<1>3. ASSUME Quiet' PROVE CosmosNewest'
  <2>1. Quiet /\ CosmosNewest /\ \A g \in Flushers : batch[g] = <<>>
    BY <1>1, <1>3 DEF Quiet, NewestInv
  <2>2. /\ log = <<>> => ListPending = <<>>
        /\ log # <<>> =>
             ListPending = IF status[Len(log)] = "pending" THEN <<Len(log)>> ELSE <<>>
    BY <2>1, OnlyLast DEF CosmosNewest
  <2>3. CASE ListPending = <<>>
    <3>1. f = "own" /\ wpc = "flush" /\ wpc' = "next"
          /\ \A g \in Flushers : batch'[g] = <<>>
      BY <1>1, <2>1, <2>3
    <3>2. status[Len(log)] \in {"pending", "done"} /\ log # <<>>
      BY <2>1, <3>1 DEF CosmosNewest, PlacesInv, WriterInv
    <3>3. status[Len(log)] = "done"
      BY <2>2, <2>3, <3>2
    <3> QED
      BY <1>1, <1>2, <2>1, <3>1, <3>3 DEF CosmosNewest
  <2>4. CASE ListPending # <<>>
    <3>1. ListPending = <<Len(log)>> /\ log # <<>> /\ status[Len(log)] = "pending"
      BY <2>2, <2>4
    <3>2. wpc = "flush" /\ wpc' = "flush"
      BY <1>1, <2>1, <2>4, <3>1 DEF CosmosNewest
    <3>3. \A g \in Flushers : batch'[g] # <<>> =>
            batch'[g] = <<Len(log)>> /\ at'[g] = "drop"
      BY <1>1, <2>1, <3>1
    <3> QED
      BY <1>1, <1>2, <2>1, <3>1, <3>2, <3>3 DEF CosmosNewest, Works
  <2> QED
    BY <2>3, <2>4
<1> QED
  BY <1>2, <1>3 DEF NewestInv

LEMMA EndsNewest ==
    ASSUME PlacesInv, RowsInv, NewestInv, NEW f \in Flushers,
           FlushMark(f) \/ FlushFailed(f)
    PROVE  NewestInv'
<1>1. PICK k \in Ops : k = Head(batch[f])
  BY EndsWith
<1>2. /\ batch[f] # <<>> /\ RowDone(f) /\ at[f] \in {"mark", "fail"}
      /\ \A o \in Ops : o # k => status'[o] = status[o]
      /\ at[f] = "mark" => status'[k] = "done"
  BY <1>1, EndsWith
<1>3. /\ UNCHANGED <<backend, edges, log, overlapped, faults>>
      /\ \A g \in Flushers : batch'[g] = IF g = f THEN Tail(batch[f]) ELSE batch[g]
      /\ \/ wpc' = "next" \/ wpc' = wpc
      /\ f = "own" /\ Tail(batch[f]) = <<>> => wpc' = "next"
      /\ f # "own" => wpc' = wpc
  BY <1>2, RowEnds
<1>4. k \in 1 .. Len(log) /\ Len(log) \in Nat /\ backend = "azure"
  BY <1>1, <1>2, Rows DEF PlacesInv, TypeOK, FlushInv
<1>5. Unwritten' /\ LiteNewest' /\ Quiet' = Quiet /\ Settled' = Settled
  BY <1>2, <1>3, <1>4 DEF NewestInv, Unwritten, LiteNewest, Quiet, Settled, Shown, Ops
<1>6. ASSUME Quiet PROVE CosmosNewest'
  <2>1. CosmosNewest /\ Works(f) /\ ~ overlapped
    BY <1>2, <1>6 DEF NewestInv, CosmosNewest, Quiet
  <2>2. /\ batch[f] = <<Len(log)>> /\ k = Len(log) /\ Tail(batch[f]) = <<>>
        /\ at[f] = "mark" /\ Settled
    BY <1>1, <1>2, <2>1 DEF Works
  <2>3. status'[Len(log)] = "done"
    BY <1>2, <2>2
  <2>4. \A g \in Flushers : batch'[g] = <<>>
    BY <1>2, <1>3, <2>1, <2>2 DEF RowsInv
  <2>5. \A o \in Ops : o < Len(log) => status'[o] = "done"
    BY <1>2, <2>1, <2>2 DEF CosmosNewest, Ops
  <2> QED
    BY <1>3, <1>5, <2>2, <2>3, <2>4, <2>5 DEF CosmosNewest
<1> QED
  BY <1>5, <1>6 DEF NewestInv

LEMMA FaultNewest ==
    ASSUME PlacesInv, NewestInv, Crash \/ \E f \in Flushers : CosmosFails(f)
    PROVE  NewestInv'
<1>1. faults' = faults + 1 /\ faults \in Nat /\ log' = log /\ status' = status
  BY GraphAssumption DEF Crash, CosmosFails, outbox, PlacesInv, TypeOK
<1>2. faults' # 0
  BY <1>1
<1> QED
  BY <1>1, <1>2 DEF NewestInv, Unwritten, LiteNewest, Quiet

LEMMA NextNewest ==
    ASSUME PlacesInv, RowsInv, NewestInv, [Next]_vars
    PROVE  NewestInv'
<1>1. CASE LiteClose \/ LiteAdd
  BY <1>1, LiteNewestStep
<1>2. CASE RunWrites \/ RunDone \/ Enqueue
  BY <1>2, CosmosWriterStep
<1>3. ASSUME NEW f \in Flushers, Within(f) PROVE NewestInv'
  BY <1>3, WithinNewest
<1>4. ASSUME NEW f \in Flushers, FlushBegins(f) PROVE NewestInv'
  BY <1>4, BeginsNewest
<1>5. ASSUME NEW f \in Flushers, FlushMark(f) \/ FlushFailed(f) PROVE NewestInv'
  BY <1>5, EndsNewest
<1>6. CASE Crash \/ \E f \in Flushers : CosmosFails(f)
  BY <1>6, FaultNewest
<1>7. CASE UNCHANGED vars
  <2>1. /\ UNCHANGED <<backend, vertex, edges, wpc, log, status, batch, at>>
        /\ UNCHANGED <<overlapped, faults>>
    BY <1>7 DEF vars, graph, writer, outbox, flushes
  <2> QED
    BY <2>1 DEF NewestInv, Unwritten, LiteNewest, Quiet, CosmosNewest, Works,
                Settled, Shown
<1>8. CASE Replying
  BY <1>8, ReplyNewest
<1> QED
  BY <1>1, <1>2, <1>3, <1>4, <1>5, <1>6, <1>7, <1>8 DEF Next, Within

(***************************************************************************)
(* NewestIsShown, for every limit, in either store: when nothing failed    *)
(* and no flush met another, the edge a run wrote last is current when it  *)
(* has ended, or a blocker that a reply has closed.                        *)
(***************************************************************************)
THEOREM NewestShows == Spec => []NewestIsShown
<1>1. PlacesInv /\ NewestInv => NewestIsShown
  <2> SUFFICES ASSUME PlacesInv, NewestInv, wpc = "idle", log # <<>>,
                      Last(log) # Node, faults = 0, ~ overlapped
               PROVE  Shown
    BY DEF NewestIsShown, Shown
  <2>1. backend \in {"sqlite", "azure"}
    BY DEF PlacesInv, TypeOK
  <2> QED
    BY <2>1 DEF NewestInv, LiteNewest, Quiet, CosmosNewest, Settled
<1> QED
  BY InitialPlaces, NextPlaces, InitialRows, NextRows, InitialNewest, NextNewest,
     <1>1, PTL DEF Spec
=============================================================================
