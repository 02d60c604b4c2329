---------------------------- MODULE GraphOutbox ----------------------------
(***************************************************************************)
(* The temporal graph of one invoice: what it is blocked by and what was   *)
(* promised for it, each relationship an edge that the next one supersedes *)
(* (traced_loop.py, step graph.write).  The deployment keeps it in SQLite  *)
(* (src/app/services/graph_store.py) or in Cosmos, by way of an outbox in  *)
(* Postgres (src/app/outcome_agent/azure/outbox.py, cosmos_gremlin.py).    *)
(*                                                                         *)
(* The runs of one case take turns, by its lock; a reply that promises a   *)
(* date writes the graph before it (memory/temporal_graph.py), at any time *)
(* of a run, and by calls that the facade over Cosmos does not have: only  *)
(* SQLite sees them.  The outbox has one table for all cases: the runs of  *)
(* the others flush it too.                                                *)
(***************************************************************************)
EXTENDS Naturals, FiniteSets, SequencesExt

CONSTANTS
    Targets,      \* the commitments and the blockers: the ends of the edges
    RelOf,        \* RelOf[t]: INVOICE_HAS_COMMITMENT or INVOICE_BLOCKED_BY
    Runs,         \* the sequences of targets a run may write
    MaxAttempts,  \* failing attempts before a row is given up
    Limit,        \* list_pending_outbox(limit)
    MaxOps,       \* bound on the operations written
    MaxFaults     \* bound on failing calls and on crashes

ASSUME GraphAssumption ==
    /\ Runs \subseteq Seq(Targets)
    /\ MaxAttempts \in Nat \ {0} /\ Limit \in Nat \ {0}
    /\ MaxOps \in Nat /\ MaxFaults \in Nat

Ops == 1 .. MaxOps       \* an operation is its place in the log, and its time
Open == MaxOps + 1       \* valid_to IS NULL
Aside == 0               \* a reply's time: it is none of the run's operations
Node == "node"           \* upsert_node of the invoice; else, a target's edge
Flushers == {"own", "other"}
Promised == "INVOICE_HAS_COMMITMENT"
Blocked == "INVOICE_BLOCKED_BY"

VARIABLES
    backend,     \* OUTCOME_STORE_BACKEND
    vertex,      \* the invoice has its vertex (Cosmos)
    edges,       \* the edges that leave it
    \* the run that writes: what is left of it
    todo, wpc,
    \* the reply that promises a date: the blocking edges it has listed, and
    \* its commitment
    rpc, listed, meant,
    \* the outbox: its rows, in the order of created_at
    log, status, attempts,
    \* the flushes: the rows each has listed, and where it is with the first
    batch, at,
    \* history, for the properties only
    applied,     \* rows some flush carried out to the end
    overlapped,  \* two flushes have been under way at once
    faults

graph == <<vertex, edges>>
writer == <<todo, wpc>>
answer == <<rpc, listed, meant>>
outbox == <<log, status, attempts>>
flushes == <<batch, at>>
vars == <<backend, graph, writer, answer, outbox, flushes, applied, overlapped, faults>>

Edge == [to : Targets, from : Ops \cup {Aside}, till : Ops \cup {Open, Aside}]

TypeOK ==
    /\ backend \in {"sqlite", "azure"}
    /\ vertex \in BOOLEAN /\ edges \in SUBSET Edge
    /\ todo \in Seq(Targets \cup {Node})
    /\ wpc \in {"idle", "next", "add", "flush"}
    /\ rpc \in {"idle", "list", "close", "run"}
    /\ listed \in SUBSET Edge /\ meant \in Targets \cup {Node}
    /\ log \in Seq(Targets \cup {Node}) /\ Len(log) <= MaxOps
    /\ status \in [Ops -> {"pending", "done", "failed"}]
    /\ attempts \in [Ops -> 0 .. MaxAttempts + 1]
    /\ batch \in [Flushers -> Seq(Ops)]
    /\ at \in [Flushers -> {"idle", "drop", "add", "target", "close", "link",
                            "mark", "fail"}]
    /\ \A f \in Flushers : at[f] = "idle" <=> batch[f] = <<>>
    /\ applied \in SUBSET Ops
    /\ overlapped \in BOOLEAN /\ faults \in 0 .. MaxFaults

Init ==
    /\ backend \in {"sqlite", "azure"}
    /\ vertex = FALSE /\ edges = {}
    /\ todo = <<>> /\ wpc = "idle"
    /\ rpc = "idle" /\ listed = {} /\ meant = Node
    /\ log = <<>>
    /\ status = [o \in Ops |-> "pending"]
    /\ attempts = [o \in Ops |-> 0]
    /\ batch = [f \in Flushers |-> <<>>]
    /\ at = [f \in Flushers |-> "idle"]
    /\ applied = {}
    /\ overlapped = FALSE /\ faults = 0

-----------------------------------------------------------------------------
(* A run writes: the invoice's node, then its active commitments and its    *)
(* open blockers, one after another.  The run of a reply writes what the    *)
(* reply has promised.                                                      *)

RunWrites ==
    /\ wpc = "idle"
    /\ \E ts \in Runs :
         /\ Len(log) + Len(ts) < MaxOps
         /\ todo' = <<Node>> \o ts
         /\ \/ UNCHANGED answer
            \/ /\ rpc = "run" /\ Contains(ts, meant)
               /\ rpc' = "idle" /\ meant' = Node /\ UNCHANGED listed
    /\ wpc' = "next"
    /\ UNCHANGED <<backend, graph, outbox, flushes, applied, overlapped, faults>>

RunDone ==
    /\ wpc = "next" /\ todo = <<>>
    /\ wpc' = "idle"
    /\ UNCHANGED <<backend, todo, graph, answer, outbox, flushes, applied,
                   overlapped, faults>>

\* Seeded defect: every edge of the invoice is closed, but the relationship's.
Closed_Others(E, rel, o) ==
    {IF RelOf[e.to] # rel /\ e.till = Open THEN [e EXCEPT !.till = o] ELSE e :
        e \in E}

Closed(E, rel, o) ==
    {IF RelOf[e.to] = rel /\ e.till = Open THEN [e EXCEPT !.till = o] ELSE e :
        e \in E}

\* SQLite: supersede_edge closes the old edges of the relationship in one
\* transaction and adds the new one in another; a node changes no edge.
LiteClose ==
    /\ backend = "sqlite" /\ wpc = "next" /\ todo # <<>>
    /\ log' = Append(log, Head(todo))
    /\ IF Head(todo) = Node
       THEN todo' = Tail(todo) /\ UNCHANGED <<wpc, edges>>
       ELSE /\ edges' = Closed(edges, RelOf[Head(todo)], Len(log'))
            /\ wpc' = "add"
            /\ UNCHANGED todo
    /\ UNCHANGED <<backend, vertex, answer, status, attempts, flushes, applied,
                   overlapped, faults>>

LiteAdd ==
    /\ wpc = "add"
    /\ edges' = edges \cup
         {[to |-> Head(todo), from |-> Len(log), till |-> Open]}
    /\ todo' = Tail(todo) /\ wpc' = "next"
    /\ UNCHANGED <<backend, vertex, answer, outbox, flushes, applied, overlapped,
                   faults>>

\* Azure: enqueue_graph, and the call goes on to flush the outbox.
Enqueue ==
    /\ backend = "azure" /\ wpc = "next" /\ todo # <<>>
    /\ log' = Append(log, Head(todo))
    /\ wpc' = "flush"
    /\ UNCHANGED <<backend, todo, graph, answer, status, attempts, flushes,
                   applied, overlapped, faults>>

-----------------------------------------------------------------------------
(* A reply with a date, to a case that has open blockers: for each of them, *)
(* supersede_blocker_with_commitment closes every blocking edge and adds an *)
(* edge to the new commitment, in transactions of their own.                *)

ReplyComes ==
    /\ backend = "sqlite" /\ rpc = "idle"
    /\ \E t \in Targets :
         /\ RelOf[t] = Promised /\ \A e \in edges : e.to # t
         /\ meant' = t
    /\ rpc' = "list"
    /\ UNCHANGED <<backend, graph, writer, listed, outbox, flushes, applied,
                   overlapped, faults>>

ReplyLists ==
    /\ rpc = "list"
    /\ rpc' = "close"
    /\ listed' = {e \in edges : RelOf[e.to] = Blocked /\ e.till = Open}
    /\ UNCHANGED <<backend, graph, writer, meant, outbox, flushes, applied,
                   overlapped, faults>>

\* close_edge, by the edge's id: what a run has closed meanwhile stays as it is.
ReplyCloses(e) ==
    /\ rpc = "close" /\ e \in listed
    /\ listed' = listed \ {e}
    /\ edges' = IF e \in edges THEN (edges \ {e}) \cup {[e EXCEPT !.till = Aside]}
                ELSE edges
    /\ UNCHANGED <<backend, vertex, writer, rpc, meant, outbox, flushes, applied,
                   overlapped, faults>>

\* Nothing closes the commitment that was current.  Then, the next blocker, or
\* the run that took the reply.
ReplyAdds ==
    /\ rpc = "close" /\ listed = {}
    /\ edges' = edges \cup {[to |-> meant, from |-> Aside, till |-> Open]}
    /\ rpc' \in {"list", "run"}
    /\ UNCHANGED <<backend, vertex, writer, listed, meant, outbox, flushes,
                   applied, overlapped, faults>>

\* The run returns before its step graph.write: paid, paused, out of budget,
\* or stopped by the guard.
ReplyReturns ==
    /\ rpc = "run"
    /\ rpc' = "idle" /\ meant' = Node
    /\ UNCHANGED <<backend, graph, writer, listed, outbox, flushes, applied,
                   overlapped, faults>>

Replying ==
    \/ ReplyComes \/ ReplyLists \/ ReplyAdds \/ ReplyReturns
    \/ \E e \in listed : ReplyCloses(e)

-----------------------------------------------------------------------------
(* flush_graph_outbox *)

\* Seeded defect: the rows that are dealt with are listed again.
ListPending_All ==
    [i \in 1 .. IF Len(log) < Limit THEN Len(log) ELSE Limit |-> i]

ListPending ==
    LET list[i \in 0 .. Len(log)] ==
          IF i = 0 THEN <<>>
          ELSE IF status[i] = "pending" /\ Len(list[i - 1]) < Limit
               THEN Append(list[i - 1], i) ELSE list[i - 1]
    IN  list[Len(log)]

\* A run of another case may flush at any time; this case's has to.
FlushBegins(f) ==
    /\ backend = "azure" /\ batch[f] = <<>>
    /\ f = "own" => wpc = "flush"
    /\ batch' = [batch EXCEPT ![f] = ListPending]
    /\ at' = [at EXCEPT ![f] = IF ListPending = <<>> THEN "idle" ELSE "drop"]
    /\ IF f = "own" /\ ListPending = <<>>
       THEN wpc' = "next" /\ todo' = Tail(todo)
       ELSE (f = "other" => ListPending # <<>>) /\ UNCHANGED writer
    /\ overlapped' = (overlapped \/ (\E g \in Flushers \ {f} : batch[g] # <<>>))
    /\ UNCHANGED <<backend, graph, answer, outbox, applied, faults>>

Goes(f, here, there) ==
    /\ at[f] = here
    /\ at' = [at EXCEPT ![f] = there]
    /\ UNCHANGED <<backend, writer, answer, outbox, batch, overlapped, faults>>

Item(f) == log[Head(batch[f])]

\* upsert_vertex of the invoice: the vertex goes, and every edge with it.
FlushDrop(f) ==
    /\ Goes(f, "drop", "add")
    /\ vertex' = FALSE /\ edges' = {}
    /\ UNCHANGED applied

\* Seeded defect: a refused addV is passed over, as a refused drop is.
FlushAdd_PassesOver(f) ==
    /\ at[f] = "add"
    /\ LET node == Item(f) = Node
       IN /\ Goes(f, "add", IF node THEN "mark" ELSE "target")
          /\ applied' = applied \cup
               IF node /\ ~vertex THEN {Head(batch[f])} ELSE {}
    /\ vertex' = TRUE
    /\ UNCHANGED edges

\* addV is refused when another flush has been quicker.
FlushAdd(f) ==
    /\ at[f] = "add"
    /\ LET node == Item(f) = Node
       IN /\ Goes(f, "add", IF vertex THEN "fail" ELSE IF node THEN "mark" ELSE "target")
          /\ applied' = applied \cup
               IF node /\ ~vertex THEN {Head(batch[f])} ELSE {}
    /\ vertex' = TRUE
    /\ UNCHANGED edges

\* upsert_vertex of the target, with the edges that reach it.
FlushTarget(f) ==
    /\ Goes(f, "target", "close")
    /\ edges' = {e \in edges : e.to # Item(f)}
    /\ UNCHANGED <<vertex, applied>>

FlushClose(f) ==
    /\ Goes(f, "close", "link")
    /\ edges' = Closed(edges, RelOf[Item(f)], Head(batch[f]))
    /\ UNCHANGED <<vertex, applied>>

\* addE: refused when the id is taken; without the vertex it adds nothing and
\* says nothing.
FlushLink(f) ==
    /\ at[f] = "link"
    /\ LET o == Head(batch[f])
           taken == \E e \in edges : e.to = Item(f) /\ e.from = o
           new == [to |-> Item(f), from |-> o, till |-> Open]
       IN /\ Goes(f, "link", IF taken THEN "fail" ELSE "mark")
          /\ edges' = edges \cup IF vertex /\ ~taken THEN {new} ELSE {}
          /\ applied' = applied \cup IF taken THEN {} ELSE {o}
    /\ UNCHANGED vertex

\* A row's end: the next row, or the flush's return to its run.
RowDone(f) ==
    /\ batch' = [batch EXCEPT ![f] = Tail(@)]
    /\ at' = [at EXCEPT ![f] = IF Len(batch[f]) = 1 THEN "idle" ELSE "drop"]
    /\ IF f = "own" /\ Len(batch[f]) = 1
       THEN wpc' = "next" /\ todo' = Tail(todo)
       ELSE UNCHANGED writer
    /\ UNCHANGED <<backend, graph, answer, log, applied, overlapped, faults>>

FlushMark(f) ==
    /\ at[f] = "mark"
    /\ status' = [status EXCEPT ![Head(batch[f])] = "done"]
    /\ RowDone(f)
    /\ UNCHANGED attempts

\* mark_outbox(ok=False) looks at the attempts, not at the status: it takes
\* back what another flush has called done meanwhile.
FlushFailed(f) ==
    LET o == Head(batch[f])
    IN /\ at[f] = "fail"
       /\ attempts' = [attempts EXCEPT ![o] = @ + 1]
       /\ status' = [status EXCEPT ![o] =
            IF attempts'[o] >= MaxAttempts THEN "failed" ELSE "pending"]
       /\ RowDone(f)

-----------------------------------------------------------------------------
(* Faults *)

\* A call to Cosmos raises, or the write that marks the row done: the row is
\* marked as failing, and the flush goes on with the next one.
CosmosFails(f) ==
    /\ at[f] \in {"drop", "add", "target", "close", "link", "mark"}
    /\ faults < MaxFaults
    /\ faults' = faults + 1
    /\ at' = [at EXCEPT ![f] = "fail"]
    /\ UNCHANGED <<backend, graph, writer, answer, outbox, batch, applied,
                   overlapped>>

\* The process dies, or a store raises in the middle of a run.
Crash ==
    /\ faults < MaxFaults
    /\ wpc # "idle" \/ rpc # "idle" \/ \E f \in Flushers : batch[f] # <<>>
    /\ faults' = faults + 1
    /\ todo' = <<>> /\ wpc' = "idle"
    /\ rpc' = "idle" /\ listed' = {} /\ meant' = Node
    /\ batch' = [f \in Flushers |-> <<>>]
    /\ at' = [f \in Flushers |-> "idle"]
    /\ UNCHANGED <<backend, graph, outbox, applied, overlapped>>

Next ==
    \/ RunWrites \/ RunDone
    \/ LiteClose \/ LiteAdd \/ Replying
    \/ Enqueue
    \/ \E f \in Flushers :
         \/ FlushBegins(f) \/ FlushDrop(f) \/ FlushAdd(f) \/ FlushTarget(f)
         \/ FlushClose(f) \/ FlushLink(f) \/ FlushMark(f) \/ FlushFailed(f)
         \/ CosmosFails(f)
    \/ Crash

Spec == Init /\ [][Next]_vars

-----------------------------------------------------------------------------
(* Properties *)

(***************************************************************************)
(* Of the edges that the runs write, an invoice has at most one current    *)
(* per relationship, in either store and at every moment, whatever fails   *)
(* half-way and whatever a reply does meanwhile: only two flushes that     *)
(* overlap can leave two, and only a reply adds a commitment to another.   *)
(* What blocks the invoice is single, then: a reply adds no such edge.     *)
(***************************************************************************)
Twins(d, e) ==
    d # e /\ d.till = Open /\ e.till = Open /\ RelOf[d.to] = RelOf[e.to]

OneCurrent ==
    overlapped \/
    \A d, e \in edges :
        Twins(d, e) => (d.from = Aside \/ e.from = Aside) /\ RelOf[d.to] = Promised

(***************************************************************************)
(* When a run has ended, nothing failed and no flush overlapped another,   *)
(* the graph's last word is the run's: what it wrote last is current, but  *)
(* for a blocker that a reply has closed since.                            *)
(***************************************************************************)
NewestIsShown ==
    (wpc = "idle" /\ log # <<>> /\ Last(log) # Node /\ faults = 0 /\ ~overlapped)
        => \E e \in edges :
             /\ e.to = Last(log) /\ e.from = Len(log)
             /\ e.till = Open \/ (e.till = Aside /\ RelOf[e.to] = Blocked)

(***************************************************************************)
(* A row of the outbox is called done only when some flush carried it out  *)
(* to the end, and stays done unless two flushes overlapped.               *)
(***************************************************************************)
DoneIsDone ==
    [][\A o \in Ops :
         /\ status'[o] = "done" => o \in applied
         /\ (status[o] = "done" /\ status'[o] # "done") => overlapped]_vars
=============================================================================
