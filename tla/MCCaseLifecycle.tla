--------------------------- MODULE MCCaseLifecycle ---------------------------
(***************************************************************************)
(* Instances of CaseLifecycle for TLC: which replies may come.             *)
(***************************************************************************)
EXTENDS CaseLifecycle

Plain(t) ==
    [type |-> t, dated |-> FALSE, in |-> 0, unsure |-> FALSE,
     authorizes |-> FALSE]
Dated(t, n) == [Plain(t) EXCEPT !.dated = TRUE, !.in = n]

\* "Go ahead and write to them": the PM lets the agent through.
HandedOver == [Plain("checkback") EXCEPT !.authorizes = TRUE]

\* A promise the interpreter is not sure of.
Doubtful(n) == [Dated("payment_date", n) EXCEPT !.unsure = TRUE]

\* One of each reading, with dates behind, today and ahead.
EveryReply ==
    {Dated("payment_date", n) : n \in {-1, 0, 1}}
        \cup {Dated("checkback", n) : n \in {0, 2}}
        \cup {HandedOver, Doubtful(1), Dated("blocker", 1), Plain("blocker"),
              Plain("vague"), Plain("paid_claim"), Dated("hostile", 1),
              Plain("dispute"), Plain("unsubscribe"), Plain("unknown")}

\* The replies of a customer who promises, and then says something else.
SecondThoughts ==
    {Dated("payment_date", 1), Plain("paid_claim"), Plain("vague"), HandedOver}

Promise == {Dated("payment_date", 2)}
=============================================================================
