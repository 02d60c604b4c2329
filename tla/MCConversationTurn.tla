-------------------------- MODULE MCConversationTurn --------------------------
(* ConversationTurn for TLC: the emails and the replies it chooses from. *)
EXTENDS ConversationTurn, TLC

Symmetry == Permutations(Addresses) \cup Permutations(Days)

MCDrafts ==
    {[NoDraft EXCEPT !.faults = f] :
        f \in {{}, {"asks"}, {"banned"}, {"unsupported"}, {"placeholder"}}}
    \cup {[NoDraft EXCEPT !.asserts = d] : d \in Days}
    \cup {[NoDraft EXCEPT !.subject = {"banned"}]}

\* One signal, none, or a dispute in a reply that opts out or promises; with
\* and without what rides along.
MCReplies ==
    {[NoReply EXCEPT !.words = w] :
        w \in {{s} : s \in Signal}
              \cup {{}, {"dispute", "unsubscribe"}, {"dispute", "payment_date"}}}
    \cup {[NoReply EXCEPT !.words = {s}, !.day = d] :
             s \in {"payment_date", "hostile", "checkback"}, d \in Days}
    \cup {[NoReply EXCEPT !.words = {"checkback"}, !.redirect = a] :
             a \in Addresses}
    \cup {[NoReply EXCEPT !.authorizes = TRUE]}
=============================================================================
