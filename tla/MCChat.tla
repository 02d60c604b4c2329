------------------------------- MODULE MCChat -------------------------------
(***************************************************************************)
(* Instances of Chat for TLC: what messages say and documents hold.        *)
(***************************************************************************)
EXTENDS Chat, TLC

CONSTANTS c1, c2, u1, u2

Says(w, q, n) == [wish |-> w, question |-> q, names |-> n]

\* A wish, a question, and statements that name no case or one of them.
SomeTexts ==
    {Says(TRUE, FALSE, {}), Says(FALSE, TRUE, {}),
     Says(FALSE, FALSE, {}), Says(FALSE, FALSE, {c2})}

\* Pages of every length up to three chunks and more, and a scan of two pages.
SomePages == (u1 :> [i \in 1 .. 13 |-> i - 1]) @@ (u2 :> <<0, 0>>)
=============================================================================
