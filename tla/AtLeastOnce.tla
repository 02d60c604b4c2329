---------------------------- MODULE AtLeastOnce ----------------------------
(***************************************************************************)
(* What every poller of the program promises about the things it must deal *)
(* with once: a reply in the mailbox, a reminder card, a weekly digest.    *)
(* Each keeps a table of what it has dealt with, which no crash loses, and *)
(* writes the row after the deed.  So a thing may be dealt with more than  *)
(* once, when something comes between the deed and the row, but it is      *)
(* never struck off unattempted and never attempted once struck off.       *)
(*                                                                         *)
(* The specifications of the pollers (MailIntake, Notices) implement this *)
(* one.                                                                    *)
(***************************************************************************)
EXTENDS Naturals

CONSTANT Items   \* the things to deal with

VARIABLES
    attempts,   \* attempts[i]: how often i was attempted
    struck      \* the table of what was dealt with

Init ==
    /\ attempts = [i \in Items |-> 0]
    /\ struck = {}

Attempt(i) ==
    /\ i \notin struck
    /\ attempts' = [attempts EXCEPT ![i] = @ + 1]
    /\ UNCHANGED struck

Strike(i) ==
    /\ attempts[i] > 0
    /\ struck' = struck \cup {i}
    /\ UNCHANGED attempts

Next == \E i \in Items : Attempt(i) \/ Strike(i)

Spec == Init /\ [][Next]_<<attempts, struck>>
=============================================================================
