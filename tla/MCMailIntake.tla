---------------------------- MODULE MCMailIntake ----------------------------
(***************************************************************************)
(* An instance of MailIntake for TLC: two replies, a bounce and a mail of  *)
(* nobody, with a window that does not hold them all.                      *)
(***************************************************************************)
EXTENDS MailIntake

MixedMails == {"promise", "question", "ndr", "spam"}
MixedKinds ==
    [promise |-> "reply", question |-> "reply", ndr |-> "bounce",
     spam |-> "stray"]
=============================================================================
