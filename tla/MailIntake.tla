----------------------------- MODULE MailIntake -----------------------------
(***************************************************************************)
(* How a reply in the shared mailbox reaches its case: the mail poller     *)
(* (src/app/outcome_agent/loop/mail_poller.py), which lists the newest     *)
(* unread mail (src/app/services/graph_mailbox.py) and keeps a table of    *)
(* what it has dealt with (oa_processed_mail).  The poller never marks a   *)
(* mail as read, so every poll sees the same mail again.                   *)
(*                                                                         *)
(* What a reply does to its case is in SendTail and CaseLifecycle; here it *)
(* is saved there or an exception comes first.                             *)
(***************************************************************************)
EXTENDS Naturals, SequencesExt

CONSTANTS
    Mails,      \* the mails that may arrive
    KindOf,     \* KindOf[m]: what the poller makes of mail m
    Window,     \* list_unread(limit)
    MaxCuts     \* bound on polls that are cut short

\* own: sent by the agent's own address; bounce: a delivery report; stray: no
\* token in its subject, or none of a case.
MailKind == {"reply", "own", "bounce", "stray"}

ASSUME IntakeAssumption ==
    /\ KindOf \in [Mails -> MailKind]
    /\ Window \in Nat \ {0}
    /\ MaxCuts \in Nat

VARIABLES
    unread,      \* the unread mail of the inbox, oldest first
    processed,   \* oa_processed_mail
    pc,          \* where the poll awaits
    batch,       \* what it has yet to look at of its list
    \* history, for the properties only
    arrived,     \* the mails that have arrived
    tries,       \* tries[m]: how often m was handed to its case
    saved,       \* saved[m]: how often the reply m was applied and saved
    cuts         \* polls cut short so far

poller == <<pc, batch>>
intakeVars == <<unread, processed, pc, batch, arrived, tries, saved, cuts>>

IntakeTypeOK ==
    /\ unread \in Seq(Mails)
    /\ processed \in SUBSET Mails
    /\ pc \in {"idle", "look", "apply", "mark"}
    /\ batch \in Seq(Mails)
    /\ pc \in {"apply", "mark"} => batch # <<>>
    /\ arrived \in SUBSET Mails
    /\ tries \in [Mails -> Nat]
    /\ saved \in [Mails -> Nat]
    /\ cuts \in 0 .. MaxCuts

IntakeInit ==
    /\ unread = <<>>
    /\ processed = {}
    /\ pc = "idle"
    /\ batch = <<>>
    /\ arrived = {}
    /\ tries = [m \in Mails |-> 0]
    /\ saved = [m \in Mails |-> 0]
    /\ cuts = 0

-----------------------------------------------------------------------------
(* The inbox: mail comes, and a person may open one before the poller does *)

Arrive(m) ==
    /\ m \notin arrived
    /\ arrived' = arrived \cup {m}
    /\ unread' = Append(unread, m)
    /\ UNCHANGED <<processed, poller, tries, saved, cuts>>

PersonReads ==
    /\ \E i \in 1 .. Len(unread) : unread' = RemoveAt(unread, i)
    /\ UNCHANGED <<processed, poller, arrived, tries, saved, cuts>>

\* The newest Window unread mails, newest first.
Newest ==
    LET n == Len(unread)
    IN [i \in 1 .. (IF n < Window THEN n ELSE Window) |-> unread[n + 1 - i]]

-----------------------------------------------------------------------------
(* One poll *)

List ==
    /\ pc = "idle"
    /\ batch' = Newest
    /\ pc' = "look"
    /\ UNCHANGED <<unread, processed, arrived, tries, saved, cuts>>

\* Seeded defect: the table is not asked.
Known_Forgotten(m) == FALSE

Known(m) == m \in processed

\* Seeded defect: a mail that is nobody's ends the poll.
PassOver_EndsPoll ==
    /\ pc = "look" /\ batch # <<>>
    /\ Known(Head(batch)) \/ KindOf[Head(batch)] = "stray"
    /\ batch' = IF Known(Head(batch)) THEN Tail(batch) ELSE <<>>
    /\ UNCHANGED <<unread, processed, pc, arrived, tries, saved, cuts>>

PassOver ==
    /\ pc = "look" /\ batch # <<>>
    /\ Known(Head(batch)) \/ KindOf[Head(batch)] = "stray"
    /\ batch' = Tail(batch)
    /\ UNCHANGED <<unread, processed, pc, arrived, tries, saved, cuts>>

Discard ==
    /\ pc = "look" /\ batch # <<>>
    /\ ~Known(Head(batch)) /\ KindOf[Head(batch)] \in {"own", "bounce"}
    /\ pc' = "mark"
    /\ UNCHANGED <<unread, processed, batch, arrived, tries, saved, cuts>>

\* Seeded defect: a reply is marked before its case has it.
Take_MarksFirst ==
    /\ pc = "look" /\ batch # <<>>
    /\ ~Known(Head(batch)) /\ KindOf[Head(batch)] = "reply"
    /\ processed' = processed \cup {Head(batch)}
    /\ pc' = "apply"
    /\ UNCHANGED <<unread, batch, arrived, tries, saved, cuts>>

Take ==
    /\ pc = "look" /\ batch # <<>>
    /\ ~Known(Head(batch)) /\ KindOf[Head(batch)] = "reply"
    /\ pc' = "apply"
    /\ UNCHANGED <<unread, processed, batch, arrived, tries, saved, cuts>>

\* advance_case_with_reply saves the reply, or raises before it does; what
\* it does after that, or raises, is caught and makes no difference here.
Apply ==
    /\ pc = "apply"
    /\ tries' = [tries EXCEPT ![Head(batch)] = @ + 1]
    /\ \/ saved' = [saved EXCEPT ![Head(batch)] = @ + 1]
       \/ UNCHANGED saved
    /\ pc' = "mark"
    /\ UNCHANGED <<unread, processed, batch, arrived, cuts>>

Mark ==
    /\ pc = "mark"
    /\ processed' = processed \cup {Head(batch)}
    /\ batch' = Tail(batch)
    /\ pc' = "look"
    /\ UNCHANGED <<unread, arrived, tries, saved, cuts>>

Done ==
    /\ pc = "look" /\ batch = <<>>
    /\ pc' = "idle"
    /\ UNCHANGED <<unread, processed, batch, arrived, tries, saved, cuts>>

\* The process dies, or the store raises outside the poller's try: the poll
\* is over, and the next one starts from the table.
Stop ==
    /\ pc # "idle" /\ cuts < MaxCuts
    /\ cuts' = cuts + 1
    /\ pc' = "idle"
    /\ batch' = <<>>
    /\ UNCHANGED <<unread, processed, arrived, tries, saved>>

Poll == List \/ PassOver \/ Discard \/ Take \/ Apply \/ Mark \/ Done

IntakeNext ==
    \/ \E m \in Mails : Arrive(m)
    \/ PersonReads
    \/ Poll
    \/ Stop

IntakeSpec == IntakeInit /\ [][IntakeNext]_intakeVars

(***************************************************************************)
(* Fairness.  The poll loop of main.py starts a poll for ever, whatever    *)
(* became of the last one, and a poll under way goes on.  Nothing is asked *)
(* of the inbox.                                                           *)
(***************************************************************************)
IntakeFairSpec == IntakeSpec /\ WF_intakeVars(Poll)

-----------------------------------------------------------------------------
(* Properties *)

(***************************************************************************)
(* A reply is applied to its case once, however often the poller sees it:  *)
(* only a poll that was cut short between the case and the table (the two  *)
(* are written apart) can make it apply a reply again.                     *)
(***************************************************************************)
AppliedOnce == \A m \in Mails : saved[m] <= 1 + cuts

InWindow(m) == \E i \in DOMAIN Newest : Newest[i] = m

(***************************************************************************)
(* A reply that stays unread and among the newest gets its turn, whatever  *)
(* lies in the window with it: mail of nobody, bounces, replies long dealt *)
(* with.                                                                   *)
(***************************************************************************)
ReplyGetsItsTurn ==
    \A m \in Mails :
        KindOf[m] = "reply" =>
            (InWindow(m) ~> tries[m] > 0 \/ ~InWindow(m))

Replies == {m \in Mails : KindOf[m] = "reply"}

(***************************************************************************)
(* The poller deals with replies as AtLeastOnce promises: one that the     *)
(* table calls processed was handed to its case, and never is again.       *)
(***************************************************************************)
RepliesAtLeastOnce ==
    INSTANCE AtLeastOnce WITH Items <- Replies,
                              attempts <- [m \in Replies |-> tries[m]],
                              struck <- processed \cap Replies
RepliesImplement == RepliesAtLeastOnce!Spec

-----------------------------------------------------------------------------
(* Why AppliedOnce holds: the inductive invariant behind it *)

(***************************************************************************)
(* A reply the table does not have and the poll has not just tried was     *)
(* saved only in polls that were cut short afterwards; a reply about to be *)
(* applied is not in the table, and one that is there was tried.           *)
(***************************************************************************)
IntakeInv ==
    /\ \A m \in Mails :
         saved[m] <= cuts +
             (IF m \in processed \/ (pc = "mark" /\ m = Head(batch))
              THEN 1 ELSE 0)
    /\ pc = "apply" => Head(batch) \notin processed
    /\ pc = "mark" /\ KindOf[Head(batch)] = "reply" => tries[Head(batch)] > 0
    /\ \A m \in processed : KindOf[m] = "reply" => tries[m] > 0
=============================================================================
