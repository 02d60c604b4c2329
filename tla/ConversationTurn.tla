-------------------------- MODULE ConversationTurn --------------------------
(***************************************************************************)
(* What one run of a case writes and to whom: reading the reply it carries *)
(* (llm_interpret), planning (llm_plan), drafting and judging              *)
(* (llm_draft, llm_judge, loop/critic.py), the safe template, the          *)
(* recipient, the disclosure, and the guard (src/app/outcome_agent/loop).  *)
(*                                                                         *)
(* The language model is free: it may label a reply, plan, draft and judge *)
(* as it likes, or fail to call its tool.  One run at a time, on a row that *)
(* people and the contact sync edit meanwhile; the races of several runs   *)
(* are SendTail's, the dates CaseLifecycle's.                              *)
(***************************************************************************)
EXTENDS Goals

CONSTANTS
    Addresses,    \* everyone's, the project's contacts and the customer's
    Days,         \* days a payment may be promised for
    Live,         \* is a language model configured (resolve_llm)?
    LlmDrafts,    \* the emails the model may draft
    Inbox,   \* the replies the customer may send
    MaxReplies,   \* bound on the replies
    MaxEdits      \* bound on the edits of people

Nobody == "nobody"    \* no address on file
NoDay == 0

\* What can be wrong with the text of an email.
SAFETY_CRITICAL_CHECKS == {"banned", "unsupported", "fabricated"}
Fault == SAFETY_CRITICAL_CHECKS \cup {"asks", "placeholder"}

\* faults, asserts: what is wrong with its body, and the day the body says the
\* reader has promised; subject: what is wrong with its subject.
Draft == [faults : SUBSET (Fault \ {"fabricated"}), asserts : Days \cup {NoDay},
          subject : SUBSET {"banned", "placeholder"}]

\* What the words of a reply say, as the regular expressions find it.
Signal == {"unsubscribe", "dispute", "paid_claim", "hostile", "handoff",
           "payment_date", "blocker", "checkback", "vague"}

VARIABLES
    row,       \* the case
    contact,   \* who _resolve_contacts finds for the project, in both roles
    sync,      \* the addresses the contact sync is about to write
    pc,        \* where the run awaits
    snap,      \* its copy of the case
    reply,     \* the reply it carries
    tactic,    \* what it has planned to do
    draft, attempt,
    mail,      \* history: the latest email
    disputed,  \* history: the last thing said is that the invoice is disputed
    internal,  \* history: who has been the project's contact
    retired,   \* history: who was told they would hear no more of this
    replies, edits

run == <<pc, snap, reply, tactic, draft, attempt>>
contacts == <<contact, sync, internal, retired>>
vars == <<row, contacts, run, mail, disputed, replies, edits>>

Someone == Addresses \cup {Nobody}

Case == [state : CaseState, target : Party, pm : Someone, customer : Someone,
         promise : Days \cup {NoDay}, consent : BOOLEAN, inbound : BOOLEAN, outbound : BOOLEAN,
         unsure : BOOLEAN]

\* words: as written.  The rest is what the model or the expressions make of
\* them: a day, any address at all to write to, leave to write to the customer.
Reply == [words : SUBSET Signal, day : Days \cup {NoDay},
          redirect : Someone, authorizes : BOOLEAN]

ASSUME TurnAssumption ==
    /\ Nobody \notin Addresses
    /\ NoDay \notin Days
    /\ Live \in BOOLEAN
    /\ LlmDrafts \subseteq Draft /\ Inbox \subseteq Reply
    /\ MaxReplies \in Nat /\ MaxEdits \in Nat

NoReply == [words |-> {}, day |-> NoDay, redirect |-> Nobody,
            authorizes |-> FALSE]
NoDraft == [faults |-> {}, asserts |-> NoDay, subject |-> {}]
NoMail == [to |-> Nobody, text |-> NoDraft, disclosed |-> FALSE,
           known |-> NoDay]
NoSync == [pm |-> Nobody, customer |-> Nobody]

TypeOK ==
    /\ row \in Case /\ snap \in Case
    /\ contact \in Someone
    /\ sync \in [pm : Someone, customer : Someone]
    /\ internal \in SUBSET Addresses /\ retired \in SUBSET Addresses
    /\ pc \in {"idle", "interpret", "plan", "draft", "judge", "fallback",
               "send", "persist"}
    /\ reply \in Reply
    /\ tactic \in Tactic
    /\ draft \in Draft
    /\ attempt \in 1 .. 2
    /\ mail \in [to : Someone, text : Draft, disclosed : BOOLEAN,
                 known : Days \cup {NoDay}]
    /\ disputed \in BOOLEAN
    /\ replies \in 0 .. MaxReplies /\ edits \in 0 .. MaxEdits

\* A case the invoice sync has just created.
Init ==
    /\ contact \in Someone
    /\ row = [state |-> "overdue", target |-> "pm", pm |-> contact,
              customer |-> contact, promise |-> NoDay, consent |-> TRUE,
              inbound |-> FALSE, outbound |-> FALSE, unsure |-> FALSE]
    /\ sync = NoSync
    /\ internal = {contact} \ {Nobody} /\ retired = {}
    /\ pc = "idle" /\ snap = row /\ reply = NoReply
    /\ tactic = "soft_nudge" /\ draft = NoDraft /\ attempt = 1
    /\ mail = NoMail
    /\ disputed = FALSE
    /\ replies = 0 /\ edits = 0

World(c) ==
    [OpenWorld(1) EXCEPT !.consent_ok = c.consent,
                         !.status = IF c.consent THEN "open" ELSE "opted_out"]

\* build_context_packet: the case as goals.py reads it.
Context(c) ==
    [state |-> c.state, world |-> World(c), budget |-> FreshBudget,
     target |-> c.target,
     commitments |-> IF c.promise = NoDay THEN {}
                     ELSE {[type |-> "payment_date"]},
     dialogue |-> [NoDialogue EXCEPT !.inbound = c.inbound,
                     !.outbound = c.outbound, !.unsure = c.unsure],
     failedAsks |-> 0, pmCheckFailed |-> FALSE]

-----------------------------------------------------------------------------
(* Reading a reply *)

\* The deterministic interpreter: the first of these that the words contain.
Interpret(r) ==
    IF "unsubscribe" \in r.words THEN "unsubscribe"
    ELSE IF "dispute" \in r.words THEN "dispute"
    ELSE IF "paid_claim" \in r.words THEN "paid_claim"
    ELSE IF "hostile" \in r.words THEN "hostile"
    ELSE IF "handoff" \in r.words THEN "handoff"
    ELSE IF "payment_date" \in r.words /\ r.day # NoDay THEN "payment_date"
    ELSE IF "blocker" \in r.words THEN "blocker"
    ELSE IF "checkback" \in r.words THEN "checkback"
    ELSE IF "vague" \in r.words THEN "vague"
    ELSE "unknown"

\* The model's taxonomy, remapped: it has no word for two of the types, and
\* wrong_contact and missing_invoice become unknown.
Labels == ReplyType \ {"hostile", "handoff"}

\* Seeded defect: the model's label is final (before 2026-08-20).
ReadReply_TrustsModel(r) == IF Live THEN Labels ELSE {Interpret(r)}

\* interpret_reply_llm: explicit dispute words override any label, an
\* opt-out's too.  A model that does not call its tool falls back to the
\* interpreter.
ReadReply(r) ==
    IF "dispute" \in r.words THEN {"dispute"}
    ELSE IF Live THEN Labels \cup {Interpret(r)}
    ELSE {Interpret(r)}

\* Seeded defect: the address named takes the place of the one that named it,
\* and only leave to write to the customer changes the party.
Apply_ReplacesParty(c, r, type) ==
    [c EXCEPT
       !.state = ReplyState(c.state, type, r.day # NoDay, FALSE),
       !.pm = IF r.redirect # Nobody /\ c.target = "pm"
              THEN r.redirect ELSE @,
       !.customer = IF r.redirect # Nobody /\ c.target = "customer"
                    THEN r.redirect ELSE @,
       !.target = IF r.authorizes THEN "customer" ELSE @,
       !.inbound = TRUE]

\* apply_reply_signal, on the run's copy of the case.
Apply(c, r, type) ==
    [c EXCEPT
       !.state = ReplyState(c.state, type, r.day # NoDay, FALSE),
       !.consent = c.consent /\ type # "unsubscribe",
       !.promise = IF type \in {"payment_date", "hostile"} /\ r.day # NoDay
                   THEN r.day ELSE @,
       !.customer = IF r.redirect # Nobody THEN r.redirect ELSE @,
       !.target = IF r.authorizes \/ r.redirect # Nobody
                  THEN "customer" ELSE @,
       !.inbound = TRUE,
       !.unsure = type \in {"vague", "unknown"}]

-----------------------------------------------------------------------------
(* Writing an email *)

\* DEFAULT_GENERATOR: some templates ask nothing, and one asks twice.
Template(c, t) ==
    [faults |-> IF \/ t \in {"confirm_promise", "blocker_ack",
                             "dispute_route", "escalation_pack"}
                   \/ t = "reflexion_reask" /\ c.target # "pm"
                THEN {"asks"} ELSE {},
     asserts |-> NoDay, subject |-> {}]

\* critique: what the deterministic critic finds in a body.  A placeholder it
\* does not find, and it is not shown the subject.
Critique(c, d) ==
    (d.faults \ {"placeholder"}) \cup
    (IF d.asserts \in {NoDay, c.promise} THEN {} ELSE {"fabricated"})

\* Seeded defect: the model's verdict stands whatever the critic found.
Verdicts_Lenient(c, d) ==
    IF Live THEN BOOLEAN ELSE {Critique(c, d) = {}}

\* llm_judge: the verdicts that may come back.  A model may wave through what
\* is only poor writing, never a safety-critical failure.
Verdicts(c, d) ==
    IF Live /\ Critique(c, d) \cap SAFETY_CRITICAL_CHECKS = {} THEN BOOLEAN
    ELSE {Critique(c, d) = {}}

\* resolve_recipient: Nobody when the party's address is not known.
ResolveRecipient(c, t) ==
    IF Recipient(c, t) = "pm" THEN c.pm ELSE c.customer

IsCustomerBound(c, t) == Recipient(c, t) = "customer"

\* The guard sees the body and the row as it is now.
Guarded(d) ==
    /\ CheckBeforeSend(row.state, World(row))
    /\ d.faults \cap {"banned", "placeholder"} = {}

-----------------------------------------------------------------------------
(* The run *)

\* Over: its locals go out of scope.
Finish ==
    /\ pc' = "idle" /\ snap' = row' /\ reply' = NoReply
    /\ tactic' = "soft_nudge" /\ draft' = NoDraft /\ attempt' = 1

\* guarded_case_update: a row that is terminal by now keeps its state.  The
\* customer's address and the target are a run's to write, the PM's is not.
Write(c) ==
    row' = IF IsDbStateTerminal(row.state) /\ row.state # c.state
           THEN [c EXCEPT !.state = row.state, !.consent = row.consent,
                          !.pm = row.pm]
           ELSE [c EXCEPT !.pm = row.pm]

Escalate == Write([snap EXCEPT !.state = "escalated_to_human"])

Tick ==
    /\ pc = "idle"
    /\ row.state \notin COLLECTIONS_SUPPRESSED_STATES \ {"disputed"}
    /\ pc' = "plan" /\ snap' = row
    /\ UNCHANGED <<row, contacts, reply, tactic, draft, attempt, mail,
                   disputed, replies, edits>>

\* An email from whom the latest one went to starts a run that carries it.
MailComes ==
    /\ pc = "idle" /\ mail # NoMail /\ replies < MaxReplies
    /\ reply' \in Inbox
    /\ pc' = "interpret" /\ snap' = row /\ replies' = replies + 1
    /\ disputed' = ("dispute" \in reply'.words)
    /\ UNCHANGED <<row, contacts, tactic, draft, attempt, mail, edits>>

\* The reply is in the copy only: a run that is skipped here drops it.
InterpretReply ==
    /\ pc = "interpret"
    /\ \E type \in ReadReply(reply) :
         LET c == Apply(snap, reply, type)
         IN IF c.state \in SKIPPED_STATES
            THEN UNCHANGED row /\ Finish
            ELSE /\ snap' = c /\ pc' = "plan" /\ reply' = NoReply
                 /\ UNCHANGED <<row, tactic, draft, attempt>>
    /\ retired' = retired \ {reply.redirect}
    /\ UNCHANGED <<contact, sync, internal, mail, disputed, replies, edits>>

\* The planner, or the model in its place, picks one of the pool; a case that
\* must be handed over is, and so is one whose pick is the hand-over.
Plan ==
    /\ pc = "plan"
    /\ \/ /\ MustEscalate(snap.state, World(snap), FreshBudget)
          /\ Escalate /\ Finish
       \/ /\ ~MustEscalate(snap.state, World(snap), FreshBudget)
          /\ \E a \in Pool(Context(snap)) :
               IF a.tactic = "escalation_pack"
               THEN Escalate /\ Finish
               ELSE /\ tactic' = a.tactic /\ pc' = "draft"
                    /\ UNCHANGED <<row, snap, reply, draft, attempt>>
    /\ UNCHANGED <<contacts, mail, disputed, replies, edits>>

\* Anything may come back from the model, the subject included; the template
\* and the default subject, when nothing does.
WriteDraft ==
    /\ pc = "draft"
    /\ draft' \in {Template(snap, tactic)} \cup (IF Live THEN LlmDrafts ELSE {})
    /\ pc' = "judge"
    /\ UNCHANGED <<row, contacts, snap, reply, tactic, attempt, mail,
                   disputed, replies, edits>>

\* Regenerated once, unless the judge says not to; then the safe template.
Judge ==
    /\ pc = "judge"
    /\ \E passed \in Verdicts(snap, draft), regenerate \in {TRUE, ~Live} :
         /\ pc' = IF passed THEN "send"
                  ELSE IF attempt = 1 /\ regenerate THEN "draft"
                  ELSE "fallback"
         /\ attempt' = IF pc' = "draft" THEN 2 ELSE attempt
    /\ UNCHANGED <<row, contacts, snap, reply, tactic, draft, mail, disputed,
                   replies, edits>>

Fallback ==
    /\ pc = "fallback"
    /\ draft' = Template(snap, tactic)
    /\ pc' = "send"
    /\ UNCHANGED <<row, contacts, snap, reply, tactic, attempt, mail,
                   disputed, replies, edits>>

\* Recipient, disclosure, guard, email: nobody to write to is a hand-over.
Send ==
    /\ pc = "send"
    /\ LET to == ResolveRecipient(snap, tactic)
       IN \/ /\ to = Nobody
             /\ Escalate /\ Finish
             /\ UNCHANGED mail
          \/ /\ to # Nobody /\ ~Guarded(draft)
             /\ UNCHANGED <<row, mail>> /\ Finish
          \/ /\ to # Nobody /\ Guarded(draft)
             /\ mail' = [to |-> to, text |-> draft, known |-> snap.promise,
                         disclosed |-> IsCustomerBound(snap, tactic)]
             /\ pc' = "persist"
             /\ tactic' = "soft_nudge" /\ draft' = NoDraft /\ attempt' = 1
             /\ UNCHANGED <<row, snap, reply>>
    /\ UNCHANGED <<contacts, disputed, replies, edits>>

\* The copy, contacts and all, over the row.
Persist ==
    /\ pc = "persist"
    /\ Write([snap EXCEPT !.outbound = TRUE,
                !.state = IF @ \in OUTREACH_STATES
                          THEN "waiting_for_customer" ELSE @])
    /\ Finish
    /\ UNCHANGED <<contacts, mail, disputed, replies, edits>>

-----------------------------------------------------------------------------
(* Meanwhile *)

\* Rows other than the run's copy change under it.
Elsewhere(c) ==
    /\ row' = c
    /\ snap' = IF pc = "idle" THEN c ELSE snap
    /\ UNCHANGED <<pc, reply, tactic, draft, attempt, mail, replies>>

\* sync_contact_changes, once something has been sent: an address that is not
\* the project's is told it will hear no more, the customer's own included ...
Drifted(a) == contact # Nobody /\ a \notin {contact, Nobody}

ContactsRead ==
    /\ sync = NoSync
    /\ row.state \notin TERMINAL_STATES \cup {"escalated_to_human"}
    /\ row.outbound
    /\ Drifted(row.pm) \/ Drifted(row.customer)
    /\ sync' = [pm |-> IF Drifted(row.pm) THEN contact ELSE Nobody,
                customer |-> IF Drifted(row.customer) THEN contact ELSE Nobody]
    /\ retired' = retired \cup {a \in {row.pm, row.customer} : Drifted(a)}
    /\ UNCHANGED <<row, contact, internal, run, mail, disputed, replies, edits>>

\* ... and replaced by the project's, whatever the row says by then.
ContactsWritten ==
    /\ sync # NoSync
    /\ Elsewhere([row EXCEPT
                    !.pm = IF sync.pm # Nobody THEN sync.pm ELSE @,
                    !.customer = IF sync.customer # Nobody THEN sync.customer
                                 ELSE @])
    /\ sync' = NoSync
    /\ UNCHANGED <<contact, internal, retired, disputed, edits>>

ContactEdited ==
    /\ edits < MaxEdits /\ edits' = edits + 1
    /\ contact' \in Someone \ {contact}
    /\ internal' = internal \cup ({contact'} \ {Nobody})
    /\ retired' = retired \ {contact'}
    /\ UNCHANGED <<row, sync, run, mail, disputed, replies>>

\* edit_case_commitment: a person puts a promise on record.
CommitmentEdited ==
    /\ edits < MaxEdits /\ edits' = edits + 1
    /\ \E d \in Days :
         Elsewhere([row EXCEPT !.promise = d, !.state = "promise_to_pay"])
    /\ disputed' = FALSE
    /\ UNCHANGED contacts

\* resume_case, restart_case: a person has the agent go on.
Resumed ==
    /\ edits < MaxEdits /\ edits' = edits + 1
    /\ \E s \in {"outreach_ready", "overdue"} :
         Elsewhere([row EXCEPT !.state = s])
    /\ disputed' = FALSE
    /\ UNCHANGED contacts

Next ==
    \/ Tick \/ MailComes \/ InterpretReply \/ Plan
    \/ WriteDraft \/ Judge \/ Fallback \/ Send \/ Persist
    \/ ContactsRead \/ ContactsWritten \/ ContactEdited
    \/ CommitmentEdited \/ Resumed

Spec == Init /\ [][Next]_vars

-----------------------------------------------------------------------------
(***************************************************************************)
(* However the model drafts and judges, the body of nothing that went out  *)
(* threatens, promises what the system cannot do, holds an unfilled        *)
(* placeholder, or says of the reader that they promised a day the run     *)
(* knew nothing of.                                                        *)
(***************************************************************************)
OnlyCleanIsSent ==
    /\ mail.text.faults \subseteq {"asks"}
    /\ mail.text.asserts \in {NoDay, mail.known}

(***************************************************************************)
(* Whoever is written to and was never the project's contact is told that  *)
(* an automated assistant writes, whichever replies name them, however the *)
(* model reads those, and whatever the contact sync moves meanwhile.       *)
(***************************************************************************)
OutsidersAreTold ==
    mail.to \notin internal \cup {Nobody} => mail.disclosed

(***************************************************************************)
(* Once the customer disputes the invoice in so many words, however the    *)
(* model reads it, the agent writes nothing until they write again or a    *)
(* person acts on the case.                                                *)
(***************************************************************************)
DisputeIsHeard == [][disputed => mail' = mail]_vars

-----------------------------------------------------------------------------
(* What the code's comments say and the code does not do. *)

(***************************************************************************)
(* The notice: "You will no longer receive updates".  A run that copied    *)
(* the row before the sync writes to the old address, and puts it back.    *)
(***************************************************************************)
RetiredIsLeftAlone == [][mail' # mail => mail'.to \notin retired]_vars
=============================================================================
