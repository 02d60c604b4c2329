------------------------ MODULE ConversationTurnProofs ------------------------
(***************************************************************************)
(* Proofs about ConversationTurn, for every set of addresses and days,     *)
(* every set of emails a model may draft and of replies, with a model and  *)
(* without.                                                                *)
(***************************************************************************)
EXTENDS ConversationTurn, GoalsProofs

-----------------------------------------------------------------------------
(* What the run works out is well-formed. *)

LEMMA ReadTyped ==
  ASSUME NEW r \in Reply, NEW type \in ReadReply(r)
  PROVE  type \in ReplyType
BY DEF ReadReply, Labels, Interpret, ReplyType

LEMMA ApplyTyped ==
  ASSUME NEW c \in Case, NEW r \in Reply, NEW type \in ReplyType
  PROVE  Apply(c, r, type) \in Case
<1>1. ReplyState(c.state, type, r.day # NoDay, FALSE) \in CaseState
  BY ReplyStateTyped DEF Case
<1> DEFINE consent == c.consent /\ type # "unsubscribe"
           promise == IF type \in {"payment_date", "hostile"} /\ r.day # NoDay
                      THEN r.day ELSE c.promise
           customer == IF r.redirect # Nobody THEN r.redirect ELSE c.customer
           target == IF r.authorizes \/ r.redirect # Nobody
                     THEN "customer" ELSE c.target
           unsure == type \in {"vague", "unknown"}
<1>2. /\ consent \in BOOLEAN /\ unsure \in BOOLEAN
      /\ promise \in Days \cup {NoDay}
      /\ customer \in Someone
      /\ target \in Party
  BY DEF Case, Reply, Party, Someone
<1>3. Apply(c, r, type) =
        [c EXCEPT !.state = ReplyState(c.state, type, r.day # NoDay, FALSE),
                  !.consent = consent, !.promise = promise,
                  !.customer = customer, !.target = target, !.inbound = TRUE,
                  !.unsure = unsure]
  BY DEF Apply
<1> HIDE DEF consent, promise, customer, target, unsure
<1>4. QED
  BY <1>1, <1>2, <1>3 DEF Case

LEMMA TemplateTyped ==
  ASSUME NEW c, NEW t
  PROVE  /\ Template(c, t) \in Draft
         /\ Template(c, t).faults \subseteq {"asks"}
         /\ Template(c, t).asserts = NoDay
BY DEF Template, Draft, Fault, SAFETY_CRITICAL_CHECKS

LEMMA BlankTyped ==
  /\ NoReply \in Reply /\ NoDraft \in Draft /\ "soft_nudge" \in Tactic
  /\ 1 \in 1 .. 2
BY DEF NoReply, Reply, NoDraft, Draft, Tactic, Someone

\* A guarded write leaves a well-formed row.
LEMMA WriteTyped ==
  ASSUME NEW c \in Case, row \in Case, Write(c)
  PROVE  row' \in Case
BY DEF Write, Case

LEMMA EscalateTyped ==
  ASSUME row \in Case, snap \in Case, Escalate
  PROVE  row' \in Case
<1>1. [snap EXCEPT !.state = "escalated_to_human"] \in Case
  BY DEF Case, CaseState
<1>2. QED
  BY <1>1, WriteTyped DEF Escalate

LEMMA FinishTyped ==
  ASSUME row' \in Case, Finish
  PROVE  /\ pc' = "idle" /\ snap' \in Case /\ reply' \in Reply
         /\ tactic' \in Tactic /\ draft' \in Draft /\ attempt' \in 1 .. 2
BY BlankTyped DEF Finish

-----------------------------------------------------------------------------
(***************************************************************************)
(* Type correctness of the case, of the run and of the emails.             *)
(***************************************************************************)
THEOREM Typing == Spec => []TypeOK
<1>1. Init => TypeOK
  <2> SUFFICES ASSUME Init PROVE TypeOK
    OBVIOUS
  <2>1. row \in Case
    BY DEF Init, Case, CaseState, Party, Someone
  <2>2. NoMail \in [to : Someone, text : Draft, disclosed : BOOLEAN,
                    known : Days \cup {NoDay}]
    BY BlankTyped DEF NoMail, Someone
  <2>3. 0 \in 0 .. MaxReplies /\ 0 \in 0 .. MaxEdits
    BY TurnAssumption
  <2>6. /\ contact \in Someone
        /\ sync \in [pm : Someone, customer : Someone]
        /\ internal \in SUBSET Addresses /\ retired \in SUBSET Addresses
    BY DEF Init, Someone, NoSync
  <2>4. /\ pc = "idle" /\ snap = row
        /\ reply = NoReply /\ tactic = "soft_nudge" /\ draft = NoDraft
        /\ attempt = 1 /\ mail = NoMail /\ disputed = FALSE
        /\ replies = 0 /\ edits = 0
    BY DEF Init
  <2>5. QED
    BY <2>1, <2>2, <2>3, <2>4, <2>6, BlankTyped DEF TypeOK
<1>2. TypeOK /\ [Next]_vars => TypeOK'
  <2> SUFFICES ASSUME TypeOK, [Next]_vars PROVE TypeOK'
    OBVIOUS
  <2> USE DEF TypeOK
  <2>1. CASE Tick
    BY <2>1 DEF Tick, contacts
  <2>2. CASE MailComes
    BY <2>2, TurnAssumption DEF MailComes, contacts
  <2>3. CASE InterpretReply
    <3>1. PICK type \in ReadReply(reply) :
            LET c == Apply(snap, reply, type)
            IN IF c.state \in SKIPPED_STATES
               THEN UNCHANGED row /\ Finish
               ELSE /\ snap' = c /\ pc' = "plan" /\ reply' = NoReply
                    /\ UNCHANGED <<row, tactic, draft, attempt>>
      BY <2>3 DEF InterpretReply
    <3>2. Apply(snap, reply, type) \in Case
      BY ReadTyped, ApplyTyped
    <3>3. QED
      BY <2>3, <3>1, <3>2, FinishTyped, BlankTyped DEF InterpretReply
  <2>4. CASE Plan
    <3>1. CASE Escalate /\ Finish
      BY <2>4, <3>1, EscalateTyped, FinishTyped DEF Plan, contacts
    <3>2. CASE \E a \in Pool(Context(snap)) :
                 /\ tactic' = a.tactic /\ pc' = "draft"
                 /\ UNCHANGED <<row, snap, reply, draft, attempt>>
      BY <2>4, <3>2, PoolTyped DEF Plan, contacts
    <3>3. QED
      BY <2>4, <3>1, <3>2 DEF Plan
  <2>5. CASE WriteDraft
    BY <2>5, TemplateTyped, TurnAssumption DEF WriteDraft, contacts
  <2>6. CASE Judge
    BY <2>6 DEF Judge, contacts
  <2>7. CASE Fallback
    BY <2>7, TemplateTyped DEF Fallback, contacts
  <2>8. CASE Send
    <3>1. CASE Escalate /\ Finish /\ UNCHANGED mail
      BY <2>8, <3>1, EscalateTyped, FinishTyped DEF Send, contacts
    <3>2. CASE UNCHANGED <<row, mail>> /\ Finish
      BY <2>8, <3>2, FinishTyped DEF Send, contacts
    <3>3. CASE /\ ResolveRecipient(snap, tactic) # Nobody
               /\ mail' = [to |-> ResolveRecipient(snap, tactic),
                           text |-> draft, known |-> snap.promise,
                           disclosed |-> IsCustomerBound(snap, tactic)]
               /\ pc' = "persist"
               /\ tactic' = "soft_nudge" /\ draft' = NoDraft /\ attempt' = 1
               /\ UNCHANGED <<row, snap, reply>>
      <4>1. mail' \in [to : Someone, text : Draft, disclosed : BOOLEAN,
                       known : Days \cup {NoDay}]
        BY <3>3 DEF ResolveRecipient, IsCustomerBound, Case
      <4>2. QED
        BY <2>8, <3>3, <4>1, BlankTyped DEF Send, contacts
    <3>4. QED
      BY <2>8, <3>1, <3>2, <3>3 DEF Send
  <2>9. CASE Persist
    <3>1. [snap EXCEPT !.outbound = TRUE,
                       !.state = IF @ \in OUTREACH_STATES
                                 THEN "waiting_for_customer" ELSE @] \in Case
      BY DEF Case, CaseState
    <3>2. row' \in Case
      BY <2>9, <3>1, WriteTyped DEF Persist
    <3>3. QED
      BY <2>9, <3>2, FinishTyped DEF Persist, contacts
  <2>10. ASSUME NEW c \in Case, Elsewhere(c)
         PROVE  /\ row' \in Case /\ snap' \in Case
                /\ UNCHANGED <<pc, reply, tactic, draft, attempt, mail, replies>>
    BY <2>10 DEF Elsewhere
  <2>11. CASE ContactsRead
    BY <2>11 DEF ContactsRead, Drifted, Someone, Case, run
  <2>17. CASE ContactsWritten
    <3>1. [row EXCEPT !.pm = IF sync.pm # Nobody THEN sync.pm ELSE @,
                      !.customer = IF sync.customer # Nobody THEN sync.customer
                                   ELSE @] \in Case
      BY DEF Case
    <3>2. NoSync \in [pm : Someone, customer : Someone]
      BY DEF NoSync, Someone
    <3>3. QED
      BY <2>10, <2>17, <3>1, <3>2 DEF ContactsWritten
  <2>12. CASE ContactEdited
    BY <2>12, TurnAssumption DEF ContactEdited, run, Someone
  <2>13. CASE CommitmentEdited
    <3>1. \A d \in Days :
            [row EXCEPT !.promise = d, !.state = "promise_to_pay"] \in Case
      BY DEF Case, CaseState
    <3>2. edits' \in 0 .. MaxEdits
      BY <2>13, TurnAssumption DEF CommitmentEdited
    <3>3. QED
      BY <2>10, <2>13, <3>1, <3>2 DEF CommitmentEdited, contacts
  <2>14. CASE Resumed
    <3>1. \A s \in {"outreach_ready", "overdue"} : [row EXCEPT !.state = s] \in Case
      BY DEF Case, CaseState
    <3>2. edits' \in 0 .. MaxEdits
      BY <2>14, TurnAssumption DEF Resumed
    <3>3. QED
      BY <2>10, <2>14, <3>1, <3>2 DEF Resumed, contacts
  <2>15. CASE UNCHANGED vars
    BY <2>15 DEF vars, run, contacts
  <2>16. QED
    BY <2>1, <2>2, <2>3, <2>4, <2>5, <2>6, <2>7, <2>8, <2>9, <2>11, <2>12,
       <2>13, <2>14, <2>15, <2>17 DEF Next
<1>3. QED
  BY <1>1, <1>2, PTL DEF Spec

\* Only Send puts an email in the record; people's edits keep the run's copy.
LEMMA MailStays ==
  ASSUME [Next]_vars, ~Send
  PROVE  mail' = mail
BY DEF Next, Tick, MailComes, InterpretReply, Plan, WriteDraft, Judge, Fallback,
   Persist, ContactsRead, ContactsWritten, ContactEdited, CommitmentEdited,
   Resumed, Elsewhere, run, vars

\* What Send puts there: the draft, for the party whose address is on file.
LEMMA SendMails ==
  ASSUME TypeOK, Send, mail' # mail
  PROVE  /\ pc = "send" /\ Guarded(draft)
         /\ ResolveRecipient(snap, tactic) # Nobody
         /\ mail' = [to |-> ResolveRecipient(snap, tactic), text |-> draft,
                     known |-> snap.promise,
                     disclosed |-> IsCustomerBound(snap, tactic)]
BY DEF Send

-----------------------------------------------------------------------------
(* Where an address may come from. *)

\* Whom an email meant for the project manager can reach, now, from the copy
\* of the run, or once the sync has written: a contact of the project.
PmInv == {row.pm, snap.pm, sync.pm, contact} \subseteq internal \cup {Nobody}

\* A copy, and what reading a reply makes of it, have the PM's address alike.
LEMMA ApplyKeepsPm ==
  ASSUME NEW c \in Case, NEW r, NEW type
  PROVE  Apply(c, r, type).pm = c.pm
BY DEF Apply, Case

LEMMA WriteKeepsPm ==
  ASSUME NEW c \in Case, Write(c)
  PROVE  row'.pm = row.pm
BY DEF Write, Case

LEMMA EscalateKeepsPm ==
  ASSUME snap \in Case, Escalate
  PROVE  row'.pm = row.pm
BY DEF Escalate, Write, Case

(***************************************************************************)
(* OutsidersAreTold for all of them: only the contact sync changes the     *)
(* PM's address, to one that is the project's, and an email that is not    *)
(* disclosed goes there; a reply decides the customer's address alone.     *)
(***************************************************************************)
THEOREM OutsidersTold == Spec => []OutsidersAreTold
<1>1. Init => PmInv /\ OutsidersAreTold
  BY DEF Init, PmInv, OutsidersAreTold, NoSync, NoMail
<1>2. TypeOK /\ PmInv /\ [Next]_vars => PmInv'
  <2> SUFFICES ASSUME TypeOK, PmInv, [Next]_vars PROVE PmInv'
    OBVIOUS
  <2>1. internal \subseteq internal'
    BY DEF Next, Tick, MailComes, InterpretReply, Plan, WriteDraft, Judge,
       Fallback, Send, Persist, ContactsRead, ContactsWritten, ContactEdited,
       CommitmentEdited, Resumed, contacts, vars
  <2>2. contact' \in internal' \cup {Nobody}
    BY DEF Next, Tick, MailComes, InterpretReply, Plan, WriteDraft, Judge,
       Fallback, Send, Persist, ContactsRead, ContactsWritten, ContactEdited,
       CommitmentEdited, Resumed, contacts, vars, PmInv
  <2>3. sync'.pm \in {sync.pm, contact, Nobody}
    <3>1. CASE ContactsRead \/ ContactsWritten
      BY <3>1 DEF ContactsRead, ContactsWritten, NoSync
    <3>2. CASE ~(ContactsRead \/ ContactsWritten)
      <4>1. sync' = sync
        BY <3>2 DEF Next, Tick, MailComes, InterpretReply, Plan, WriteDraft,
           Judge, Fallback, Send, Persist, ContactEdited, CommitmentEdited,
           Resumed, contacts, vars
      <4>2. QED
        BY <4>1
    <3>3. QED
      BY <3>1, <3>2
  <2>4. row'.pm \in {row.pm, sync.pm}
    <3>1. CASE Plan \/ Send
      BY <3>1, EscalateKeepsPm DEF Plan, Send, TypeOK
    <3>2. CASE Persist
      <4>1. [snap EXCEPT !.outbound = TRUE,
                         !.state = IF @ \in OUTREACH_STATES
                                   THEN "waiting_for_customer" ELSE @] \in Case
        BY DEF TypeOK, Case, CaseState
      <4>2. QED
        BY <3>2, <4>1, WriteKeepsPm DEF Persist
    <3>3. CASE ContactsWritten \/ CommitmentEdited \/ Resumed
      BY <3>3 DEF ContactsWritten, CommitmentEdited, Resumed, Elsewhere, TypeOK, Case
    <3>4. CASE InterpretReply
      BY <3>4 DEF InterpretReply
    <3>5. CASE \/ Tick \/ MailComes \/ WriteDraft \/ Judge \/ Fallback
               \/ ContactsRead \/ ContactEdited \/ UNCHANGED vars
      BY <3>5 DEF Tick, MailComes, WriteDraft, Judge, Fallback, ContactsRead,
         ContactEdited, vars
    <3>6. QED
      BY <3>1, <3>2, <3>3, <3>4, <3>5 DEF Next
  <2>5. snap'.pm \in {snap.pm, row.pm, row'.pm}
    <3>1. CASE InterpretReply
      BY <3>1, ApplyKeepsPm DEF InterpretReply, Finish, TypeOK
    <3>2. CASE ~InterpretReply
      BY <3>2 DEF Next, Tick, MailComes, Plan, WriteDraft, Judge, Fallback,
         Send, Persist, Finish, ContactsRead, ContactsWritten, ContactEdited,
         CommitmentEdited, Resumed, Elsewhere, run, vars
    <3>3. QED
      BY <3>1, <3>2
  <2>6. QED
    BY <2>1, <2>2, <2>3, <2>4, <2>5 DEF PmInv
<1>3. TypeOK /\ PmInv /\ OutsidersAreTold /\ [Next]_vars => OutsidersAreTold'
  <2> SUFFICES ASSUME TypeOK, PmInv, OutsidersAreTold, [Next]_vars
               PROVE  OutsidersAreTold'
    OBVIOUS
  <2>1. internal \subseteq internal'
    BY DEF Next, Tick, MailComes, InterpretReply, Plan, WriteDraft, Judge,
       Fallback, Send, Persist, ContactsRead, ContactsWritten, ContactEdited,
       CommitmentEdited, Resumed, contacts, vars
  <2>2. CASE mail' = mail
    BY <2>1, <2>2 DEF OutsidersAreTold
  <2>3. CASE mail' # mail
    <3>1. Send
      BY <2>3, MailStays
    <3>2. /\ mail'.to = ResolveRecipient(snap, tactic)
          /\ mail'.disclosed = IsCustomerBound(snap, tactic)
      BY <2>3, <3>1, SendMails
    <3>3. ~IsCustomerBound(snap, tactic)
            => ResolveRecipient(snap, tactic) = snap.pm
      BY DEF IsCustomerBound, ResolveRecipient, Recipient
    <3>4. QED
      BY <2>1, <3>2, <3>3 DEF OutsidersAreTold, PmInv
  <2>4. QED
    BY <2>2, <2>3
<1>4. QED
  BY <1>1, <1>2, <1>3, Typing, PTL DEF Spec

-----------------------------------------------------------------------------
(* Clean emails: why the judge and the guard together are enough. *)

\* A draft that reaches the guard has no safety-critical fault but perhaps a
\* placeholder, which the critic does not see and the guard does.
CleanInv ==
    /\ OnlyCleanIsSent
    /\ pc = "send"
         => Critique(snap, draft) \cap SAFETY_CRITICAL_CHECKS = {}

\* A verdict of the judge that lets a draft pass, with a model or without.
LEMMA PassedIsSafe ==
  ASSUME NEW c, NEW d, TRUE \in Verdicts(c, d)
  PROVE  Critique(c, d) \cap SAFETY_CRITICAL_CHECKS = {}
<1>1. CASE Live /\ Critique(c, d) \cap SAFETY_CRITICAL_CHECKS = {}
  BY <1>1
<1>2. CASE ~(Live /\ Critique(c, d) \cap SAFETY_CRITICAL_CHECKS = {})
  <2>1. Critique(c, d) = {}
    BY <1>2 DEF Verdicts
  <2>2. QED
    BY <2>1
<1>3. QED
  BY <1>1, <1>2

LEMMA TemplateIsSafe ==
  ASSUME NEW c, NEW t
  PROVE  Critique(c, Template(c, t)) \cap SAFETY_CRITICAL_CHECKS = {}
BY TemplateTyped DEF Critique, SAFETY_CRITICAL_CHECKS

\* What is left of a draft past the critic and the guard.
LEMMA SafeAndGuarded ==
  ASSUME NEW c, NEW d \in Draft, Guarded(d),
         Critique(c, d) \cap SAFETY_CRITICAL_CHECKS = {}
  PROVE  d.faults \subseteq {"asks"} /\ d.asserts \in {NoDay, c.promise}
<1>1. d.faults \subseteq {"banned", "unsupported", "asks", "placeholder"}
  BY DEF Draft, Fault, SAFETY_CRITICAL_CHECKS
<1>2. "banned" \notin d.faults /\ "placeholder" \notin d.faults
  BY DEF Guarded
<1>3. "unsupported" \notin d.faults
  BY DEF Critique, SAFETY_CRITICAL_CHECKS
<1>4. d.asserts \in {NoDay, c.promise}
  BY DEF Critique, SAFETY_CRITICAL_CHECKS
<1>5. QED
  BY <1>1, <1>2, <1>3, <1>4

(***************************************************************************)
(* OnlyCleanIsSent for all of them: the judge's verdict or the template    *)
(* vouches for the critic's checks on a body, the guard for the            *)
(* placeholder, and the copy the critic read is the copy the email is      *)
(* written from.  Nothing is proved of the subject, which nothing checks.   *)
(***************************************************************************)
THEOREM CleanHolds == Spec => []OnlyCleanIsSent
<1>1. Init => CleanInv
  BY DEF Init, CleanInv, OnlyCleanIsSent, NoMail, NoDraft
<1>2. TypeOK /\ CleanInv /\ [Next]_vars => CleanInv'
  <2> SUFFICES ASSUME TypeOK, CleanInv, [Next]_vars PROVE CleanInv'
    OBVIOUS
  <2>1. OnlyCleanIsSent'
    <3>1. CASE mail' = mail
      BY <3>1 DEF CleanInv, OnlyCleanIsSent
    <3>2. CASE mail' # mail
      <4>1. Send
        BY <3>2, MailStays
      <4>2. pc = "send" /\ Guarded(draft)
        BY <3>2, <4>1, SendMails
      <4>3. mail'.text = draft /\ mail'.known = snap.promise
        BY <3>2, <4>1, SendMails
      <4>4. draft.faults \subseteq {"asks"} /\ draft.asserts \in {NoDay, snap.promise}
        BY <4>2, SafeAndGuarded DEF CleanInv, TypeOK
      <4>5. QED
        BY <4>3, <4>4 DEF OnlyCleanIsSent
    <3>3. QED
      BY <3>1, <3>2
  <2>2. (pc = "send" => Critique(snap, draft) \cap SAFETY_CRITICAL_CHECKS = {})'
    <3>1. CASE Judge
      <4>1. pc' = "send" => TRUE \in Verdicts(snap, draft)
        BY <3>1 DEF Judge, Verdicts
      <4>2. snap' = snap /\ draft' = draft
        BY <3>1 DEF Judge
      <4>3. QED
        BY <4>1, <4>2, PassedIsSafe
    <3>2. CASE Fallback
      <4>1. snap' = snap /\ draft' = Template(snap, tactic)
        BY <3>2 DEF Fallback
      <4>2. QED
        BY <4>1, TemplateIsSafe
    <3>3. CASE ~Judge /\ ~Fallback
      <4>1. \/ pc' # "send"
            \/ pc = "send" /\ snap' = snap /\ draft' = draft
        BY <3>3 DEF Next, Tick, MailComes, InterpretReply, Plan, WriteDraft,
           Send, Persist, ContactsRead, ContactsWritten, ContactEdited,
           CommitmentEdited, Resumed, Elsewhere, Finish, run, vars
      <4>2. QED
        BY <4>1 DEF CleanInv
    <3>4. QED
      BY <3>1, <3>2, <3>3
  <2>3. QED
    BY <2>1, <2>2 DEF CleanInv
<1>3. CleanInv => OnlyCleanIsSent
  BY DEF CleanInv
<1>4. QED
  BY <1>1, <1>2, <1>3, Typing, PTL DEF Spec

-----------------------------------------------------------------------------
(* Disputes: where one that was voiced in so many words can be. *)

\* It is in the reply the run carries, in the copy the run is about to hand
\* over, or in the row; or the customer has opted out, which the guard sees.
Heard ==
    \/ ~row.consent
    \/ pc = "interpret" /\ "dispute" \in reply.words
    \/ pc = "plan" /\ snap.state = "disputed" /\ snap.consent
    \/ pc = "idle" /\ IsDbStateTerminal(row.state)

\* The copy never consents when the row does not, and agrees with it on that
\* until the reply is read.
ConsentInv ==
    /\ snap.consent => row.consent
    /\ pc = "interpret" /\ row.consent => snap.consent

DisputeInv == ConsentInv /\ (disputed => Heard)

\* Explicit dispute words override whatever the model makes of them.
LEMMA DisputeRead ==
  ASSUME NEW r \in Reply, "dispute" \in r.words,
         NEW type \in ReadReply(r)
  PROVE  type = "dispute"
BY DEF ReadReply

LEMMA DisputeApplied ==
  ASSUME NEW c \in Case, NEW r \in Reply
  PROVE  /\ Apply(c, r, "dispute").state = "disputed"
         /\ Apply(c, r, "dispute").consent = c.consent
BY DEF Apply, ReplyState, Transition, HardRule, Case

\* A copy with a dispute in it goes to a human without planning.
LEMMA DisputeEscalates ==
  ASSUME NEW c \in Case, c.state = "disputed", c.consent, NEW b
  PROVE  MustEscalate(c.state, World(c), b)
BY DEF MustEscalate, World, OpenWorld, IsPaid, OptedOut

\* The row a hand-over leaves.
LEMMA EscalateEnds ==
  ASSUME TypeOK, Escalate
  PROVE  IsDbStateTerminal(row'.state) /\ (row'.consent => row.consent \/ snap.consent)
BY DEF Escalate, Write, IsDbStateTerminal, TypeOK, Case

(***************************************************************************)
(* DisputeIsHeard for all of them: until the customer writes again or a    *)
(* person acts, every run of a disputed case ends in a hand-over, and the  *)
(* guard stops the one of a customer who has opted out besides.            *)
(***************************************************************************)
THEOREM DisputeHolds == Spec => DisputeIsHeard
<1>1. Init => DisputeInv
  BY DEF Init, DisputeInv, ConsentInv
<1>2. TypeOK /\ DisputeInv /\ [Next]_vars => DisputeInv'
  <2> SUFFICES ASSUME TypeOK, DisputeInv, [Next]_vars PROVE DisputeInv'
    OBVIOUS
  <2> USE DEF TypeOK, DisputeInv, ConsentInv, Heard
  <2>1. CASE Tick
    <3>1. row.state \in TERMINAL_STATES \cup {"escalated_to_human"}
            => row.state = "disputed"
      BY <2>1 DEF Tick, COLLECTIONS_SUPPRESSED_STATES
    <3>2. QED
      BY <2>1, <3>1 DEF Tick, IsDbStateTerminal
  <2>2. CASE MailComes
    BY <2>2 DEF MailComes
  <2>3. CASE InterpretReply
    <3>1. PICK type \in ReadReply(reply) :
            LET c == Apply(snap, reply, type)
            IN IF c.state \in SKIPPED_STATES
               THEN UNCHANGED row /\ Finish
               ELSE /\ snap' = c /\ pc' = "plan" /\ reply' = NoReply
                    /\ UNCHANGED <<row, tactic, draft, attempt>>
      BY <2>3 DEF InterpretReply
    <3>2. Apply(snap, reply, type).consent => snap.consent
      BY DEF Apply, Case
    <3>3. pc = "interpret" /\ disputed' = disputed /\ row' = row
      BY <2>3, <3>1 DEF InterpretReply
    <3>4. CASE disputed /\ row.consent
      <4>1. type = "dispute"
        BY <3>1, <3>3, <3>4, DisputeRead
      <4>2. /\ Apply(snap, reply, type).state = "disputed"
            /\ Apply(snap, reply, type).consent = snap.consent
        BY <4>1, DisputeApplied
      <4>3. snap' = Apply(snap, reply, type) /\ pc' = "plan"
        BY <3>1, <4>2 DEF SKIPPED_STATES
      <4>4. QED
        BY <3>3, <3>4, <4>2, <4>3
    <3>5. CASE ~(disputed /\ row.consent)
      BY <3>1, <3>2, <3>3, <3>5 DEF Finish
    <3>6. QED
      BY <3>4, <3>5
  <2>4. CASE Plan
    <3>1. CASE Escalate /\ Finish
      BY <2>4, <3>1, EscalateEnds DEF Plan, Finish
    <3>2. CASE /\ ~MustEscalate(snap.state, World(snap), FreshBudget)
               /\ pc' = "draft" /\ UNCHANGED <<row, snap>>
      <4>1. ~(snap.state = "disputed" /\ snap.consent)
        BY <3>2, DisputeEscalates
      <4>2. pc = "plan" /\ disputed' = disputed
        BY <2>4 DEF Plan
      <4>3. QED
        BY <3>2, <4>1, <4>2
    <3>3. QED
      BY <2>4, <3>1, <3>2 DEF Plan
  <2>5. CASE WriteDraft \/ Judge \/ Fallback
    BY <2>5 DEF WriteDraft, Judge, Fallback
  <2>6. CASE Send
    <3>1. pc = "send" /\ disputed' = disputed
      BY <2>6 DEF Send
    <3>2. CASE Escalate /\ Finish
      BY <3>1, <3>2, EscalateEnds DEF Finish
    <3>3. CASE Finish /\ row' = row
      BY <3>1, <3>3 DEF Finish
    <3>4. CASE pc' = "persist" /\ UNCHANGED <<row, snap>>
      BY <3>1, <3>4
    <3>5. QED
      BY <2>6, <3>2, <3>3, <3>4 DEF Send
  <2>7. CASE Persist
    <3>1. pc = "persist" /\ disputed' = disputed
      BY <2>7 DEF Persist
    <3>2. row'.consent => row.consent
      BY <2>7 DEF Persist, Write, Case
    <3>3. QED
      BY <2>7, <3>1, <3>2 DEF Persist, Finish
  <2>8. CASE ContactsWritten
    <3>1. /\ row'.consent = row.consent /\ row'.state = row.state
          /\ snap' = (IF pc = "idle" THEN row' ELSE snap)
          /\ UNCHANGED <<pc, reply, disputed>>
      BY <2>8 DEF ContactsWritten, Elsewhere, Case
    <3>2. QED
      BY <3>1
  <2>9. CASE CommitmentEdited \/ Resumed
    <3>1. /\ row'.consent = row.consent /\ ~disputed' /\ pc' = pc
          /\ snap' = (IF pc = "idle" THEN row' ELSE snap)
      BY <2>9 DEF CommitmentEdited, Resumed, Elsewhere, Case
    <3>2. QED
      BY <3>1
  <2>10. CASE ContactsRead \/ ContactEdited \/ UNCHANGED vars
    BY <2>10 DEF ContactsRead, ContactEdited, run, vars
  <2>11. QED
    BY <2>1, <2>2, <2>3, <2>4, <2>5, <2>6, <2>7, <2>8, <2>9, <2>10 DEF Next
<1>3. TypeOK /\ DisputeInv /\ [Next]_vars => [disputed => mail' = mail]_vars
  <2> SUFFICES ASSUME TypeOK, DisputeInv, Next, disputed, mail' # mail
               PROVE  FALSE
    BY DEF vars
  <2>1. pc = "send" /\ Guarded(draft)
    BY MailStays, SendMails
  <2>2. row.consent
    BY <2>1 DEF Guarded, CheckBeforeSend, World, OpenWorld, OptedOut, TypeOK,
       Case
  <2>3. QED
    BY <2>1, <2>2 DEF DisputeInv, Heard
<1>4. QED
  BY <1>1, <1>2, <1>3, Typing, PTL DEF Spec, DisputeIsHeard
=============================================================================
