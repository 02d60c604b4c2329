------------------------------ MODULE Notices ------------------------------
(***************************************************************************)
(* What the program posts of its own accord into a project's Teams chat:   *)
(* the reminder cards (src/app/channels/teams/proactive.py), which create  *)
(* the chat if need be, and the weekly digests                             *)
(* (src/app/services/digest_engine.py).  Two tasks poll for ever           *)
(* (src/app/main.py).                                                      *)
(*                                                                         *)
(* Modelled for one project: a pass serves the projects one after another, *)
(* and they share nothing but the pass's being cut short.  A card is its   *)
(* being sent.                                                             *)
(***************************************************************************)
EXTENDS Naturals, SequencesExt

CONSTANTS
    Cases,        \* the ERP cases of the project
    Stages,       \* OUTREACH_STAGES
    NoStage,      \* a stage that is not for outreach
    Week,         \* days of a digest period
    MaxDay,       \* bound on the days
    MaxStops      \* bound on passes that are cut short

ASSUME NoticesAssumption ==
    /\ IsFiniteSet(Cases) /\ IsFiniteSet(Stages)
    /\ NoStage \notin Stages
    /\ Week \in Nat \ {0}
    /\ MaxDay \in Nat /\ MaxStops \in Nat

Days == 0 .. MaxDay
Weeks == {d \div Week : d \in Days}
Reminders == Cases \X Stages
NoWeek == MaxDay + 1
Contacts == {"none", "mute", "addressed"}

VARIABLES
    now,
    stage,       \* current_stage_code of the active ERP cases
    contacts,    \* the project's contacts: any, and with an address?
    \* send_due_reminders; project_conversation_refs has the project's chat
    rpc, rbatch, dedup, chat,
    \* send_project_digests: the week it read at its start, and the row's
    dpc, dweek, drow,
    \* history, for the properties only
    cards,       \* cards sent, per reminder
    digests,     \* digests sent, per week
    filed,       \* the weeks digest_snapshots has named
    chats,       \* group chats created
    stops        \* passes cut short so far

erp == <<now, stage, contacts>>
reminding == <<rpc, rbatch, dedup, cards, chats, chat>>
digesting == <<dpc, dweek, drow, digests, filed>>
vars == <<erp, reminding, digesting, stops>>

TypeOK ==
    /\ now \in Days
    /\ stage \in [Cases -> Stages \cup {NoStage}]
    /\ contacts \in Contacts
    /\ rpc \in {"idle", "chat", "record", "card", "mark"}
    /\ rbatch \in Seq(Reminders)
    /\ rpc # "idle" => rbatch # <<>>
    /\ dedup \in SUBSET Reminders
    /\ chat \in BOOLEAN
    /\ dpc \in {"idle", "record"}
    /\ dweek \in Weeks /\ drow \in Weeks \cup {NoWeek}
    /\ cards \in [Reminders -> Nat] /\ digests \in [Weeks -> Nat]
    /\ filed \in SUBSET Weeks
    /\ chats \in Nat
    /\ stops \in 0 .. MaxStops

Init ==
    /\ now = 0
    /\ stage \in [Cases -> Stages \cup {NoStage}]
    /\ contacts = "addressed"
    /\ rpc = "idle" /\ rbatch = <<>> /\ dedup = {} /\ chat = FALSE
    /\ dpc = "idle" /\ dweek = 0 /\ drow = NoWeek
    /\ cards = [i \in Reminders |-> 0] /\ digests = [w \in Weeks |-> 0]
    /\ filed = {}
    /\ chats = 0
    /\ stops = 0

-----------------------------------------------------------------------------
(* The days and the ERP *)

Tick ==
    /\ now < MaxDay
    /\ now' = now + 1
    /\ UNCHANGED <<stage, contacts, reminding, digesting, stops>>

\* The dunning of the ERP moves a case on; to NoStage too when it is paid.
StageMoves(c) ==
    /\ \E s \in Stages \cup {NoStage} :
         /\ s # stage[c]
         /\ stage' = [stage EXCEPT ![c] = s]
    /\ UNCHANGED <<now, contacts, reminding, digesting, stops>>

ContactsEdited ==
    /\ contacts' \in Contacts \ {contacts}
    /\ UNCHANGED <<now, stage, reminding, digesting, stops>>

-----------------------------------------------------------------------------
(* send_due_reminders *)

Due == {i \in Reminders : stage[i[1]] = i[2] /\ i \notin dedup}

\* Seeded defect: the dedup table is not asked.
RemindList_Again ==
    /\ rpc = "idle"
    /\ rbatch' = SetToSeq({i \in Reminders : stage[i[1]] = i[2]})
    /\ rbatch' # <<>>
    /\ rpc' = "chat"
    /\ UNCHANGED <<erp, dedup, cards, chats, chat, digesting, stops>>

\* The list is made once, at the start; a stage is not read again.
RemindList ==
    /\ rpc = "idle"
    /\ rbatch' = SetToSeq(Due)
    /\ rbatch' # <<>>
    /\ rpc' = "chat"
    /\ UNCHANGED <<erp, dedup, cards, chats, chat, digesting, stops>>

\* The project's contacts, then its group chat, which is created if need be.
RemindChat ==
    /\ rpc = "chat"
    /\ \/ /\ contacts = "none" \/ (contacts = "mute" /\ ~chat)
          /\ rpc' = "idle" /\ rbatch' = <<>>
          /\ UNCHANGED chats
       \/ /\ contacts # "none" /\ chat
          /\ rpc' = "card"
          /\ UNCHANGED <<rbatch, chats>>
       \/ /\ contacts = "addressed" /\ ~chat
          /\ chats' = chats + 1
          /\ rpc' = "record"
          /\ UNCHANGED rbatch
    /\ UNCHANGED <<erp, dedup, cards, chat, digesting, stops>>

RemindRecord ==
    /\ rpc = "record"
    /\ chat' = TRUE
    /\ rpc' = "card"
    /\ UNCHANGED <<erp, rbatch, dedup, cards, chats, digesting, stops>>

RemindCard ==
    /\ rpc = "card"
    /\ cards' = [cards EXCEPT ![Head(rbatch)] = @ + 1]
    /\ rpc' = "mark"
    /\ UNCHANGED <<erp, rbatch, dedup, chats, chat, digesting, stops>>

\* Seeded defect: the whole list is marked with its first card.
RemindMark_MarksAll ==
    /\ rpc = "mark"
    /\ dedup' = dedup \cup ToSet(rbatch)
    /\ rbatch' = Tail(rbatch)
    /\ rpc' = IF rbatch' = <<>> THEN "idle" ELSE "card"
    /\ UNCHANGED <<erp, cards, chats, chat, digesting, stops>>

RemindMark ==
    /\ rpc = "mark"
    /\ dedup' = dedup \cup {Head(rbatch)}
    /\ rbatch' = Tail(rbatch)
    /\ rpc' = IF rbatch' = <<>> THEN "idle" ELSE "card"
    /\ UNCHANGED <<erp, cards, chats, chat, digesting, stops>>

Remind == RemindList \/ RemindChat \/ RemindRecord \/ RemindCard \/ RemindMark

-----------------------------------------------------------------------------
(* send_project_digests *)

ThisWeek == now \div Week

\* The project has cases whenever it has a chat; the ERP may not answer, and
\* the pass goes by.
DigestCard ==
    /\ dpc = "idle" /\ chat /\ drow # ThisWeek
    /\ dweek' = ThisWeek
    /\ digests' = [digests EXCEPT ![ThisWeek] = @ + 1]
    /\ dpc' = "record"
    /\ UNCHANGED <<drow, filed, erp, reminding, stops>>

\* Seeded defect: the snapshot is filed under the week it is written in.
DigestRecord_Late ==
    /\ dpc = "record"
    /\ drow' = ThisWeek
    /\ filed' = filed \cup {drow'}
    /\ dpc' = "idle"
    /\ UNCHANGED <<dweek, digests, erp, reminding, stops>>

\* The row of the project is overwritten, with the period read at the start.
DigestRecord ==
    /\ dpc = "record"
    /\ drow' = dweek
    /\ filed' = filed \cup {drow'}
    /\ dpc' = "idle"
    /\ UNCHANGED <<dweek, digests, erp, reminding, stops>>

-----------------------------------------------------------------------------
(* A pass is cut short: an exception ends this pass and the loop of main.py *)
(* goes on with the next, or the process dies and is started again.         *)

RemindStop ==
    /\ rpc # "idle" /\ stops < MaxStops
    /\ stops' = stops + 1
    /\ rpc' = "idle" /\ rbatch' = <<>>
    /\ UNCHANGED <<dedup, cards, chats, chat, erp, digesting>>

DigestStop ==
    /\ dpc # "idle" /\ stops < MaxStops
    /\ stops' = stops + 1
    /\ dpc' = "idle"
    /\ UNCHANGED <<dweek, drow, digests, filed, erp, reminding>>

Next ==
    \/ Tick
    \/ ContactsEdited
    \/ \E c \in Cases : StageMoves(c)
    \/ Remind \/ RemindStop
    \/ DigestCard \/ DigestRecord \/ DigestStop

Spec == Init /\ [][Next]_vars

(***************************************************************************)
(* Fairness.  The reminder loop of main.py starts a pass for ever, and a   *)
(* pass under way goes on.  Nothing is asked of people, of the ERP or of   *)
(* the calendar.                                                           *)
(***************************************************************************)
FairSpec == Spec /\ WF_vars(Remind)

-----------------------------------------------------------------------------
(* Properties *)

(***************************************************************************)
(* Nobody hears the same thing twice: a stage's card and a week's digest   *)
(* go out once, and a project gets one group chat.  Only a pass that was   *)
(* cut short, between the deed and the row that records it, repeats one.   *)
(***************************************************************************)
EachOnce ==
    /\ \A i \in Reminders : cards[i] <= 1 + stops
    /\ \A w \in Weeks : digests[w] <= 1 + stops
    /\ chats <= 1 + stops

(***************************************************************************)
(* A case that enters an outreach stage gets that stage's card, whatever   *)
(* the other cases and the cut passes do, if it stays there and the        *)
(* project has somebody to write to.                                       *)
(***************************************************************************)
ReminderGoesOut ==
    \A i \in Reminders :
        (stage[i[1]] = i[2] /\ contacts = "addressed")
            ~> (cards[i] > 0 \/ stage[i[1]] # i[2] \/ contacts # "addressed")

(***************************************************************************)
(* The cards are dealt with as AtLeastOnce promises: dedup never names a   *)
(* card that was not sent, and a card it names is never sent again.        *)
(***************************************************************************)
CardsAtLeastOnce ==
    INSTANCE AtLeastOnce WITH Items <- Reminders, attempts <- cards,
                              struck <- dedup
CardsImplement == CardsAtLeastOnce!Spec

(***************************************************************************)
(* So are the digests: no week is filed without its digest, and none is    *)
(* sent for a week that was filed, though the table has but one row.       *)
(***************************************************************************)
DigestsAtLeastOnce ==
    INSTANCE AtLeastOnce WITH Items <- Weeks, attempts <- digests,
                              struck <- filed
DigestsImplement == DigestsAtLeastOnce!Spec
=============================================================================
