----------------------------- MODULE FollowUps -----------------------------
(***************************************************************************)
(* Follow-up campaigns: a person asks for one (POST .../follow-up, or the  *)
(* chat tool start_follow_up) and may cancel it; a task sends what is due  *)
(* and mirrors the customers' replies into the project's Teams chat        *)
(* (src/app/services/followup_engine.py, followup_store.py, main.py).      *)
(* A mail or a message is its being sent.                                  *)
(***************************************************************************)
EXTENDS Integers, SequencesExt

CONSTANTS
    ErpCases,     \* the ERP cases (also: their invoices)
    Askers,       \* people who ask for campaigns
    EndDays,      \* the end dates they give; NoEnd for none
    NoEnd,
    NoCase,
    Cadence,      \* cadence_days
    Recent,       \* get_case_timeline(limit): how many events are read
    NumCamps,     \* bound on the campaigns
    LastDay,      \* bound on the days
    MaxReplies,   \* bound on the replies of a case
    MaxBreaks     \* bound on passes that are cut short

ASSUME FollowUpsAssumption ==
    /\ NoCase \notin ErpCases
    /\ Cadence \in Nat \ {0} /\ Recent \in Nat \ {0}
    /\ NumCamps \in Nat /\ LastDay \in Nat
    /\ MaxReplies \in Nat /\ MaxBreaks \in Nat
    /\ EndDays \subseteq Nat \cup {NoEnd} /\ NoEnd \notin Nat

Camps == 1 .. NumCamps   \* the campaign ids, in the order they are used
Dates == 0 .. LastDay
Never == LastDay + 1

VARIABLES
    today,
    owned,       \* the cases whose invoice has an open collection case
    heard,       \* heard[c]: replies on the ERP timeline of c, oldest first
    hasChat,     \* the project has a Teams chat
    \* the campaigns, and who is between the check and the insert of one
    camp, asking,
    \* the pass: send_due_followups, then mirror_new_replies_to_teams
    fpc, fbatch, queue, cursor,
    \* history, for the properties only
    mailed,      \* the day of a campaign's last mail, whatever its row says
    early,       \* its mails less than a cadence after the one before
    posted,      \* posted[k][r]: how often reply r was mirrored for k
    breaks       \* passes cut short so far

outside == <<today, owned, heard, hasChat>>
campaigns == <<camp, asking>>
following == <<fpc, fbatch, queue, cursor, mailed, early, posted>>
followVars == <<outside, campaigns, following, breaks>>

Campaign ==
    [case : ErpCases, status : {"active", "completed", "cancelled"},
     next : Nat, last : Dates \cup {Never}, end : EndDays]
NoCampaign == [case |-> NoCase]

FollowTypeOK ==
    /\ today \in Dates /\ owned \in SUBSET ErpCases
    /\ heard \in [ErpCases -> 0 .. MaxReplies]
    /\ hasChat \in BOOLEAN
    /\ camp \in [Camps -> Campaign \cup {NoCampaign}]
    /\ asking \in [Askers -> ErpCases \cup {NoCase}]
    /\ fpc \in {"idle", "next", "mail", "mark", "mirror", "post", "mirrored"}
    /\ fbatch \in Seq(Camps) /\ queue \in Seq(1 .. MaxReplies)
    /\ fpc \in {"mail", "mark", "post", "mirrored"} => fbatch # <<>>
    /\ cursor \in [Camps -> 0 .. MaxReplies]
    /\ mailed \in [Camps -> Dates \cup {Never}]
    /\ early \in [Camps -> Nat]
    /\ posted \in [Camps -> [1 .. MaxReplies -> Nat]]
    /\ breaks \in 0 .. MaxBreaks

FollowInit ==
    /\ today = 0
    /\ owned = {}
    /\ heard = [c \in ErpCases |-> 0]
    /\ hasChat = FALSE
    /\ camp = [k \in Camps |-> NoCampaign]
    /\ asking = [a \in Askers |-> NoCase]
    /\ fpc = "idle" /\ fbatch = <<>> /\ queue = <<>>
    /\ cursor = [k \in Camps |-> 0]
    /\ mailed = [k \in Camps |-> Never]
    /\ early = [k \in Camps |-> 0]
    /\ posted = [k \in Camps |-> [r \in 1 .. MaxReplies |-> 0]]
    /\ breaks = 0

-----------------------------------------------------------------------------
(* The days, the ERP, the collection agent and the reminders *)

DayPasses ==
    /\ today < LastDay
    /\ today' = today + 1
    /\ UNCHANGED <<owned, heard, hasChat, campaigns, following, breaks>>

\* The invoice sync opens a collection case, or one ends.
OwnershipMoves(c) ==
    /\ owned' = IF c \in owned THEN owned \ {c} ELSE owned \cup {c}
    /\ UNCHANGED <<today, heard, hasChat, campaigns, following, breaks>>

CustomerReplies(c) ==
    /\ heard[c] < MaxReplies
    /\ heard' = [heard EXCEPT ![c] = @ + 1]
    /\ UNCHANGED <<today, owned, hasChat, campaigns, following, breaks>>

ChatCreated ==
    /\ ~hasChat /\ hasChat' = TRUE
    /\ UNCHANGED <<today, owned, heard, campaigns, following, breaks>>

-----------------------------------------------------------------------------
(* The campaigns: what people do *)

Active(k) == camp[k].case # NoCase /\ camp[k].status = "active"
Unused == {k \in Camps : camp[k].case = NoCase}
First(S) == CHOOSE k \in S : \A j \in S : k <= j

AskCheck(a, c) ==
    /\ asking[a] = NoCase
    /\ \A k \in Camps : camp[k].case = c => ~Active(k)
    /\ asking' = [asking EXCEPT ![a] = c]
    /\ UNCHANGED <<camp, outside, following, breaks>>

\* In a transaction of its own, and without a second look.  The first mail
\* is due at once.
AskInsert(a) ==
    /\ asking[a] # NoCase /\ Unused # {}
    /\ \E e \in EndDays :
         /\ e # NoEnd => e >= today
         /\ camp' = [camp EXCEPT ![First(Unused)] =
              [case |-> asking[a], status |-> "active", next |-> today,
               last |-> Never, end |-> e]]
    /\ asking' = [asking EXCEPT ![a] = NoCase]
    /\ UNCHANGED <<outside, following, breaks>>

CancelAsked(c) ==
    /\ \E k \in Camps : camp[k].case = c /\ Active(k)
    /\ camp' = [k \in Camps |->
         IF camp[k].case = c /\ Active(k)
         THEN [camp[k] EXCEPT !.status = "cancelled"] ELSE camp[k]]
    /\ UNCHANGED <<asking, outside, following, breaks>>

-----------------------------------------------------------------------------
(* send_due_followups *)

\* Seeded defect: cancelled campaigns are listed too.
Listed_Cancelled(k) == camp[k].case # NoCase /\ camp[k].next <= today

Listed(k) == Active(k) /\ camp[k].next <= today

FollowList ==
    /\ fpc = "idle"
    /\ fbatch' = SetToSeq({k \in Camps : Listed(k)})
    /\ fpc' = "next"
    /\ UNCHANGED <<queue, cursor, mailed, early, posted, outside, campaigns, breaks>>

\* The keys of the collection cases: get_open_for_case is asked for the ERP's
\* id of the case, and finds the row whose case_id is that of the invoice.
CaseKey(c) == <<"case", c>>
OpenKeys == {CaseKey(c) : c \in owned}

\* Skipped: a collection case is open, or the ERP does not answer.
FollowSkip ==
    /\ fpc = "next" /\ fbatch # <<>>
    /\ fbatch' = Tail(fbatch)
    /\ UNCHANGED <<fpc, queue, cursor, mailed, early, posted, outside, campaigns, breaks>>

FollowTake ==
    /\ fpc = "next" /\ fbatch # <<>>
    /\ camp[Head(fbatch)].case \notin OpenKeys
    /\ fpc' = "mail"
    /\ UNCHANGED <<fbatch, queue, cursor, mailed, early, posted, outside, campaigns, breaks>>

FollowMail ==
    /\ fpc = "mail"
    /\ LET k == Head(fbatch)
       IN /\ early' = [early EXCEPT ![k] =
               IF mailed[k] # Never /\ today < mailed[k] + Cadence
               THEN @ + 1 ELSE @]
          /\ mailed' = [mailed EXCEPT ![k] = today]
    /\ fpc' = "mark"
    /\ UNCHANGED <<fbatch, queue, cursor, posted, outside, campaigns, breaks>>

\* Seeded defect: a late mail does not move the dates that follow it.
NextDate_FromPlan(k) == camp[k].next + Cadence

NextDate(k) == today + Cadence

\* mark_sent writes the status whatever it has become.
FollowMark ==
    /\ fpc = "mark"
    /\ LET k == Head(fbatch)
           n == NextDate(k)
       IN camp' = [camp EXCEPT
            ![k].last = today,
            ![k].next = n,
            ![k].status = IF camp[k].end # NoEnd /\ n > camp[k].end
                          THEN "completed" ELSE "active"]
    /\ fbatch' = Tail(fbatch)
    /\ fpc' = "next"
    /\ UNCHANGED <<queue, cursor, mailed, early, posted, asking, outside, breaks>>

-----------------------------------------------------------------------------
(* mirror_new_replies_to_teams, in the same pass *)

MirrorList ==
    /\ fpc = "next" /\ fbatch = <<>>
    /\ fbatch' = SetToSeq({k \in Camps : Active(k)})
    /\ fpc' = "mirror"
    /\ UNCHANGED <<queue, cursor, mailed, early, posted, outside, campaigns, breaks>>

\* Seeded defect: what was mirrored before is mirrored again.
Passed_All(k) ==
    LET h == heard[camp[k].case] IN IF h > Recent THEN h - Recent ELSE 0

\* The replies up to here are passed over: mirrored before, or no longer on
\* the part of the timeline that is read.
Passed(k) ==
    LET h == heard[camp[k].case]
    IN  IF h > Recent + cursor[k] THEN h - Recent ELSE cursor[k]

\* Nothing new, no chat, or the ERP does not answer.
MirrorSkip ==
    /\ fpc = "mirror" /\ fbatch # <<>>
    /\ fbatch' = Tail(fbatch)
    /\ UNCHANGED <<fpc, queue, cursor, mailed, early, posted, outside, campaigns, breaks>>

MirrorTake ==
    /\ fpc = "mirror" /\ fbatch # <<>> /\ hasChat
    /\ LET k == Head(fbatch)
           p == Passed(k)
       IN queue' = [i \in 1 .. heard[camp[k].case] - p |-> p + i]
    /\ queue' # <<>>
    /\ fpc' = "post"
    /\ UNCHANGED <<fbatch, cursor, mailed, early, posted, outside, campaigns, breaks>>

\* The last one posted, the campaign's cursor moves to it.
MirrorPost ==
    /\ fpc = "post" /\ queue # <<>>
    /\ posted' = [posted EXCEPT ![Head(fbatch)][Head(queue)] = @ + 1]
    /\ queue' = IF Len(queue) = 1 THEN queue ELSE Tail(queue)
    /\ fpc' = IF Len(queue) = 1 THEN "mirrored" ELSE "post"
    /\ UNCHANGED <<fbatch, cursor, mailed, early, outside, campaigns, breaks>>

MirrorMark ==
    /\ fpc = "mirrored"
    /\ cursor' = [cursor EXCEPT ![Head(fbatch)] = Head(queue)]
    /\ queue' = <<>> /\ fbatch' = Tail(fbatch)
    /\ fpc' = "mirror"
    /\ UNCHANGED <<mailed, early, posted, outside, campaigns, breaks>>

FollowDone ==
    /\ fpc = "mirror" /\ fbatch = <<>>
    /\ fpc' = "idle"
    /\ UNCHANGED <<fbatch, queue, cursor, mailed, early, posted, outside, campaigns, breaks>>

-----------------------------------------------------------------------------
(* A pass is cut short: an exception ends this pass and the loop of main.py *)
(* goes on with the next, or the process dies and is started again.         *)

FollowStop ==
    /\ fpc # "idle" /\ breaks < MaxBreaks
    /\ breaks' = breaks + 1
    /\ fpc' = "idle" /\ fbatch' = <<>> /\ queue' = <<>>
    /\ UNCHANGED <<cursor, mailed, early, posted, outside, campaigns>>

Follow ==
    \/ FollowList \/ FollowSkip \/ FollowTake \/ FollowMail \/ FollowMark
    \/ MirrorList \/ MirrorSkip \/ MirrorTake \/ MirrorPost \/ MirrorMark
    \/ FollowDone

FollowNext ==
    \/ DayPasses
    \/ ChatCreated
    \/ \E c \in ErpCases : OwnershipMoves(c) \/ CustomerReplies(c) \/ CancelAsked(c)
    \/ \E a \in Askers : AskInsert(a) \/ \E c \in ErpCases : AskCheck(a, c)
    \/ Follow
    \/ FollowStop

FollowSpec == FollowInit /\ [][FollowNext]_followVars

-----------------------------------------------------------------------------
(* Properties *)

(***************************************************************************)
(* A campaign's customer is not written to twice within a cadence, however *)
(* late its passes run: it never catches up on what it missed.  Only a     *)
(* pass cut short, between a mail and mark_sent, costs an early mail.      *)
(***************************************************************************)
Paced == \A k \in Camps : early[k] <= breaks

(***************************************************************************)
(* A campaign posts a reply into the project's chat once, but for the      *)
(* passes cut short before mark_mirrored.                                  *)
(***************************************************************************)
MirroredOnce ==
    \A k \in Camps : \A r \in 1 .. MaxReplies : posted[k][r] <= 1 + breaks

(***************************************************************************)
(* What is cancelled or completed is done with: no later pass takes it up  *)
(* again.  Only the very pass that had the campaign in hand when it was    *)
(* cancelled can call it active again (mark_sent does not look).           *)
(***************************************************************************)
OverIsOver ==
    [][\A k \in Camps :
         (camp[k].case # NoCase /\ ~Active(k) /\ k \notin ToSet(fbatch))
            => (~Active(k)' /\ k \notin ToSet(fbatch'))]_followVars
=============================================================================
