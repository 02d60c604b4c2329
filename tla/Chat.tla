-------------------------------- MODULE Chat --------------------------------
(***************************************************************************)
(* The chat: messages in a project's Teams chat, taps on its cards and the *)
(* web page's chat, each handled as a turn (src/app/channels/teams/bot.py, *)
(* web.py).  In Teams a message may be a reply to a collection case, or a  *)
(* wish that is answered with a link to the web; all else goes to the      *)
(* agent loop, in which the model asks for tools, round after round        *)
(* (src/app/agent/).  The document tools read the index of Documents.      *)
(***************************************************************************)
EXTENDS Documents

CONSTANTS
    Turns,       \* the messages that are handled
    Cases,       \* the project's collection cases
    NoCase,
    Texts,       \* what a message may say: [wish, question, names]
    Roles,       \* resolve_role's answers: "admin", "pm"
    MaxRounds,   \* MAX_TOOL_ROUNDS
    MaxCalls     \* bound on the tool calls of one answer of the model

ASSUME ChatAssumption ==
    /\ NoCase \notin Cases
    /\ Texts \subseteq [wish : BOOLEAN, question : BOOLEAN, names : SUBSET Cases]
    /\ Roles \subseteq {"admin", "pm"} /\ Roles # {}
    /\ MaxRounds \in Nat \ {0} /\ MaxCalls \in Nat \ {0}

VARIABLES
    linked,   \* the project store knows which project the Teams chat is of
    stage,    \* stage[c]: of the collection cases, what list_open tells apart
    preDue,   \* the ERP has the invoice the tools are asked about as Pre-Due
    paused,   \* ... and is snoozed
    comments, \* ... and has been commented on
    turn

world == <<linked, stage, preDue>>
tooled == <<paused, comments>>
vars == <<documents, world, tooled, turn>>

-----------------------------------------------------------------------------
(* The tool registry *)

ReadTools == {"list_invoices", "get_document"}
WriteTools ==
    {"snooze_invoice", "resume_invoice", "add_comment", "start_follow_up"}
Unregistered == "no_such_tool"
ExtraRoles == {"pm"}

ForRole(r) ==
    IF r = "admin" THEN ReadTools \cup WriteTools
    ELSE ReadTools \cup {w \in WriteTools : r \in ExtraRoles}

IsPermitted(name, r) == name \in ForRole(r)

Names == ReadTools \cup WriteTools \cup {Unregistered}

-----------------------------------------------------------------------------
\* A link or an open form waits for a person, who may never come back to it.
Ended ==
    {"answered", "taken", "which", "link", "unlinked", "form", "done", "failed"}
Calling == {"call", "pause", "resume", "comment"}

NoText == [wish |-> FALSE, question |-> FALSE, names |-> {}]

\* left: the calls of the model's last answer the loop has not come to; owed:
\* those no tool message answers yet.  Which tool a call names is chosen when
\* the loop comes to it.
Turn ==
    [pc : {"new", "chat", "list", "reply", "intent", "ask", "last"}
            \cup Calling \cup Ended,
     role : Roles, text : Texts \cup {NoText}, case : Cases \cup {NoCase},
     round : 1 .. MaxRounds, left : 0 .. MaxCalls, owed : 0 .. MaxCalls]

TypeOK ==
    /\ DocumentsOK
    /\ linked \in BOOLEAN /\ preDue \in BOOLEAN
    /\ paused \in BOOLEAN /\ comments \in BOOLEAN
    /\ stage \in [Cases -> {"waiting", "open", "over"}]
    /\ turn \in [Turns -> Turn]

Init ==
    /\ InitDocuments
    /\ linked = FALSE /\ preDue = TRUE
    /\ paused = FALSE /\ comments = FALSE
    /\ stage \in [Cases -> {"waiting", "over"}]
    /\ turn = [t \in Turns |->
         [pc |-> "new", role |-> CHOOSE r \in Roles : TRUE,
          text |-> NoText, case |-> NoCase,
          round |-> 1, left |-> 0, owed |-> 0]]

At(t, pc) == turn[t].pc = pc
Go(t, pc) == turn' = [turn EXCEPT ![t].pc = pc]

\* The same when what the message says will not be looked at again.
Leave(t, pc) == turn' = [turn EXCEPT ![t].pc = pc, ![t].text = NoText]

-----------------------------------------------------------------------------
(* What goes on beside the chat *)

Link == ~linked /\ linked' = TRUE /\ UNCHANGED <<stage, preDue>>

CaseMoves(c) ==
    /\ \E s \in {"waiting", "open", "over"} : stage' = [stage EXCEPT ![c] = s]
    /\ UNCHANGED <<linked, preDue>>

\* The ERP moves the invoice's stage as it likes.
ErpMoves == preDue' = ~preDue /\ UNCHANGED <<linked, stage>>

Outside ==
    /\ Link \/ ErpMoves \/ \E c \in Cases : CaseMoves(c)
    /\ UNCHANGED <<documents, tooled, turn>>

-----------------------------------------------------------------------------
(* A message comes in *)

\* Taps on a card and the web page's chat go straight to the agent loop.
Receive(t) ==
    /\ At(t, "new")
    /\ \E r \in Roles :
         \/ turn' = [turn EXCEPT ![t].role = r, ![t].pc = "ask"]
         \/ \E x \in Texts :
              turn' = [turn EXCEPT ![t].role = r, ![t].pc = "chat", ![t].text = x]
    /\ UNCHANGED <<world, tooled>>

\* The buttons of a reminder card are links.
CardLink(t) == At(t, "new") /\ Go(t, "link") /\ UNCHANGED <<world, tooled>>

\* A question is never a reply; nor is anything in a chat of no project.
FindProject(t) ==
    /\ At(t, "chat")
    /\ Go(t, IF turn[t].text.question \/ ~linked THEN "intent" ELSE "list")
    /\ UNCHANGED <<world, tooled>>

Open == {c \in Cases : stage[c] # "over"}
Waiting == {c \in Cases : stage[c] = "waiting"}
Candidates == IF Waiting # {} THEN Waiting ELSE Open

\* A single candidate is meant whatever the message says.
Meant(names) ==
    IF \E c \in Cases : Candidates = {c} THEN Candidates
    ELSE Candidates \cap names

PickCase(t) ==
    /\ At(t, "list")
    /\ LET meant == Meant(turn[t].text.names)
       IN  \/ Open = {} /\ Go(t, "intent")
           \/ \E c \in Cases :
                /\ meant = {c}
                /\ turn' = [turn EXCEPT ![t].pc = "reply", ![t].case = c,
                                     ![t].text = NoText]
           \/ /\ Open # {} /\ \A c \in Cases : meant # {c}
              /\ Leave(t, "which")
    /\ UNCHANGED <<world, tooled>>

\* advance_case_with_reply, which does not ask whether the case is still open.
TakeReply(t) ==
    /\ At(t, "reply")
    /\ Go(t, "taken")
    /\ UNCHANGED <<world, tooled>>

\* The wish to snooze, to comment or to follow up: a link to the web's form.
Intent(t) ==
    /\ At(t, "intent")
    /\ Leave(t, IF ~turn[t].text.wish THEN "ask"
                ELSE IF linked THEN "link" ELSE "unlinked")
    /\ UNCHANGED <<world, tooled>>

-----------------------------------------------------------------------------
(* The agent loop *)

AskModel(t) ==
    /\ At(t, "ask")
    /\ \/ Go(t, "answered")
       \/ \E n \in 1 .. MaxCalls :
            turn' = [turn EXCEPT ![t].pc = "call", ![t].left = n, ![t].owed = n]
    /\ UNCHANGED <<world, tooled>>

\* Seeded defect: the rounds are not counted.
AfterRound_Endless(x) == [x EXCEPT !.pc = "ask"]

\* After the last round the model is asked once more, and offered no tool.
AfterRound(x) ==
    IF x.round = MaxRounds THEN [x EXCEPT !.pc = "last"]
    ELSE [x EXCEPT !.pc = "ask", !.round = @ + 1]

\* The tool's result, or why there is none, goes into the messages.
ToolMessage(x) ==
    LET y == [x EXCEPT !.left = @ - 1, !.owed = @ - 1, !.pc = "call"]
    IN  IF y.left = 0 THEN AfterRound(y) ELSE y

Told(t) == turn' = [turn EXCEPT ![t] = ToolMessage(@)]

\* Seeded defect: a call that is not permitted is passed over.
Reject_Drops(t, name) ==
    /\ ~IsPermitted(name, turn[t].role)
    /\ turn' = [turn EXCEPT ![t] = [ToolMessage(@) EXCEPT !.owed = turn[t].owed]]

Reject(t, name) ==
    /\ ~IsPermitted(name, turn[t].role)
    /\ Told(t)

\* A write that comes to the ERP.  A snooze has read the stage, in a call of
\* its own.  (What start_follow_up does is in FollowUps.)
Begin(t, name) ==
    \/ name = "snooze_invoice" /\ ~preDue /\ Go(t, "pause")
    \/ name = "resume_invoice" /\ Go(t, "resume")
    \/ name = "add_comment" /\ Go(t, "comment")

\* Reading tells, or raises.  A write is refused for want of a text, for a
\* Pre-Due invoice that is to be snoozed, or by an ERP that does not answer.
Call(t) ==
    /\ At(t, "call")
    /\ \E name \in Names :
         Reject(t, name) \/ (IsPermitted(name, turn[t].role)
                              /\ (Told(t) \/ Begin(t, name)))
    /\ UNCHANGED <<world, tooled>>

\* A form's request is of no round and answers no call.
FromForm(t) == turn[t].left = 0

\* The ERP does it, or not; the tool may hear an error in either case.
Write(t) ==
    /\ \/ At(t, "pause") /\ paused' \in {paused, TRUE} /\ UNCHANGED comments
       \/ At(t, "resume") /\ paused' \in {paused, FALSE} /\ UNCHANGED comments
       \/ At(t, "comment") /\ comments' \in {comments, TRUE} /\ UNCHANGED paused
    /\ IF FromForm(t) THEN Go(t, "done") ELSE Told(t)
    /\ UNCHANGED world

LastAnswer(t) ==
    /\ At(t, "last")
    /\ Go(t, "answered")
    /\ UNCHANGED <<world, tooled>>

\* The model's service, the ERP of a reply or the sending raises: the request
\* ends with an error.  What the tools have done stays done.
Fail(t) ==
    /\ turn[t].pc \notin {"new"} \cup Calling \cup Ended
    /\ Leave(t, "failed")
    /\ UNCHANGED <<world, tooled>>

-----------------------------------------------------------------------------
(* The web page *)

\* A session, and the form the link is for.  The link carries its expiry and
\* is kept nowhere, so it outlives the process, as the session does not.
FollowLink(t) == At(t, "link") /\ Go(t, "form") /\ UNCHANGED <<world, tooled>>

\* ... unless it has expired, or is not as it was made.
DeadLink(t) == At(t, "link") /\ Go(t, "failed") /\ UNCHANGED <<world, tooled>>

\* The forms, of any session; refused as in Call.
SubmitPause(t) ==
    /\ At(t, "form")
    /\ \/ Go(t, "done")
       \/ \E name \in {"snooze_invoice", "resume_invoice"} : Begin(t, name)
    /\ UNCHANGED <<world, tooled>>

SubmitComment(t) ==
    /\ At(t, "form")
    /\ Go(t, "done") \/ Begin(t, "add_comment")
    /\ UNCHANGED <<world, tooled>>

Person(t) ==
    \/ Receive(t) \/ CardLink(t) \/ FollowLink(t) \/ DeadLink(t)
    \/ SubmitPause(t) \/ SubmitComment(t)

Advance(t) ==
    \/ FindProject(t) \/ PickCase(t) \/ TakeReply(t) \/ Intent(t)
    \/ AskModel(t) \/ Call(t) \/ Write(t) \/ LastAnswer(t)
    \/ Fail(t)

\* The process dies: turns, sessions and uploads are gone.
Restart ==
    /\ LoseUploads
    /\ turn' = [t \in Turns |->
         IF turn[t].pc \in ({"new"} \cup Ended) \ {"form"} THEN turn[t]
         ELSE [turn[t] EXCEPT !.pc = "failed", !.text = NoText]]
    /\ UNCHANGED <<world, tooled>>

Next ==
    \/ Outside
    \/ \E t \in Turns : (Person(t) \/ Advance(t)) /\ UNCHANGED documents
    \/ Uploading /\ UNCHANGED <<world, tooled, turn>>
    \/ Restart

Spec == Init /\ [][Next]_vars
FairSpec == Spec /\ \A t \in Turns : WF_vars(Advance(t) /\ UNCHANGED documents)

-----------------------------------------------------------------------------
(* Properties *)

(***************************************************************************)
(* Whenever the model is asked, every tool call it has made is answered by *)
(* a tool message, the calls that were rejected or raised included: the    *)
(* service refuses messages in which one is missing, and the turn would    *)
(* fail for good (loop.py, run).                                           *)
(***************************************************************************)
CallsAnswered == \A t \in Turns : turn[t].pc \in {"ask", "last"} => turn[t].owed = 0

(***************************************************************************)
(* Every message comes to an end, whatever the model asks for: it is       *)
(* answered, taken by a case, asked about, linked or fails, and so is every *)
(* form that is submitted (loop.py, MAX_TOOL_ROUNDS).                      *)
(***************************************************************************)
MessageSettles == \A t \in Turns : turn[t].pc # "new" ~> turn[t].pc \in Ended
=============================================================================
