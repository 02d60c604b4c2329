# Verification of the AR outcome agent

TLA+ models of the accounts-receivable copilot in `src/`, the TLC runs that
check them on small instances, and TLAPS proofs of their main theorems for
every value of the constants. The system chases unpaid invoices by email: it
decides on its own when to write, to whom and what, reads the answers, and must
stop in time. Most of what can go wrong is a matter of order: two writers of
one row, a reply while an email is being drafted, a promise that outlives the
state it was made in. The models are about that. Of the wording of an email or a
reply they have only what the code decides on.

Paths below are relative to `src/app/outcome_agent/` unless they start with
`app/`.

## 1. The system

One Python process, one asyncio event loop, one SQLite file. Background tasks
(`app/main.py`) poll for ever; the HTTP API, the Teams bot and the demo run
handlers beside them. A step of any of them is the code between two `await`s.

| Part | State it keeps | Operations | Talks to |
|---|---|---|---|
| Case state machine, budgets (`domain/`) | none: pure functions | `transition`, budget counters, world predicates | called by every loop |
| Case store, ledger (`store/`) | `oa_cases`: one row per invoice under way; `oa_events`; `oa_processed_mail` | get, update, list_due, create, close | everything below |
| Case lock and guarded write (`loop/concurrency_guard.py`) | a lock per case, in memory | `get_case_lock`, `guarded_case_update` | both loops |
| Case loop (`loop/executor.py`) | copy of a row | decide, draft, guard, send, persist, escalate | store, LLM, mail, PM notice |
| Traced loop (`loop/traced_loop.py`) | copy of a row, trace | the same, step by step, for the UI's follow-up and mailbox reply | the same |
| Tick, jump, signals (`loop/scheduler.py`, `post_outcome.py`, `signal_ingestion.py`) | none of their own | run_agent_tick, advance_case_with_reply, simulate_payment / dispute, jump_clock | case loop, store |
| Goals and planner (`domain/goals.py`, `loop/action_simulator.py`, `next_best_action.py`) | none | objective, tactic, candidates, pick | case loop |
| Reply interpreter (`loop/reply_interpreter.py`, `adapters/llm_tools.py`) | none | text to a type, a date, doubt | signals |
| Mail intake (`loop/mail_poller.py`, `app/services/graph_mailbox.py`) | `oa_processed_mail` | poll the newest unread mail, hand each reply to its case | Graph mailbox, signals |
| Invoice and contact sync (`loop/invoice_sync.py`) | rows it read from the ERP | create, refresh, close cases | ERP, store |
| Case API (`api/routes.py`) | none | pause, resume, close, restart, sync, read-only views; the edit of a promise is in `app/channels/web.py` | store, loops |
| Follow-up campaigns (`app/services/followup_*`) | campaign rows | ask, cancel, send, mirror replies | ERP, mail, Teams |
| Reminders, digests (`app/channels/teams/proactive.py`, `app/services/digest_*`) | sent-marks | send and mark | ERP, Teams |
| Graph store, Azure outbox (`app/services/graph_store.py`, `azure/`) | temporal nodes and edges; outbox rows | upsert, supersede, drain with retries | Cosmos, Postgres |
| Chat agent (`app/agent/`, `app/guardrails/`) | the messages of a turn | at most eight rounds of tool calls | LLM, ERP |
| Web, magic links, Teams bot (`app/channels/`) | sessions, conversation ids | authenticate, forward | ERP, Teams |
| Documents (`app/documents/`) | files, chunks | ingest, chunk, index, search | SQLite |
| Learning, semantics, traces (`store/`) | weights, facts, traces | record, reorder, explain | loops |
| UI, infrastructure, archived engine | none | | |

What is hard, and what makes each part correct:

* **One row, many writers.** A run copies the row, thinks for seconds (LLM
  calls), then takes the lock, re-reads, sends, and writes its copy back. In
  between, ticks, replies, payments, disputes, the clock jump, four buttons and
  the edit of a promise write the same row. Correct means: the budget of unanswered emails holds; a
  payment stops an email and is not overwritten; an opt-out holds; after a
  hand-off the agent is silent; an exhausted case reaches a human.
* **Long conversations.** Replies, promises, check-backs, missed dates and clock
  jumps pile up over days. Correct means: one promise at a time, each judged
  once, none acknowledged that was not made; a customer who asked for time is
  given it; the customer hears nothing before the PM agrees; no open case is
  forgotten.
* **A mailbox that never forgets.** The poller sees the same mail in every poll;
  only its own table tells it what is done, and it can die between the case and
  the table.
* **At-least-once everywhere else.** Reminders, digests, campaigns and the
  outbox send first and mark later; the graph supersedes in two transactions.
  Correct means: a thing is repeated only by a pass that was cut short, is never
  struck off undone, and what is over stays over.
* **A model that may say anything.** The language model labels replies, plans,
  drafts, judges its own drafts and asks for tools. Correct means: what it says is
  checked where it matters, and the loop around it ends.
* **An ERP read in pieces.** Two feeds, one of which may fail, two syncs at once,
  and rows that were read some awaits ago. Correct means: one open case for an
  invoice, no balance that an outage made up, a payment that gets through.
* **Liveness by polling.** Nothing wakes a case but a tick that lists it; a state
  left out of a list is a case nobody looks at again.

`PROJECT.json` lists every component with what is and is not modelled, and every
hazard at its line.

## 2. The modules

| Module | Models | Code it stands for |
|---|---|---|
| `CaseDomain` | states, world truth, budget, the transitions that are raised, what a reply does, the guardrail | `domain/types.py`, `budgets.py`, `state_machine.py`, `world_model.py`, `loop/guardrails.py`, parts of `signal_ingestion.py` |
| `SendTail` | one row under concurrent operations, await by await | `loop/executor.py`, `traced_loop.py`, `scheduler.py`, `concurrency_guard.py`, `api/routes.py`, an endpoint of `app/channels/web.py` |
| `Goals` | objective, tactics, candidate pool, recipient | `domain/goals.py`, `loop/action_simulator.py`, `communication.py`, `memory/context_builder.py` |
| `CaseLifecycle` | one case over days, each handler one step | `loop/scheduler.py`, `executor.py`, `post_outcome.py`, `signal_ingestion.py`, `api/routes.py`, an endpoint of `app/channels/web.py` |
| `ConversationTurn` | one run's reading, planning, drafting, judging and sending | `adapters/llm_tools.py`, `loop/traced_loop.py`, `reply_interpreter.py`, `critic.py`, `communication.py`, `disclosure.py`, `app/services/chase_guardrails.py`, the contact sync |
| `InvoiceSync` | syncs of invoices to cases, await by await | `loop/invoice_sync.py`, `notifications.py`, `store/case_store.py` |
| `MailIntake` | the mailbox poll and its table | `loop/mail_poller.py`, `app/services/graph_mailbox.py`, `store/case_store.py` |
| `Notices` | reminder cards, the group chat, weekly digests | `app/channels/teams/proactive.py`, `app/services/digest_*.py` |
| `FollowUps` | campaigns and mirrored replies | `app/services/followup_*.py`, their endpoints in `app/channels/web.py`, `app/agent/tools_write.py` |
| `GraphOutbox` | the graph of an invoice, in SQLite or by way of the outbox in Cosmos | `app/services/graph_store.py`, `azure/*.py`, `runtime/stores.py`, `memory/temporal_graph.py` |
| `Documents` | uploads, chunks and the index | `app/documents/`, the upload endpoint |
| `Chat` | a message in Teams or on the web, to its answer; links and forms | `app/agent/`, `app/channels/teams/bot.py`, `app/guardrails/` |
| `AtLeastOnce` | the abstract specification of a poller with a table | none: what `MailIntake` and `Notices` implement |
| `MC*` | instances for TLC that need definitions | |
| `GoalsProofs` | theorems about `CaseDomain` and `Goals` | |
| `PollersProofs` | theorems about `Notices`, `MailIntake` and `FollowUps` | |
| other `*Proofs` | theorems about the module they are named after; `ChatProofs` also about `Documents` | |

`CaseDomain` and `Goals` have no variables; `Goals` extends `CaseDomain`,
`CaseLifecycle` and `ConversationTurn` extend `Goals`, `SendTail` and
`InvoiceSync` extend `CaseDomain`, `Chat` extends `Documents`. The pollers keep
their own names for what they have in common (`IntakeSpec`, `FollowSpec`,
`DayPasses`, `breaks`, ...), so that one module of proofs extends all three. Three state
machines look at one row of `oa_cases`, and none contains another:

* **SendTail** has every await of one case and no calendar. `row` is the row;
  `snap[w]` the dict a run works on; `fresh[w]` the state that
  `guarded_case_update` re-read; `lock` the asyncio lock; `pc[w]` the await the
  run of task `w` stands at: `judge`/`sweep` (writes of the tick's sweeps),
  `fetch` (a due row about to be re-read), `loop` (the head of either loop),
  `save` (a reply about to be stored), `post` (a signal about to be stored),
  `escalate`/`notice` (outside the lock), and `guard`, `send`, `handoff`,
  `persist`, `write` inside it. A tick may find any unsuppressed case due, and
  the planner picks any outcome.
* **CaseLifecycle** has the calendar and no awaits. `case` is the row with
  dialogue, commitments, failed asks, target and `next` (`next_action_at`, -1
  when NULL); `day` is the simulated clock; `sent` the email the last step sent.
  `RunCaseLoop`, `TickOutcomes` and `ReplyOutcomes` are sets of outcomes: the
  choices of scores, language model and content checks are left open.
* **ConversationTurn** has one run at a time and the text. A reply is the set of
  signals the regular expressions find in its words, a draft the set of faults
  its body has, the promised day it asserts, and what is wrong with its subject,
  which the model words too and nothing checks. `Interpret` is what the
  expressions make of the words, `ReadReply` what is left of the model's label
  after the code has corrected it; `Critique` is the critic, `Verdicts` what is
  left of the model's own judgement; `Template` the safe fallback. The row is
  edited meanwhile by people and by the contact sync (`ContactsRead`,
  `ContactsWritten`), which replaces the PM's address and the customer's by the
  project's contact and tells the old ones so. Nothing keeps the addresses apart:
  the PM and the customer may share one, and a reply may name anybody's.

What SendTail assumes of the planner (a run escalates without planning exactly
in `MustEscalate`) is proved of `Goals` (`PlannerEscalates`), so the abstraction
is not a guess.

The others:

* **InvoiceSync.** `cases[i]` are the rows of an invoice, oldest first, of which
  the code works on an open one; each sync has its own copy of the feeds and of
  the row it read. What the agent, the customer and people do to a case between
  two awaits is `CaseMoves`; a run or the handler of a reply also reads the row
  (`CaseRead`) and writes state and world back later (`CaseWritten`), by the guarded
  write or without. The aging feed may fail, or answer without the invoice's row.
  `Admits` is the unique index, on which a second insert raises.
* **MailIntake** has the inbox as a sequence (`unread`, oldest first), the list a
  poll works through (`batch`, newest first), the table (`processed`) and the
  await it stands at (`pc`). Arriving mail and a person who opens one are external.
* **Notices** has both passes of one project with an await between the deed and
  its row: `rpc`, `rbatch`, `dedup`, `chat` of the reminders, `dpc`, `dweek`,
  `drow` of the digests, whose table keeps one row per project.
* **FollowUps** has the check and the insert of a new campaign apart (`asking`),
  and one pass that sends what is due and then mirrors replies (`fpc`, `fbatch`,
  `queue`, `cursor`). `Passed` is the reply up to which there is nothing to post:
  mirrored before, or off the part of the timeline that is read. A campaign looks for its collection case by `CaseKey`, the
  ERP's id, under which there is none.
* **GraphOutbox.** The run writes its node and its edges (`todo`, `wpc`): in SQLite
  by closing and adding, in Azure by rows of the outbox (`log`, `status`,
  `attempts`), flushed call by call (`at`) by the run itself and by the run of
  another case. A reply with a date writes beside them (`rpc`, `listed`, `meant`): it
  closes what blocks the invoice and adds its commitment, before the case lock is
  taken and not by way of the outbox. Cosmos' upsert drops the vertex, and its edges, before it adds it.
* **Documents.** An upload writes its file, deletes the old chunks and inserts the
  new ones; `Windows` is `chunk_pages` on one page. **Chat** follows a message
  (`pc`): a reply for one of the project's cases, a wish that is answered with a
  link, or a question for the agent loop, with its rounds, the calls not yet come
  to (`left`) and those without a tool message (`owed`). A link becomes a form,
  which calls the same tools.

History variables (marked so where they are declared) record what the
properties talk about: emails since the last answer, whether the PM was told,
whether an opt-out was saved, promises made, cards sent, rows carried out. No
guard of the program reads them; the counts of crashes, replies, faults and stops
are also the bounds (`MaxCrashes`, `MaxReplies`, `MaxFaults`, `MaxStops`,
`MaxCuts`, `MaxBreaks`, `MaxMoves`, `MaxEdits`).

Every module with variables has a `TypeOK` (`IntakeTypeOK`, `FollowTypeOK`).
`send_one_agent` checks that of SendTail; all of them are proved.

## 3. The runs

| Run | Instance | Shows |
|---|---|---|
| `send_one_agent` | one task for all loops, the mailbox reply included, one for the signals, eight replies, four buttons and the edit of a promise, one crash, budget 2 | `BoundedAutonomy`, `PaidNotChased`, `PaymentKept`, `NeverAfterOptOut`, `HandOffHolds`, `TypeOK` |
| `send_two_agents` | tick poller against a manual follow-up, fairness, four starting states, budget 1 | `TailMutex`, `RunsEnd`, `ExhaustionReachesHuman` |
| `lifecycle` | due on day 1, days 0-3, fifteen replies and the edit of a promise, two of them in a row, budgets of 2 | `OnePromise`, `OneMissPerPromise`, `ConfirmGrounded`, `DeferralKept`, `PmFirst`, `AlwaysWoken` |
| `turn` | two replies out of all signals and pairs with a dispute, two addresses that anybody may have, two days, eight drafts, one edit | `OnlyCleanIsSent`, `OutsidersAreTold`, `DisputeIsHeard` |
| `invoice_sync` | one invoice, two syncs, two cases at most, two moves of ERP, people, runs, handlers and crashes, fairness of a sync under way | `OneOpenCase`, `BalanceIsGiven`, `PaymentStopsChase` |
| `mail_intake` | two replies, a bounce, a stray mail, a window of 3, two polls cut short, fairness of the poll | `AppliedOnce`, `ReplyGetsItsTurn`, `RepliesImplement` |
| `notices` | two cases, two stages, three days in weeks of two, one pass cut short, fairness of the reminder pass | `EachOnce`, `ReminderGoesOut`, `CardsImplement`, `DigestsImplement` |
| `followups` | two people, two campaigns, one case, three days, two replies, one pass cut short | `MirroredOnce`, `Paced`, `OverIsOver` |
| `graph` | two commitments and a blocker, both stores, a reply with a date beside the runs, four operations, two attempts, two faults | `OneCurrent`, `NewestIsShown`, `DoneIsDone` |
| `chat` | one message in every wording, two cases, both roles, three rounds of two calls, two uploads of one document, crashes, fairness of the turn | `CallsAnswered`, `IndexedAsStored`, `PassagesFound`, `MessageSettles` |
| `invoice_sync_opt_out` | one sync, the bounds of `invoice_sync` | a violation of `OptOutOutlivesCase`, below |
| `turn_retired` | the bounds of `turn` | a violation of `RetiredIsLeftAlone`, below |

Deadlock is checked where the program polls for ever. It is not in `turn`,
`invoice_sync`, `graph` and `chat` (`CHECK_DEADLOCK FALSE`): their runs, syncs and
messages come from outside, in bounded numbers, and then nothing is left to do.

Two runs are meant to find a violation; `PROJECT.json` has the findings.

* `invoice_sync_opt_out`: chase_guardrails.py:16 says "do not email opted-out
  contacts", but a case that ended in an opt-out is not open, so the next sync of
  its unpaid invoice creates another, with consent.
* `turn_retired`: the contact sync tells the old address "You will no longer
  receive updates" (invoice_sync.py:438). It takes no lock, and a run that copied
  the case before writes to that address once more; its final write also puts the
  address back into the row.

### The refinement

`AtLeastOnce` says what each poller with a table promises: a thing is struck off
only after it was attempted, and never attempted once struck off. `RepliesImplement`
(mail, where an attempt is handing the reply to its case), `CardsImplement` and
`DigestsImplement` (where it is the sending) map the pollers' variables to it with
`INSTANCE ... WITH`. All three are also proved (`IntakeImplements`,
`CardsImplementAtLeastOnce`, `DigestsImplementAtLeastOnce`).
Campaigns do not implement it: `mark_sent` may set a cancelled campaign active
again, so `OverIsOver` says how far it holds.

### Bounds, and why they are enough

* *Tasks, syncs, flushers.* Two: the hazards of a row are between one run and one
  other writer. Everything a third could do, the second can do after it.
* *Budget 2 (1 under fairness).* The limit is crossed by counting up from below
  and by a count that was lost; 2 has both. The proofs are for every budget.
* *Replies.* One of each class that any definition distinguishes: dated or not,
  in the past, today, in the future, doubtful, authorising; in `turn` one of each
  signal, and each beside a dispute. Two in a row give every pair: a promise
  superseded, a check-back after a promise, an opt-out after a dispute.
* *Days 0-3.* Due day, a promise for the next day, a nudge, and a jump over one.
  Three days in weeks of two have a week that ends during a pass.
* *One crash or two.* Each costs one email, one repeated reply or one repeated
  card; the bound in the property is a count of them, so more only repeats the
  first.
* *Counters.* `postponements_used` and `misses_used` stop at their maximum and
  `failedAsks` at 2: the code only compares them with `>=` these values. The
  history `outreach` stops one above what the property allows.
* *Window 3 for 25; outbox limit 2 for 50, attempts 2 for 5.* Smaller than what
  there is, so that a burst pushes a reply out, a flush ends with rows left, and a
  row is given up.
* *Three rounds for eight.* A first, a middle and a last one.
* *Pages of 0 to 12 characters, chunks of 4, overlap 2.* Every position of a page's
  end relative to a chunk's, up to five chunks.
* *Face 2.* Nothing owed, a part, and all of it.

### Fairness

* `SendTail!FairSpec` (`send_two_agents`): weak fairness of selecting a due case and
  of every run under way (the poll loop in `app/main.py` swallows exceptions and
  sleeps, for ever; asyncio runs every ready task), strong fairness of taking the
  lock (`asyncio.Lock` wakes its waiters in order).
* `MailIntake!IntakeFairSpec`, `Notices!FairSpec`: weak fairness of the poll, for the same
  reason.
* `InvoiceSync!Spec`: weak fairness of each sync under way; none of starting one.
* `Chat!FairSpec`: weak fairness of a turn under way (asyncio runs a ready task, the
  clients it waits for have timeouts); none of messages, of links followed, of forms
  submitted, or of uploads.

Nothing is asked of customers, of the ERP, of people or of the inbox. All other
runs check safety only.

### What each property is careful about

* `BoundedAutonomy` is for loops that run one at a time on a case. A crash costs
  one email: it went out before its count was written.
* `PaymentKept` leaves out writes that met a row which a button had just taken
  out of a terminal state.
* `NeverAfterOptOut` counts a request to be left alone from when it is saved. The
  mailbox reply is in the run, but its endpoint never saves an opt-out (below), and
  what is lost there the property does not protect. A run that another loop runs
  beside is left out too: its copy would write the consent back.
* `HandOffHolds` excepts a crash between the notice to the PM and the write of the
  state.
* `ExhaustionReachesHuman` is checked without crashes: the notice to the PM is
  the last step of the run that escalates, and nothing sends it later.
* `DeferralKept` ends when an operator jumps the clock, resumes or restarts, and
  when the customer writes again. A jump may wake a case early, since
  check-backs are never retired.
* `RepliesImplement` says tried, not saved: a reply whose handling raises is
  marked all the same and not read again.
* `ReplyGetsItsTurn` is about replies that stay unread and in the window: a
  person who opens one first, or 25 newer mails, take it out of the poller's
  sight.
* `Paced` counts the emails themselves, not the dates on record: one sooner than a
  cadence after the last needs a pass that was cut between an email and
  `mark_sent`.
* `OverIsOver` excepts the pass that had the campaign in hand when it was
  cancelled: its `mark_sent` makes it active again.
* `OnlyCleanIsSent` is about bodies: a subject passes unread (below). It allows
  several asks in one email: the code leaves that to the model's judgement.
* `OutsidersAreTold` is about the emails of the agent, and an insider is whoever
  has been the project's contact. The fixed notice of the contact sync has no
  disclosure (below).
* `DisputeIsHeard` ends when the customer writes again or a person acts on the
  case.
* `PaymentStopsChase` excepts a sync that raised or died; the next one starts over.
  It says that the payment gets into the open case, not that it stays: a handler
  that read the row before may still write over it.
* `BalanceIsGiven` allows the face amount where it stands in for a row that a feed
  left out, or in a new case; an outage alone makes nothing up.
* `OneCurrent`, `NewestIsShown` and `DoneIsDone` except overlapping flushes, where
  the code promises nothing; `NewestIsShown` also failing calls. `OneCurrent` excepts
  the commitment that a reply adds (below), `NewestIsShown` a blocker that it closes.
* `IndexedAsStored` excepts a document that two uploads were at work on at once.
  The admin's wipe of all documents (`app/channels/web.py`:826) is not modelled.
* `PassagesFound` says that a passage is whole in some chunk; the tool shows the
  model the first 500 characters of one.
* `AlwaysWoken` says that a tick looks at the case. Two edges of it: a case in
  `promise_to_pay` with a promise is looked at by the judge only; a date that a
  person edits is checked against the real clock, not the simulated one.

### Where the code and its words part

Met while modelling. The models do what the code does, and no property claims the
contrary.

* concurrency_guard.py:67 says a stale copy cannot resurrect a closed case; the
  re-read and the update are two statements, and a closure between them is lost.
* Dashboard.tsx:49 says a paused case awaits input; a run under way writes its own
  state over `paused`.
* capability_contract.yaml:233 says to escalate at the limit instead of sending
  again; two runs that copy the same count before the lock send two emails and
  count one.
* traced_loop.py:338 says the early return that lost a reply is fixed; the mailbox
  reply still returns at line 137 before it persists a suppressed case, so an
  opt-out is lost and the next tick emails the customer.
* executor.py:61 says a dispute reaches a human instead of going quiet; the reply
  path returns on `disputed`, and no tick lists it.
* post_outcome.py:16 says promises past due are classified; only cases in
  `promise_to_pay` and `promise_missed` are looked at.
* PLAN.md:474 says the agent waits for the promised date; the nudge timer fires
  before it.
* followup_store.py:8 says one active campaign per case; two people who ask at once
  get two. followup_engine.py:58 says a campaign yields to an open case of the
  agent; it looks for it under another id and finds none.
* cosmos_gremlin.py's upsert drops a vertex with all its edges: the history of an
  invoice is gone with the next run. `CosmosGraphAdapter` has neither `close_edge`
  nor `add_edge`, which memory/temporal_graph.py calls.
* A reply with a date adds its commitment to the graph beside the one that is
  current (memory/temporal_graph.py:54); only a later graph.write closes the old
  one. graph_store.py:16-19 says that an open edge is "still true now".
* chase_guardrails.py:37 lists phrases that must never appear in a message "regardless
  of who drafted it"; the subject, which the model words as well, is given to
  neither critic nor guard. It may also lack the case's token; an answer to it is
  then a stray mail.
* disclosure.py:3 says that every email to an external customer discloses the
  assistant; the notice of the contact sync does not, and a reply may have put a
  customer's address where it looks.
* invoice_sync.py:258 says that the face amount only stands in when the aging feed is
  unavailable; line 260 also takes it for an invoice whose row is missing or
  malformed in a feed that answered, and makes it the balance of a part-paid case.
* concurrency_guard.py:61 calls a terminal state one that a stale copy must never
  overwrite; advance_case_with_reply (scheduler.py:256) writes state and world of a
  row it read before it awaited the interpreter, and not by the guarded write.

## 4. The proofs

Every safety property of the passing runs (invariants, action properties and the
three refinements) is a theorem, for every value of the constants under the
assumptions named in the modules: `BudgetAssumption`, `WorkersAssumption`,
`LifecycleAssumption`, `TurnAssumption`, `InvoiceSyncAssumption`,
`IntakeAssumption`, `NoticesAssumption`, `FollowUpsAssumption`,
`GraphAssumption`, `DocumentsAssumption`, `ChatAssumption`. They say that budgets,
intervals, limits and amounts are numbers (positive where the code has a positive
default), that an overlap is shorter than a chunk, that stand-ins for "none" are
not members of what they stand in for, that a project's cases and the ERP's
stages are finitely many (a pass lists them) and that there is a role.

Theorems about SendTail may have hypotheses of their own. Each is needed: TLC finds
each property violated in a small instance with all of its hypotheses but one.

| Hypothesis | Says | Without it |
|---|---|---|
| `Sequential` (all but `Typing` and `Mutex`) | one task runs loops on the case at a time | two runs work on copies of one row, and the later write undoes what the other has counted or recorded |
| `OneSignaller` (`PaymentStays`) | one task applies the ERP's signals | a dispute that was read before a payment and written after it takes the payment back |

The run `send_one_agent` is an instance that meets them. Crashes and the mailbox
reply are in all of these theorems.

### The invariants, and why they are needed

* **SendTailProofs.** `Typing`; `Mutex` (`TailMutex`), inductive as it stands
  because it says that the lock is *exactly* the set of runs in the tail.
  * `Budget` (`BoundedAutonomy`; `Sequential`). `BudgetInv` adds where the missing
    emails are counted: in the row, in the copy of the run between its email and
    its write, or lost in a crash; and a run about to send copied a count below
    the maximum.
  * `PaidStops` (`PaidNotChased`; `Sequential`). A payment can be taken back by an
    old dispute while a run is in the lock, but the dispute blocks the email as
    well: `StopInv` speaks of a world that is paid *or* disputed.
  * `PaymentStays` (`PaymentKept`; `Sequential`, `OneSignaller`). The copies of runs
    are old, so `PaidInv` relates each to the row: no loop's copy has a payment
    that the row lacks, a signal's copy lacks none that the row has, and a payment
    that a copy lacks shows in the state of the row, where the guarded write finds
    it, unless a button has taken the case out of `paid`.
  * `OptOutRespected` (`NeverAfterOptOut`; `Sequential`). A signal may overwrite
    the opt-out, but only with a payment or a dispute.
    `OptOutInv` therefore speaks of a world that is *dead* in any of three ways:
    once dead, in every copy and in the row, it stays dead, and the guard lets
    nothing out of a dead one.
  * `HandOffFinal` (`HandOffHolds`; `Sequential`). `HandOffInv` says for
    each place of a run what it holds after the notice: a quiet state, or a world
    that is dead although its state is not (a dispute of a customer who has
    opted out); neither reaches the email.
* **GoalsProofs.** `PlannerEscalates`, the link between the state machines;
  `ConfirmNeedsPromise`: whatever the scores or the language model choose,
  `confirm_promise` is not in the pool without an active promise. The lemmas on
  `CaseDomain` that others use are here too.
* **CaseLifecycleProofs.** `LifecycleTyping` and `LifecycleInvariant`, from which
  `PromisesSuperseded`, `MissesBacked`, `ConfirmationsGrounded`, `PmComesFirst`
  and `NeverAsleep` follow. Two strengthenings: a promise still active has its
  miss in reserve (`MissReserved`: fewer misses than promises, or as many and no
  promise active), and the target is the customer only if the PM authorised it.
  The argument goes through what a handler's outcomes have in common: every
  outcome of the case loop is *faithful* (it keeps commitments, target and misses,
  and never puts a case to sleep) and every outcome of a tick is *sound* (a miss
  is charged only with a promise that is retired). `DeferralsKept` needs one more:
  while a deferral stands the case is parked, in a state no tick selects, or
  waiting with its next action not before that date.
* **ConversationTurnProofs.** `Typing`; `OutsidersTold` (`OutsidersAreTold`): a draft goes
  out without the disclosure only to the address a run holds as the PM's, and that
  one has been the project's contact at some time, in the row, in the copy and in
  what the contact sync is about to write (`PmInv`). `CleanHolds`
  (`OnlyCleanIsSent`): at the guard the body of a draft has no safety-critical fault but perhaps a placeholder,
  which the critic does not see and the guard does (`CleanInv`). `DisputeHolds`
  (`DisputeIsHeard`): a dispute voiced in so many words is in the reply in hand,
  in the copy about to be handed over, or in a row that no run goes on from
  (`Heard`). An opt-out outranks it: a copy never consents when the row does not,
  and agrees with it until the reply is read (`ConsentInv`).
* **InvoiceSyncProofs.** `SyncTyping`; `OneOpen` (`OneOpenCase`): the rows stay rows, and every
  write keeps the open ones at most one, as an update in place keeps what is closed
  closed, a restart and an insert pass the unique index. `BalanceGiven`
  (`BalanceIsGiven`): every row, every copy that a sync, a run or a handler holds,
  and every feed that was read has given figures only (`GivenInv`), and a figure once
  given stays given.
* **PollersProofs.** The three pollers have one argument: *what is not in the table
  was done by passes that were cut short, or is what the pass has in hand.*
  * Mail: `IntakeTyping`, `IntakeInvariant`, `Once` (`AppliedOnce`), `IntakeImplements`
    (`RepliesImplement`).
  * Notices: `NoticesTyping`, `EachGoesOutOnce` (`EachOnce`) from `CardsInv` and
    `DigestsInv`, `CardsImplementAtLeastOnce`, `DigestsImplementAtLeastOnce`. The
    reminders' table grows; the digests' has one row, and it suffices only because
    weeks go on: the row names the latest week ever filed.
  * Campaigns: `FollowUpsTyping`, which needs that what is listed was asked for and
    that a pass that posts has a reply to post. `CadenceKept` (`Paced`): the early mails
    of a campaign, and one more while its row is due sooner than a cadence after
    its last mail and in no pass's hands, are at most the passes that were cut
    short; what is in a pass's list is due and is there once (`PacedInv`).
    `OverStaysOver` (`OverIsOver`).
    `RepliesMirroredOnce` (`MirroredOnce`): a pass posts consecutive replies beyond
    the cursor (`MirrorInv`), so what lies behind its place was posted by this
    pass, or is behind the cursor.
* **GraphOutboxProofs.** `OutboxTyping`: `attempts` exceeds its maximum by one at
  most, since a row given up by one flush is still in the list of at most one
  other (`AttemptsInv`). `DoneStays` (`DoneIsDone`): a flush at "mark" has carried
  its row out, and as long as no two have met only one is at work, on pending rows
  (`RowsInv`). `OneIsCurrent` (`OneCurrent`): whoever is about to add an edge has
  closed those it supersedes (`EdgesInv`); the one writer that does not, the reply
  that supersedes a blocker, adds promises only. `NewestShows` (`NewestIsShown`): as
  long as nothing failed and no flush met another, all rows but the last are done, so
  a flush works at the last one only, and where it is says what the graph holds
  (`NewestInv`). A reply may have closed the edge since, if it is a blocker's: what
  it lists blocked the invoice (`ReplyInv`).
* **ChatProofs.** `ChatTyping`; `CallsAreAnswered` (`CallsAnswered`): the loop owes a
  tool message for each call it has not come to and for no other (`Square`).
  `IndexFollowsTheFile` (`IndexedAsStored`): of a document whose
  uploads never met, the last one only is at work, and its step says what the
  index holds (`Indexed`). `PassagesAreFound` (`PassagesFound`): for pages, chunks
  and overlaps of any size.

### Data of any length

Two proofs are about recursion, `PassagesAreFound` (the cutting of a page) and
`GraphOutbox!ListPending` (what a flush lists: pending rows, oldest first, all of
them if they are fewer than the limit). Both functions are recursive functions and
not `RECURSIVE` operators. The induction theorems of the proof library take an
operator as a parameter, which the provers at hand cannot instantiate; the proofs
take the least number for which the claim fails instead (`LeastOf`, from
`NatLessThanWellFounded`), for the existence of the function and then for what it
computes.

### Only model-checked

Liveness: `RunsEnd`, `ExhaustionReachesHuman`, `ReplyGetsItsTurn`,
`ReminderGoesOut`, `PaymentStopsChase`, `MessageSettles`. The prover has neither
fairness nor `ENABLED`. That the hypotheses above are needed is seen in runs of
TLC, not proved.

## 5. Not modelled, and why

* Wording, regular expressions and prompts: a reply is the signals found in it, an
  email its faults, and the model's answers are free.
* Scores, learned weights and the language model's pick: any candidate may win.
* Traces, decision records, learning, the event ledger: written, never read by a
  decision.
* The limit of ten cases per tick, over several cases; policy overrides while a
  case runs; the scripted demo with its own reset and single-case ticks.
* What the read tools and the pages of the web channel return; logins, signatures;
  cards' layout; Teams' and Graph's own protocols.
* The Azure mirror of cases, facts and events (copies that are not read back but
  for the facts), the Azure index and sources of documents (not provisioned).
* ERP client, UI, infrastructure and the archived engine: forwarding, rendering, or
  dead code.

## 6. The plan

1. **Outreach**, an abstract contract (contacted, silent, handed over) that SendTail
   is shown to implement, step by step, in `SendTailProofs`.
2. What holds without `Sequential`: how many emails several tasks on one case can
   send.
3. **AgentTick**: `list_due` with its limit over several cases; a blocked case
   keeps its place at the head. Three cases, limit 1 or 2.
