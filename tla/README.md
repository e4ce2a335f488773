# Nistula Assistance in TLA+

Nistula Assistance is a WhatsApp concierge: guests write to one number, a model answers from
tools and a knowledge base, and people of the villa team take over when they have to. It is one
Node process over one Postgres database, with pg-boss queues in the same database, and it talks
to three outside services: Meta's Graph API, eZee (the hotel's booking system) and Claude.

What makes it hard to test is that everything of weight happens between steps: webhooks,
workers, crons and staff commands all change the same few tables in small guarded UPDATEs, and
every one of them may be cut off, run twice, run late or be overtaken. This project models those
steps, checks small instances of them with TLC, and proves the central invariants with TLAPS.

Paths below are relative to the repository; the code lives in its `src/`.

## 1. The system

### Components, their state and how they interact

| Component | State | Operations | Talks to |
|---|---|---|---|
| Inbound webhook (`wa/webhook.ts`) | `messages`, `conversations`, `raw_events` | store guest message, echo, status webhook, staff message | answers Meta 200 first; enqueues `conversation.process` and `staff.command` |
| Send-intent ledger (`wa/client.ts`, `wa/sendFailure.ts`, `wa/sendReconcile.ts`, `lib/http.ts`) | `messages.status`, `wa_message_id`, `error` | commit intent, dispatch with retries, settle, sweep, status webhook | Graph |
| Conversation worker (`brain/worker.ts`, `debounce.ts`, `policy.ts`, `db/repos.ts`) | `conversations.last_processed_message_id`, `status`, `human_active_until` | debounce, read, plan, model turn, claim, settle, re-check, sweep | queue, turn, ledger, drafts |
| Job queues (`jobs/index.ts`, `jobs/txSend.ts`) | pg-boss tables | send with singleton key, fetch, fail, retry, expire, cancel, cron | everything |
| Human takeover (`staff/humanTakeover.ts`, AI ON / AI OFF in `staff/commands.ts`) | `human_active_until`, `status` | hold, cancel the waiting job, cancel escalations | queue, tasks |
| Staff tasks (`db/tasks.ts`, `brain/tools/createStaffTask.ts`, `escalateToHuman.ts`, `staff/notifier.ts`, `mediaTask.ts`, `commands.ts`) | `tasks.status`, `kind`, `nudge_count`, `sla_deadline`, `request_key` | raise, append, replay, escalate, card, DONE, cancel | templated sends |
| SLA ladder, morning digest (`staff/sla.ts`, `staff/digest.ts`) | the same rows | nudge, advance a rung, convert the night's queue | templated sends |
| Arrival tasks (`staff/arrivalTasks.ts`) | system tasks keyed by booking | create, re-anchor, cancel | booking jobs |
| Draft approval (`db/drafts.ts`, `staff/draft*.ts`) | `drafts.status` | create, OK / EDIT / NO, expire | ledger |
| eZee poller and mirror (`ezee/poller.ts`, `db/bookings.ts`) | `bookings_mirror`, poller state | poll, normalise, upsert, acknowledge | eZee, booking queues |
| Lifecycle engine (`lifecycle/*.ts`) | `scheduled_messages` | plan, reschedule, cancel, claim, send, reconcile, lead follow-up | templated sends, bookings |
| Templated sends (`wa/templateSend.ts`, `db/windows.ts`) | service windows | free form or template | ledger |
| Claude turn, guardrails (`brain/turn.ts`, `guardrails.ts`, `promises.ts`) | locals of a turn, hit records | tool loop, checks, one regeneration, fallback | tools, Claude |
| Rolling summary, history import (`brain/summariser.ts`, `wa/history.ts`) | summary and its cursor | compact, import | Claude |
| Guest memory, stays, reference claims, consent | `guest_facts`, `guest_stays`, `reference_attempts`, opt-outs | remember, link, strike, opt out | turn, lifecycle |
| Erasure, operations, schema | all tables | blank a guest; alerts, backups, cost cap, health | |

`PROJECT.json` lists every component with its sources and what is modelled of it.

### What is hard, and what must hold

* **Ledger.** A POST may be accepted though its answer never comes; the process may die between
  the intent and the settle; a sweep may settle a row under its dispatcher; webhooks come
  duplicated, reordered, early. What the model is later shown as said to the guest must have been
  accepted by Meta; a status may only climb; a settled row may not be sent again; no row stays
  queued.
* **Conversation.** A job outlives its expiry and is retried while the first run goes on; a
  message lands while a run is about to end; wakes fail or are cancelled; holds are read before a
  call of minutes and used after it. No message may be answered twice or passed by; a hold ends
  only by staff; every message is taken up.
* **Staff tasks.** A turn is retried after it raised a task; a card fails; DONE or a takeover
  closes a task while a tick, a card or an append holds an old read of it; the digest dies half
  way. A closed task stays closed; work somebody holds is not written off; the model may say "the
  team has it" only if a person got a card; every open task is chased.
* **Lifecycle.** A tick reads its batch once and may send its last row minutes later; plans, a
  cancel job, the hourly sweep, a STOP and a lead change the same rows meanwhile; a timed-out send
  is armed again. A decided row stays decided; no row goes out twice, to a booking that was
  withdrawn, to a guest who said STOP or beyond a cap; rows of dead bookings come to an end, and
  the sweep brings the others to the guest they belong to.
* **Booking mirror.** eZee delivers any part of what it holds, in any order, again until it is
  acknowledged, and cancels a group room by room; events go through three queues. The mirror
  agrees with eZee or ops is told; no event is told twice; an arrival task dies with its booking.
* **Turn, guardrails, drafts.** The model may claim anything; what licenses a claim is evidence of
  two tool loops, of rows since the last turn and of pages that may reach nobody; a draft is
  decided by two people, or expires, while the guest writes on. What the guest reads has
  happened; who must see it was paged; nothing is sent or struck twice.
* **Memory.** Two handlers may overlap, history arrives out of order behind the pointer, an import
  may die between its inserts and its rewind, a guest may be erased under a run. What the notes
  have passed is in them; every thread is caught up.

The hazards are in `PROJECT.json`, each at its line, with the property that watches it.

## 2. Modules

| Module | What it is |
|---|---|
| `SendLedger` | one message row from intent to last webhook, and the five actors around it |
| `SendLedgerProofs` | its invariants, proved |
| `Conversation` | one conversation: webhook, queue, worker, sweep, crash, people |
| `TurnTaking` | what a conversation promises a guest, without queue or races |
| `ConversationProofs` | its invariants, and that `Conversation` implements `TurnTaking`, proved |
| `StaffTasks` | the tasks of one conversation: turn, notifier, nudger, digest, DONE, takeover |
| `StaffTasksProofs` | its invariants, proved |
| `Lifecycle` | scheduled messages: plans, sweep, ticks of the sender, guests, bookings as eZee changes them |
| `Outbox` | what the scheduled messages promise a guest, without plans, batches or clocks |
| `LifecycleProofs` | the invariants and action properties of `Lifecycle`, proved |
| `OutboxProofs` | that `Lifecycle` implements `Outbox`, proved |
| `BookingMirror` | eZee's queue, the poller, the mirror, its events, the booking workers, arrival tasks |
| `BookingMirrorProofs` | its invariants, proved |
| `Guardrails` | the checks over a draft as operators: what licenses which claim, what is trimmed, regenerated, deferred |
| `Replies` | the turn that runs them: tool loops, claim, pages, send, drafts and their approval |
| `RepliesProofs` | its invariants, proved |
| `Memory` | the window, the summariser, the night, history import, erasure |
| `MemoryProofs` | its invariants, proved |
| `MCSendLedger`, `MCConversation`, `MCStaffTasks`, `MCLifecycle`, `MCBookingMirror`, `MCReplies`, `MCMemory` | model values and small instances |

Where modules meet, each takes the other's answer at its word and says so: `Conversation` sends by
an intent, whose fate is `SendLedger`; `Replies` takes a tool's `ok` as true, which is what
`OkIsTrue` of `StaffTasks` is about; `Lifecycle` and the task half of `BookingMirror` start from
the events that the mirror half emits; `Memory` asks for a summary when a claim of `Conversation`
has moved the pointer. `Replies` has one turn at a time: that overlapping runs claim once is
`TakenUpOnce` of `Conversation`. `Conversation` is shown to
implement `TurnTaking`, and `Lifecycle` to implement `Outbox`.

An operator named in a comment `Mutant: ...` is a plausible bug of the definition after it; it
takes no part in any specification, and `PROJECT.json` says which property finds it.

### SendLedger

Variables are the columns of a row (`status`, `waId`, `unconfirmed` for the sweep's own error
text, `old` for its age against the ten minutes of the sweep), the locals of `dispatchText`
(`pc`, `tries`, `heldId`, the `verdict` its caller gets), and Meta's side (`req`: what became of
each attempt). `Post`, `Timeout` and the `Receive` actions are the retry loop of `lib/http.ts`:
a timeout says nothing about the attempt, which Graph may judge later (`Graph` is independent of
who waits). `SettleSent`, `SettleThrows`, `FailSend`, `FailSendThrows` are the guarded UPDATEs
and what happens when they throw, before or after their commit. `ApplyStatusUpdate` is one
webhook about one accepted attempt, at any time and any number of times. `ReconcileStaleSends`
is the sweep; `Crash` is the platform. Rows in `Slow` are dispatches that may outlast the
sweep's cutoff (an event loop that stalls); for all others three attempts fit the cutoff twenty
times, which `Age` says.

### Conversation

Messages are numbered in the order of `created_at`; `Arrive` stamps one and `Store` makes it
visible, two steps because an INSERT commits later than it starts, and nothing orders two of them:
`overtaken` remembers the messages that came into view after a younger one. `toWake` is the enqueue
that the webhook owes after the insert. `created`, `retry` and `active` are the stately queue with
its singleton key: at most one job in each state, a second `boss.send` is dropped, a failed job
waits in `retry` or is spent. A run goes `context` (the row and the DB clock), `batch` (the
unprocessed messages; debounce; policy), `claim` (the model call, then the transaction), `settle`
(escalations and dispatch), `recheck`. What the run read stays in `seen` while the world moves
on. `WinClaim` is the transaction: pointer, guarded status change, send intent or draft.
`Echo`, `FindPending`, `CancelPending` are a takeover from the staff app and its two-step
cancel; `AiOff`, `AiOn` the commands. `Sweep` is the two-minute net. Time is the age of a message
beyond the pointer in ticks of 15 s, up to the sweep's.

What the guest writes (over a limit, a request for a person, bare media) and what the model
answers are choices; the policy's decision is a member of `PlansFor`, by the status and the hold
the run read.

### StaffTasks

A task is a request key: a batch of guest messages and what it asks for (a service, an
escalation, a media follow-up). `status`, `kind` and `rung` are the columns; `due` is how many
rungs of its ladder the clock has made due. The turn runs `think` (the tool loop), `append` (an
append was chosen, its guarded UPDATE is next), `card` (a card is being sent), and after its
`Claim` `media`. `ReplayService`, `ReplayEscalation` are GATE 0 on a retry; `RaiseService` is
GATE 4 with the insert; `EscalateByDay` and `EscalateByNight` split on the clock *of the start of
the turn*. `CardFails` is `recordHole`, with the two modes of the notifier; a card that failed or was
cut off may have been accepted all the same (`MayHaveReached`). A tick of the nudger
stands for its handling of one task, from the read (`TickReads`) over the send to the guarded
advance and the evidence row; several ticks overlap when one outlasts its job. The digest
converts, then sends one card per task, and may die in between. `Done` and
`CancelLiveEscalations` are the people.

`ok` holds the tasks about which a tool run of the turn has said `ok`; the promise scanner reads
exactly that. `reached`, `doubted`, `stranded`, `unmarked`, `landed`, `nudgeRows` are history: who
really got what.

Left out on purpose: two think phases do not overlap (`turn.ts` bounds a turn by 150 s, the
queue retries after 180 s); `Agendas` only limits which requests come up together in a run;
the scanner's veto is not there, so more replies go out than the code lets; DONE's evidence row
is in its transaction and adds nothing; a refused call (stage, house name, cap of another kind)
changes nothing and is a stutter; services of a conversation may be of three kinds in the code and
are of one kind here, so that an append may happen where the code looks for the same kind and
refuses; the limit of twenty tasks per tick.

### Lifecycle

The columns of `scheduled_messages` are `status`, `guest` and `clock` (`send_at` against now);
`mirror` is what the planner and the sender read of a booking. A run of `scheduleForBooking` is one of
`Workers`: it takes a job (`TakePlanJob`) or, if it is the hourly sweep (`Sweeps`), a booking that
passes the gates (`Reconcile`), and several of them overlap. It keeps what it read in `snap`, and then
withdraws (`RevokeForPlan`), leaves (`LeavesAsIs`) or plans (`Plan`, then a `WriteSend` per row: the
upsert whose `WHERE status = 'pending'` is `Writable`). A tick of `runSender` reads its batch
(`TickReads`) and takes each row over the gates: the mirror (`SkipByMirror`, `DeferByMirror`,
`PassMirror`), the guest, whose consent and whose count are two reads (`SkipByGuest`, `PassConsent`,
`DeferByGuest`, `PassGuest`), the claim with its intent, and the post with its three ends. `Stop` (by
the guests in `Writers`), `OptIn` and `FindLead` are the guests; the count of recent leads
(`CountLeads`) and the insert (`ScheduleLead`) are two statements of one turn. `BookingChanges`, `BookingCancelled` and `StayPasses` eZee and the calendar. A human hold and a
closed service window are one nondeterministic deferral. Three variables are history: `rebound` (the
rows whose guest changed while a tick had them in hand), `strayed` (those that went out so) and
`rearmed` (the ticks whose row in hand was posted and armed again by another). `Thanked` are
thank-yous that went out before the model starts. The trailing windows of the caps (30 and 365 days)
do not pass in a behaviour; win-backs have no stale rule, as in the code.

### BookingMirror

`life`, `gone` and `queue` are eZee; `mirror`, `stubs`, `jobs` and `task` our tables. A poll
fetches any part of the queue, mirrors each item in a transaction with the job of its event, and
acknowledges what committed; a group of cancels waits for all its rooms; a conflict is told to ops
(`alerted`). Each of the three booking queues has a worker that reads the mirror before it raises,
re-anchors or cancels the arrival task.

What the model assumes of eZee: an acknowledgement removes exactly the items that were delivered;
a booking is revived only after its cancel has gone through; only stays that have not begun are
cancelled; a group does not mix its base number with suffixed ones. Polls do not overlap (stately
queue, 180 s). A cancel comes as an item of its own, or as a payload of the reservation that says so
itself (`mapStatus`), or both; the event of an upsert is `EventKinds` of the old and the new row.

A task inserted after the end of its booking is `raced`: no queue takes it back (section 5).
`DivergenceIsTold` takes one alert for all time: a booking of which ops were told once may diverge
again without another word, and a divergence after an alert is not looked at.

### Guardrails and Replies

A draft is the set of what the scanners would find in it: claims of the classes C1 to C5, money,
an asserted stay or house, the identity line, faults of form. `Guardrails` says for each draft
and each evidence what `promises.ts`, `priceGuards.ts`, `stayGuards.ts`, `draftGuards.ts` and
`leakGuards.ts` make of it; regular expressions are left out. `Replies` runs them: a tool loop is
any sequence of tool answers; the guardrails pass, trim, veto or ask for the one regeneration,
whose loop starts again with what is carried over; `Finalize` re-checks; the claim stores an
intent or a draft; then the pages of the thread, of media and of undescribable bookings go out in
the code's order, and the send. Approvals are in hand from the read to the guarded decision, and
may be two of one draft; the expiry cron and a takeover run against them.

Simplifications, each of which lets more happen or fewer excuses: ops know a draft by its card
only; EDIT counts as OK; `remember_fact`'s answer of the first loop is not evidence after a
regeneration; what a turn did without a row is forgotten with a crash of it; the media page is
reached or lost. `MaxExtras` bounds what staff do and what fails.

### Memory

A message is its place in the order of `(created_at, id)`; the history import fills the places
`1..Past`, out of order, under the live ones. `Window` stands for the token budget of the context,
`n` for the count and token cap of a run. The status of an outbound row climbs as in `SendLedger`:
queued to sent or failed, sent to failed (Meta's late verdict, a fault here), failed to delivered;
`soured` is history, the sends that failed when the notes or a run had them already. A run reads the pointer and notes, takes its range, asks
the model and stores by compare-and-set on the pointer (`Apply`); one handler is active unless
its job expired under it (`overrun`). An import inserts, marks, and rewinds the pointer if it
inserted behind it; it may fail or die at each step, is retried `MaxAttempts` times and bodies may
be delivered twice. `Erase` blanks texts and notes at any time, and takes the `wa_message_id`s with
them: what an import at work inserts after it is new again and fills the place of the blank row. What
runs and imports had in memory at that moment is kept in `held`, a history variable.

## 3. What is checked

| Run | Instance | Distinct states | What it shows |
|---|---|---|---|
| `ledger` | 2 rows, 2 attempts, 1 crash, one row slow | 571,838 | all ledger properties, with `QueuedIsResolved` under fairness |
| `ledger_double_send` | 1 row, 2 attempts | violation | Meta accepts two copies of one row |
| `conversation` | 2 messages, 2 runs, 1 fault, 1 staff action | 2,977,190 | all safety, and the refinement of `TurnTaking` |
| `conversation_live` | 1 message, 2 runs, 2 faults, 1 staff action, drafts wired | 337,724 | `EveryMessageIsTakenUp` |
| `staff_tasks` | 2 batches, 4 keys, 2 ticks, 1 fault, cap 1 | 621,373 | all task safety |
| `staff_tasks_live` | 2 batches, 3 keys, 1 tick, 1 fault | 26,094 | `EveryOpenTaskIsChased` |
| `lifecycle` | 2 stays that are over, 5 sends of which 2 have gone, 1 guest, 2 ticks, 1 event, 1 fault, 1 overrun | 1,036,297 | silence after a STOP, caps, and the refinement of `Outbox` |
| `lifecycle_live` | 1 send, 2 guests, a job worker and the sweep, 1 tick, 2 events, 1 fault | 131,110 | outcomes are final, silence after a cancel, and under fairness that rows of the dead end and the sweep heals |
| `bookings` | 1 booking of 2 rooms, 2 days, 3 changes, 1 fault | 304,200 | mirror, events and arrival tasks, with `EveryItemIsAcked` under fairness |
| `replies` | 2 messages, the second under approval, 1 telling run per loop, 1 extra | 2,563,123 | what guests read is backed, paged, and sent once |
| `memory` | 2 bodies of history, 2 live messages, 2 handlers, 1 fault | 329,693 | notes, imports and erasure, with `EveryThreadIsCaughtUp` under fairness |
| `memory_retry` | as `memory`, 1 handler | violation | an import that died is never rewound |

Deadlock checking is off where the system may really stop: every message row settled and
crashes spent, every guest message taken up, every booking at rest. `StaffTasks` has a clock and is
checked for it.

### Properties

*SendLedger.* `TranscriptIsReal`: a row shown to the model as said has an id that Meta accepted,
in every order of settle, sweep, crash and webhook. `FailureStaysHealable`: a failed row keeps
the id it had, or tells ops that delivery is unconfirmed. `StatusOnlyClimbs`, `NeverResent`
(action properties), `QueuedIsResolved` (liveness).

*Conversation.* `TakenUpOnce`, `NothingSkipped`, `PendingIsCovered` (as long as no wake was lost,
a pending message has one on its way: the net is not the way), `HoldEndsOnlyByStaff`,
`ImplementsTurnTaking`, `EveryMessageIsTakenUp`.

*StaffTasks.* `HeldWorkSurvives`: what a person holds a card of is not written off by the card of an
append or a replay; the one exception is the first card itself, accepted and called failed (`doubted`).
`OkIsTrue`:
an `ok` means a card in a hand, but for a run that died before its card and a lost verdict.
`LadderIsHonest`: a rung taken reached somebody, a nudge on the guest's record is such a rung and
is there once. `EveryOpenTaskIsChased`.

*Lifecycle.* `OutcomeIsFinal`: no plan, sweep or tick with an older read brings a decided row
back. `ImplementsOutbox`: to a guest, all of it looks like `Outbox`, where a message is offered and then
goes out once or ends for good, may go again only after a doubtful failure, and ends with the booking
or the opt-in that it was for. The part about copies is also stated by itself (`OneCopy`).
`SilentAfterCancel`: once the rows of a dead booking are withdrawn, none goes out, neither from a
tick that judged it alive nor from a plan that wrote late. `StopIsFinal` says the same of a STOP.
`CapHolds` counts copies (`Got`): no guest gets more of a marketing kind than its cap, but for copies
that were reported as failed and rows that went to the guest they had been bound to. The first of these
exceptions is the code's own (section 5, *Sender*): a row that Meta accepted and the sender took for
failed is armed again and no longer counts, so that the guest may get two.
`DeadRowsEnd`, `SweepHeals` (liveness): the sweep has a live booking planned and for the guest of its
phone, though the job of its last change is lost, or an older plan, with the old phone in hand, writes
after it.

*BookingMirror.* `DivergenceIsTold`: once eZee holds nothing of a booking, the mirror agrees with
it or ops was told. `EveryEventIsNews`: an event tells something its last one did not.
`NoTaskForTheDead`: a cancel or a no-show reaches the arrival task over the three queues, but for a task
that was inserted after the end (`raced`). `EveryItemIsAcked` (liveness).

*Replies.* `ClaimsAreBacked`: every claim of something done that a guest can read, or ops see on a
card, is of something that has happened since the guest's previous message. `ReferralIsMade`: before
a guest reads that the team is being brought in, somebody was paged, queued for, or an alert says
that nobody was reached; a booking that a human must see has had its page. `OneReplyPerBatch`: a
batch is answered at most once, and a draft that nobody approved reaches no guest, whoever decides,
expires or takes over. `OneStrikePerBatch`: a refused claim of a reference costs one strike over all
retries.

*Memory.* `NotesAreTrue` has three parts. `NothingForgotten`: what the summary pointer has passed is
in the notes, but for what is erased, turned up behind a run at work or was orphaned by an import that
died (`late`, `orphans`: the cases the code does not guard against, which the property therefore does
not watch). `NothingElse`: they tell of nothing beyond the pointer and of nothing that had not been sent
when a run read it; a send that fails later stays in them (`soured`). `NothingComesBack`: once the guest is erased
they tell only what a run or an import had in memory at the erasure (`held`). That much the code lets
back in, a run that starts later nothing. `HistoryIsSettled`:
once its import is complete no message of a body is one to answer. `EveryThreadIsCaughtUp`
(liveness).

Ticks of the sender overlap when one outlasts its 420 s. `OneCopy` and `OutcomeIsFinal` hold
whatever overlaps. So do `SilentAfterCancel` and `StopIsFinal`, but for a row that one tick was
posting while the cancel or the STOP looked for pending rows, and armed again under another tick
that had passed the gates with it: there the properties name the tick (`rearmed`), and TLC refutes
`StopIsFinal` without that exception. Of `SilentAfterCancel` that case needs overlapping ticks, which
`lifecycle_live` does not have: there `ImplementsOutbox`, which ends a message with its booking, checks
it in `lifecycle`, and `SilentAfterCancelSafe` proves it. That a tick keeps a row whose guest has changed
(`rebound`) needs a plan and two ticks at once, and is left to `StopIsFinalSafe` and `Implementation`.
`CapHolds` is conditional on `overruns = 0`: two ticks may compare two
rows of a guest with the same count.

### Why the bounds are enough

Two rows are there for the sweep, which settles all stranded rows in one statement; two attempts
give a first and a last, the two cases the retry loop tells apart. Two messages give a batch that
grows under a run, and two runs the overlap of an expired run with its retry; a third run would
be a second expiry of the same job and reads the same columns. The windows of the debounce are
one tick and the sweep two, the smallest that keep `Quiet <= MaxWait < SweepAfter`, which a test
of `debounce.ts` pins. Two batches give a retry, and a task of an earlier turn to append to; a cap
of one is met by the second request; two ticks are the overlap of one expired with its successor. A
fault is enough for each crash, throw and lost write to hit every point; `conversation_live` has
two, so that the recovery itself can fail.

`lifecycle` has two win-backs of different bookings and a lead for one guest, so that the cap of the
win-backs is met by a second row, and two ticks, so that one may arm again what the other has in hand
(the two stays and the two ticks are symmetric). Nothing is planned in it: stays that are over pass no
gate. `lifecycle_live` plans: two phones, so that a row can change hands; two events, which give a
create and a change, or a cancel and the plan that overtakes it; a job worker and the sweep, each with
its own read, and a fault that may lose the job, so that the sweep is what heals. Two rooms give a group that is
cancelled in part; three changes a create, a change and an end, or a cancel that is revived. Two
messages give a turn whose evidence is the row of the one before, and a draft that the next message
makes stale. Two bodies give an import behind another's rewind, four places a window of two with
something older on both sides, and two handlers the overlap of an expired run with its successor. The
proofs of section 4 do not depend on any of these bounds.

### Fairness

* *Ledger*: a live dispatch takes its next step since each of its waits has a timeout
  (`lib/http.ts`), the clock runs, and the sweep is a cron whose next tick is its retry. Nothing
  is asked of Meta, callers or crashes.
* *Conversation*: clock, inserts, enqueues, fetches, runs, the expiry of a dead process's job and
  the sweep: what pg-boss and the process do by themselves, each bounded by a timeout. Nothing of
  guests, staff or faults.
* *StaffTasks*: runs, ticks and the digest take their next step, a turn comes to its claim within
  `MAX_TOOL_ROUNDS` (strong fairness, for the tool loop may go round first), a tick passes by no
  overdue task (strong fairness, for DONE may come and another tick may hold it), and the clock
  runs. Deliveries owe nothing: a nudge may fail for ever, and a task then is chased for ever.
* *Lifecycle*: plans and ticks take their next step, rows age, jobs are taken (strong fairness, for
  the worker may be busy with another booking) and so is each booking of the hourly sweep (strong, for
  it may be at another one, and a booking may pass the gates again and again); a due row is in some
  batch in the end, since the batch is the ten oldest. eZee, guests and faults owe nothing.
* *BookingMirror*: the poll is a cron and takes its next step, the workers work, and a fetch brings
  all of a booking's items in the end (strong fairness: a poll may be under way).
* *Memory*: the nightly pass comes, some handler goes on, and what a send has queued is settled.
  Imports owe nothing.

## 4. What is proved

TLAPS proves, for every value of the constants - rows, attempts, messages, runs, tasks, ticks,
bookings, rooms, guests, sends, vocabularies, windows, faults - the theorems that `PROJECT.json`
lists. Each module's proof goes `Init`, one step per action, then the temporal step.

* `SendLedgerProofs`: `TypeCorrect`, `TranscriptSafe`, `HealableSafe`, `AnsweredLastSafe`,
  `StatusOnlyClimbsSafe`, `NeverResentSafe`. None of them is inductive by itself: that a `sent`
  row's id was accepted rests on who held that id before. The invariant is `TypeOK` with
  `IdCustody` (an id is read off the last, accepted attempt; reaches the row only from the
  dispatcher's hand; is on the row exactly when the row left `queued` by way of `sent` or a
  failure that had it; a dispatch that is still posting has none, and its row is queued unless the
  sweep gave it up) and `FailureStaysHealable`.
* `ConversationProofs`: `TypeCorrect`, `TakenUpOnceSafe`, `HoldEndsOnlyByStaffSafe`,
  `NothingSkippedSafe`, `PendingIsCoveredSafe`, `Implementation`. What a winning claim takes up lies
  beyond the pointer that the run read, and the claim's guard says that the pointer still is where
  it was read: that is the invariant behind `TakenUpOnce`. For `PendingIsCovered` it is `Behind`:
  what a run has read of the pointer never lies ahead of it, so that a run which finds nothing
  pending may end its wake. `NothingSkippedSafe` and `Implementation` rest on `Complete`: what lies
  between the pointer that a run read and the newest message of its batch is in the batch or was
  `overtaken`, that is, it became visible after a younger message. A message that turns up behind
  the pointer was overtaken too, since the pointer is itself a message. So the messages that no turn
  takes up are among the overtaken ones, and nothing is assumed of the order in which inserts become
  visible.
* `StaffTasksProofs`: `TypeCorrect`, `HeldWorkSafe`, `OkIsTrueSafe`, `LadderHonestSafe`,
  `TerminalStaysSafe` (done, cancelled and notify_failed are final), `CapHoldsSafe` (the open
  services of a conversation). The invariant says who can have a row in hand. While the
  first card of a task is out, the task has reached nobody, no rung of it is due, and no tick has
  read it, so that a failure may write it off and only the verdict on that card can be wrong (`TurnInv`); what a tick has read is a task with a
  ladder, at one of its rungs, and what it is about to mark has landed (`TickInv`); the nudges on
  the thread and those yet to be written are no more than the rungs taken (`LadderInv`); a live
  service had a card, unless its run died or its verdict was lost (`ServiceInv`). That no rung of
  a task is due while its first card is out is an assumption of the model (`Age`): a card is sent
  in less than an SLA. Tasks and ticks are assumed finite, which the counts need.
* `LifecycleProofs`: `Inductive`, `TypeCorrect`, `OneCopySafe`, `OutcomeIsFinalSafe`,
  `SilentAfterCancelSafe`, `StopIsFinalSafe`, `CapHoldsSafe`. Without any condition: a row that a
  tick posts is `sent`, and no other tick posts it, because a claim needs it pending (`Posting`); what
  is claimed and not landed is with Meta only by doubts (`Copies`, where a crash lands at most one
  post per row); what a tick judged alive is not withdrawn, or is no longer pending, since a
  withdrawal takes every pending row with it and only another tick's retry brings a row back, which
  marks this one (`Alive`); what it read of a row's guest still holds, or the row is marked
  (`Bound`); whom the gates found willing is so, since a STOP takes back pending rows (`Willing`).
  While no tick has outlasted its job there is one at a time (`Alone`), the count it compared with
  the cap grows by its own claim alone (`Room`), and so nobody is past a cap (`Capped`): a copy beyond the doubts belongs to a row that is `sent`. All actions
  outside of the sender are first reduced to one relation, `Outside`.
* `OutboxProofs`: `Implementation`. The mapping forgets batches, plans and clocks: a row is nothing yet,
  open, gone or ended (`StateOf`), the wanting are those opted in, and the marks of all ticks are pooled
  in `moved` and `unasked`. A claim is the one step by which a message goes, and its guards in `Outbox`
  are `Alive` and `Willing`; that a post lands, fails or is put back needs `Posting` and `Copies` (with a
  crash, a set of posts lands, one of each row at most); a lost claim, a deferral or a skip ends
  nothing or what was open and lets go of the tick's marks. One more invariant is needed, that a tick
  is marked only while it has a row in hand (`Marked`), or a mark would pass to its next row.
* `BookingMirrorProofs`: `Inductive`, `TypeCorrect`, `DivergenceToldSafe`, `EveryEventIsNewsSafe`,
  `NoTaskForTheDeadSafe`. What a poll has in hand or done is held by eZee still, or superseded there,
  one payload per booking, cancels last (`Polling`); the end of a booking is told by its cancels or by
  a payload that says so (`TellsEnd`); the queue tells of a booking's life what the
  mirror has not heard (`LifeOf`); the mirror and eZee agree, or something waits, or ops was told
  (`AgreeOf`, in three parts: acknowledged, alive, ended). That as many cancels as rooms mean the end
  of a group (`GroupEnds`) is a counting argument over the injection of cancels into rooms.
* `RepliesProofs`: `TypeCorrect`, `OneReplySafe`, `OneStrikeSafe`, `ClaimsBackedSafe`,
  `ReferralSafe`. Rows and loop results tell of what happened (`RowsTell`, `LoopIsTrue`); a text that
  passed the guardrails claims only what these license and nothing a later page has to make true
  without that page (`Backing`); the pages owed are those the reason of the reply names (`Paging`);
  and a batch has a reply, a strike and an approval only if the cursor has passed it (`Replied`,
  `Struck`). The lemmas about the operators of `Guardrails` are proved once and cited.
* `MemoryProofs`: `TypeCorrect`, `NotesAreTrueSafe`, `HistoryIsSettledSafe`. A run's text covers
  all between the pointer it read and the one it will store, but for what was blank or turned up
  late, and its compare-and-set means that the pointer is where it was read, or came back there,
  which is counted as late; the notes never tell of what is not behind the pointer, and what a run or
  the notes hold had been sent, and may have failed since (`soured`); a body of an
  import in hand is stored or yet to do. For an erased guest `Held` follows the texts through every
  hand: notes, runs, rows that are not blank and rows yet to insert are all of what was in hand.

Model-checked only: what is under fairness (`QueuedIsResolved`, `EveryMessageIsTakenUp`,
`EveryOpenTaskIsChased`, `DeadRowsEnd`, `SweepHeals`, `EveryItemIsAcked`, `EveryThreadIsCaughtUp`),
which is beyond the prover, and the two violations. `AnsweredLastSafe`, `TerminalStaysSafe` and
`CapHoldsSafe` of `StaffTasksProofs` and `OneCopySafe` are proved and in no run, the last because
`ImplementsOutbox` has it as a part.

## 5. Findings

Where the code does something else than its own text says. Two are runs that end in a
counterexample:

1. *Copies at Meta* (`ledger_double_send`). `README.md:80` says that crashes, retries and
   redeploys can never double-send. The intent row does keep crashes and redeploys from sending
   twice (`NeverResent`), but `lib/http.ts` posts a message again after a timeout or a 5xx.
2. *An import that died* (`memory_retry`). `wa/history.ts:84-85` says that a retry imports what is
   missing, and `:212` that the nightly pass recovers a failed rewind. The rewind is keyed on the rows
   that this attempt inserted, in memory; the retry finds duplicates only, the nightly pass never
   looks behind the pointer, and the imported messages stay outside notes and window for good.

Seen while modelling, and shown by a counterexample or a reading of the model, without a run:

* *Takeover.* `README.md:31` says that a human typing silences the AI instantly. The hold is read
  before the model call; the claim (`worker.ts:270`) looks only at the pointer, and a reply goes out
  minutes into a takeover. `sendApprovedReply` checks and sends in two steps likewise.
* *Cool-off.* `policy.ts:367` says that over-limit during a takeover is silent; an echo's hold leaves
  the status at `ai_active`, `COOL_OFF` is decided first (`policy.ts:210`), and the line goes out.
* *Passed by.* `worker.ts:606` says that the sweep finds any conversation with an unprocessed message.
  `created_at` is stamped when an INSERT starts, the row is visible at its commit, and a message that
  becomes visible behind the pointer is found by nobody. It is the one exception that `TurnTaking`
  makes (`ArriveLate`), `NothingSkipped` says that there is no other, and without
  `\/ i \in overtaken` TLC finds it violated in the eleven states of two messages.
* *`ok` without a card.* `createStaffTask.ts:19` says that `ok` answers whether a human got it. After a
  crash between row and card, the retry replays `ok` from the row (`:310`), whereas
  `escalateToHuman.ts:187` sends again.
* *Nobody has it.* `notifier.ts:212-218` keeps `notify_failed` for a task that no human has ever seen.
  The failure of a send includes timeouts and lost answers after which Meta may have accepted the card
  (`lib/http.ts:40`), so that a task somebody holds the card of is written off, and DONE answers that it
  is closed (`doubted`); without that exception TLC refutes `HeldWorkSurvives`.
* *The late night queue.* `tasks.ts:465` says that what the night queued is due at this digest. A turn
  that began before 10:00 (`escalateToHuman.ts:111`) may queue after it.
* *Stray.* `scheduler.ts:293` is careful that nothing goes to a number that is no longer on the booking;
  a tick's batch (`sender.ts:117`) keeps the guest it read, and a row re-bound under it goes to the old
  one (`strayed`).
* *Armed again.* `sendGuards.ts:238` puts a row whose send timed out back to pending. A cancel or a STOP
  that came while it was with Meta found nothing pending to take back, and the gates are asked again
  only by a tick that reads the row anew: a tick that overlaps and has passed them with this row claims
  it and sends (`rearmed`).
* *Bringing the team in.* `worker.ts:324-325` says that the line must be true at guest-receipt time;
  `escalateToOps` (`opsEscalation.ts:94-104`) returns normally when nobody could be reached, and the
  line is dispatched (`lost` in `Replies`).
* *Arrival tasks.* `jobs/index.ts:140-144` says of the event workers "Together they are complete". The
  created worker reads the mirror alive, the cancelled worker finds no task to revoke, and the created
  worker inserts one: an open task of a dead booking, which no later event takes back (`raced`); TLC
  refutes `NoTaskForTheDead` without that exception.
* *Booking mirror.* A group's cancel of `['877-1', '877']` with nothing mirrored inserts the stub `877`
  twice, and the transaction fails at every redelivery (`poller.ts:193-217`); a stale cancel behind a
  reviving reservation of the same poll cancels it silently; created and modified jobs of one booking
  may leave a stale deadline; nothing sweeps for a lost cancelled job's arrival task.
* *Sender.* `sendGuards.ts:228-231` takes a failed send as provably not gone, a timeout included;
  the row armed again counts for no cap, so that a guest may get a second win-back of a cap of one
  (`doubts` in `CapHolds`);
  `sendGuards.ts:359` says the stale guard bounds every wait, which is false of deferrals for a missing
  source or phone and of win-backs; the refresh at `leadFollowup.ts:192` is unreachable; a lead
  scheduled by a turn that began before a booking is cancelled by the hourly sweep only.
* *Drafts.* A crash after `claimDraftDecision` leaves a draft approved and nothing sent; one after the
  UPDATE of the expiry loses its alert; one between claim and strike loses the strike. A veto of the
  first loop does not survive a retry of the job; a unit failure after a trim pages as an overclaim.
* *Said and not said.* `db/summaries.ts:118-126` keeps what the guest did not see out of the notes. Sent
  is not the last word, though: `repos.ts:721-737` lets a `failed` webhook take a row from `sent`, and a
  message that was compacted before it stays in the notes (`soured`); TLC refutes `NothingElse`
  without that exception.
* *Memory.* An erasure while a run is at work is written over by it (`erasure.ts:49-50` says the
  live database is erased now), and an import in flight goes on filling the thread, also with texts
  it had stored as duplicates, since the erasure takes the ids that made them so (`erasure.ts:261`);
  history rows that are inserted and not yet marked can be taken up by the sweep as new;
  `candidates` counts outbound rows that are queued or failed.
* *Ledger, tasks, operations.* A status webhook that arrives before the id is written matches no row and
  is dropped; a throw between claim and dispatch strands a committed reply until the sweep fails it; a
  `failed` webhook without errors leaves `error` null although `repos.ts` calls that an invariant; an
  escalation raised by a turn in flight after a takeover is chased although a human is there. In
  `ops/watchdog.ts`, with `QUIET_STALE_MINUTES` of fifteen hours or more the quiet alert cannot fire
  within its own hours.

## 6. Not modelled

* Text: prompts, knowledge, templates, the patterns behind the guardrails, the stage and house refusals,
  screening of guest facts. What the scanners find is a choice of the model.
* Pure I/O: alerts, health, watchdog, backups, keep-alive, signatures, door lookups, the model API, cost
  meter, and quotes from outside services.
* Single statements with no partner: the cap of guest facts, the admin commands for consent, which
  columns an erasure blanks.
* In part: the rate counters behind the policy are a choice of the guest; the linking of a phone to its
  stays; the linked audit row of a draft; contacts and payload shapes of a history import, of which one
  runs at a time and one thread is modelled; the backfill script and the alert ladder of failing polls;
  the report to ops of the digest; a tick's limit of twenty tasks, which needs more than twenty at once.

## 7. What is left

1. One composition of `Conversation`, `Replies` and `SendLedger` with a single claim, as a refinement in
   place of the assumptions at their seams.
2. The admin side: consent commands, erasure by column, the cost cap.
