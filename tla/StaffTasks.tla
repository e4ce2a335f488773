----------------------------- MODULE StaffTasks -----------------------------
(***************************************************************************)
(* The staff tasks of one guest conversation, and everybody who moves      *)
(* them: the turn's tools that raise them before the turn is claimed       *)
(* (brain/tools/createStaffTask.ts, escalateToHuman.ts), the media task it *)
(* raises after the claim, the notifier (staff/notifier.ts), the SLA       *)
(* nudger, the morning digest, the DONE command and the human takeover.    *)
(* They share the table tasks and nothing else: every move is one guarded  *)
(* UPDATE (db/tasks.ts), and every card is a call that may fail.           *)
(*                                                                         *)
(* Think phases do not overlap: turn.ts bounds one by 150 s, and the queue *)
(* retries after 180 s.                                                    *)
(***************************************************************************)
EXTENDS Integers, FiniteSets

CONSTANTS
  Tasks,          (* The request keys that may come up. *)
  Agendas,        (* Those that come up in one behaviour. *)
  Batch, Ask,     (* A key's batch of guest messages, and what it asks for. *)
  Nobody,         (* No task. *)
  NBatches,       (* Batches, numbered in the order of their turns. *)
  MaxOpen,        (* MAX_OPEN_TASKS_PER_CONVERSATION. *)
  MaxCalls,       (* MAX_TASKS_PER_TURN. *)
  Ticks,          (* Ticks of the nudger that may overlap. *)
  MaxFaults       (* Bounds throws, expiries, lost writes and crashes. *)

Asks == {"service", "escalation", "media"}

ASSUME TasksAssumption ==
  /\ Nobody \notin Tasks
  /\ Agendas \subseteq SUBSET Tasks
  /\ NBatches \in Nat
  /\ Batch \in [Tasks -> 1 .. NBatches]
  /\ Ask \in [Tasks -> Asks]
  /\ \A t, u \in Tasks : Batch[t] = Batch[u] /\ Ask[t] = Ask[u] => t = u
(* A behaviour asks for finitely many things; few ticks overlap.            *)
ASSUME FiniteAssumption == IsFiniteSet(Tasks) /\ IsFiniteSet(Ticks)
ASSUME BoundsAssumption == MaxOpen \in Nat /\ MaxCalls \in Nat /\ MaxFaults \in Nat

VARIABLES
  (* Table tasks. *)
  status,         (* tasks.status; "none" before the row exists. *)
  kind,           (* tasks.kind: the ask, or night_queue until the digest. *)
  rung,           (* tasks.nudge_count. *)
  due,            (* Rungs of its ladder that are due at the clock's time. *)
  (* The clock. *)
  night,
  digest,         (* The morning's job: "none", "due" or "sending". *)
  (* The turn. *)
  pc,             (* "idle", "think", "append", "card", "media". *)
  turnNight,      (* isNightIST of the DB clock at the start of the turn. *)
  calls,          (* tasks.created.count. *)
  raised,         (* escalation.raised.count is spent. *)
  target, mode,   (* The task in hand, and how its card is sent. *)
  ok,             (* Tasks a tool run said ok about, the queued aside. *)
  claimed,        (* Batches claimed. *)
  agenda,         (* What the guest asks for, sooner or later. *)
  (* The nudger: what its ticks have read of one overdue task each. *)
  nudging,        (* The task. *)
  readRung,       (* Its nudge_count as it was read. *)
  step,           (* "read"; "landed", to be marked; "fired", to be on record. *)
  (* The digest. *)
  woken,          (* Converted tasks whose card is yet to be sent. *)
  faults,
  (* History. *)
  reached,        (* A human got a card about the task. *)
  doubted,        (* Its first card was called failed, and a human has it. *)
  stranded,       (* A run died between the row of the task and its verdict. *)
  unmarked,       (* markNotifyFailed was lost on the task. *)
  landed,         (* Rungs whose nudge reached a human. *)
  nudgeRows       (* sla_nudge rows on the guest's thread. *)

row == <<status, kind, rung, due>>
clock == <<night, digest>>
turn == <<pc, turnNight, calls, raised, target, mode, ok, claimed, agenda>>
nudger == <<nudging, readRung, step>>
history == <<reached, doubted, stranded, unmarked, landed, nudgeRows>>
vars == <<row, clock, turn, nudger, woken, faults, history>>

Statuses == {"none", "open", "nudged", "done", "cancelled", "notify_failed"}
Live == {"open", "nudged"}                    (* LIVE_TASK_STATUSES *)
Terminal == {"done", "cancelled", "notify_failed"}
IsLive(t) == status[t] \in Live

(* origin: the guest asked for it, or the system raised it for them. *)
Guest(t) == Ask[t] # "media"

(* Mutant: one rung too many. *)
RungsAndOne(k) == CASE k = "escalation" -> 3 [] k = "night_queue" -> 0 [] OTHER -> 1

(* RUNGS: none for a night_queue task, one for a task, two for an escalation. *)
Rungs(k) == CASE k = "escalation" -> 2 [] k = "night_queue" -> 0 [] OTHER -> 1

TypeOK ==
  /\ status \in [Tasks -> Statuses]
  /\ kind \in [Tasks -> Asks \cup {"night_queue"}]
  /\ rung \in [Tasks -> 0 .. 2]
  /\ due \in [Tasks -> 0 .. 2]
  /\ night \in BOOLEAN /\ digest \in {"none", "due", "sending"}
  /\ pc \in {"idle", "think", "append", "card", "media"}
  /\ turnNight \in BOOLEAN
  /\ calls \in 0 .. MaxCalls
  /\ raised \in BOOLEAN
  /\ target \in Tasks \cup {Nobody}
  /\ mode \in {"raise", "renotify", "escalation"}
  /\ ok \subseteq Tasks
  /\ claimed \in 0 .. NBatches
  /\ agenda \subseteq Tasks
  /\ nudging \in [Ticks -> Tasks \cup {Nobody}]
  /\ readRung \in [Ticks -> 0 .. 1]
  /\ step \in [Ticks -> {"read", "landed", "fired"}]
  /\ woken \subseteq Tasks
  /\ faults \in 0 .. MaxFaults
  /\ reached \subseteq Tasks /\ doubted \subseteq Tasks /\ stranded \subseteq Tasks /\ unmarked \subseteq Tasks
  /\ landed \in [Tasks -> SUBSET (0 .. 1)]
  /\ nudgeRows \in [Tasks -> Nat]

Init ==
  /\ status = [t \in Tasks |-> "none"]
  /\ kind = Ask
  /\ rung = [t \in Tasks |-> 0]
  /\ due = [t \in Tasks |-> 0]
  /\ night \in BOOLEAN /\ digest = "none"
  /\ pc = "idle" /\ turnNight = FALSE /\ calls = 0 /\ raised = FALSE
  /\ target = Nobody /\ mode = "raise" /\ ok = {}
  /\ claimed = 0 /\ agenda \in Agendas
  /\ nudging = [k \in Ticks |-> Nobody]
  /\ readRung = [k \in Ticks |-> 0]
  /\ step = [k \in Ticks |-> "read"]
  /\ woken = {}
  /\ faults = 0
  /\ reached = {} /\ doubted = {} /\ stranded = {} /\ unmarked = {}
  /\ landed = [t \in Tasks |-> {}]
  /\ nudgeRows = [t \in Tasks |-> 0]

Fault == faults < MaxFaults /\ faults' = faults + 1

(* A card that failed, or was cut off, may have been accepted all the same: *)
(* a timeout counts as a failure, and so does an answer that is lost.       *)
MayHaveReached(S) == \E got \in SUBSET S : reached' = reached \cup got

-----------------------------------------------------------------------------
(* A turn: the tool loop before its claim, and the media task after it. *)

(* A job of the next batch reaches the model; a retry starts afresh.        *)
TurnStart ==
  /\ pc = "idle"
  /\ claimed < NBatches
  /\ pc' = "think"
  /\ turnNight' = night
  /\ UNCHANGED <<row, clock, calls, raised, target, mode, ok, claimed, agenda,
                 nudger, woken, faults, history>>

(* The requestKey of what the turn's batch asks for. *)
KeyOf(t, ask) == t \in agenda /\ Batch[t] = claimed + 1 /\ Ask[t] = ask

(* The tool's answer about t is ok: "did a human get this?"                 *)
SaysOk(t) == ok' = ok \cup {t}

Spends == calls' = calls + 1

(* Mutant: GATE 0 replays whatever became of the task. *)
ReplayServiceAnyway(t) ==
  /\ pc = "think" /\ calls < MaxCalls
  /\ KeyOf(t, "service")
  /\ status[t] # "none"
  /\ SaysOk(t)
  /\ Spends
  /\ UNCHANGED <<row, clock, pc, turnNight, raised, target, mode, claimed, agenda,
                 nudger, woken, faults, history>>

(* GATE 0, answerFromExisting: the key has its task, and the ask is similar *)
(* - or the task is over, and the answer is an error.                       *)
ReplayService(t) ==
  /\ pc = "think" /\ calls < MaxCalls
  /\ KeyOf(t, "service")
  /\ \/ IsLive(t) /\ SaysOk(t)
     \/ status[t] \in Terminal /\ UNCHANGED ok
  /\ Spends
  /\ UNCHANGED <<row, clock, pc, turnNight, raised, target, mode, claimed, agenda,
                 nudger, woken, faults, history>>

(* getLiveTasksForConversation: what the guest asked for, and is in flight. *)
LiveOfGuest == {t \in Tasks : Guest(t) /\ IsLive(t)}
LiveService == {t \in LiveOfGuest : Ask[t] = "service"}

(* The ask is appended to task u: GATE 0, its own key with another summary; *)
(* GATE 3, a near-duplicate; GATE 4, at the cap.                            *)
AppendsTo(t, u) ==
  \/ u = t /\ IsLive(t)
  \/ u \in LiveService /\ status[t] = "none"

ChooseAppend(t, u) ==
  /\ pc = "think" /\ calls < MaxCalls
  /\ KeyOf(t, "service")
  /\ AppendsTo(t, u)
  /\ pc' = "append" /\ target' = u
  /\ UNCHANGED <<row, clock, turnNight, calls, raised, mode, ok, claimed, agenda,
                 nudger, woken, faults, history>>

UnderTheCap == Cardinality(LiveOfGuest) < MaxOpen

(* insertTask. *)
InsertRow(t, k) ==
  /\ status' = [status EXCEPT ![t] = "open"]
  /\ kind' = [kind EXCEPT ![t] = k]

(* The card of task t goes out next. *)
SendCard(t, m) == pc' = "card" /\ target' = t /\ mode' = m

(* raise: below the cap, a row and its first card.  Nobody else inserts on  *)
(* the guest's account meanwhile, so that the key is free and the cap holds.*)
RaiseService(t) ==
  /\ pc = "think" /\ calls < MaxCalls
  /\ KeyOf(t, "service")
  /\ status[t] = "none" /\ UnderTheCap
  /\ InsertRow(t, "service")
  /\ SendCard(t, "raise")
  /\ Spends
  /\ UNCHANGED <<rung, due, clock, turnNight, raised, ok, claimed, agenda,
                 nudger, woken, faults, history>>

(* Mutant: appendAnswer sends its card as a raise. *)
AppendAsRaise ==
  /\ pc = "append"
  /\ IF IsLive(target) THEN SendCard(target, "raise") /\ Spends
     ELSE pc' = "think" /\ target' = Nobody /\ UNCHANGED <<mode, calls>>
  /\ UNCHANGED <<row, clock, turnNight, raised, ok, claimed, agenda,
                 nudger, woken, faults, history>>

(* appendAnswer: the guarded UPDATE may find the task closed by now.        *)
Append ==
  /\ pc = "append"
  /\ IF IsLive(target) THEN SendCard(target, "renotify") /\ Spends
     ELSE pc' = "think" /\ target' = Nobody /\ UNCHANGED <<mode, calls>>
  /\ UNCHANGED <<row, clock, turnNight, raised, ok, claimed, agenda,
                 nudger, woken, faults, history>>

(* escalate_to_human, by day and by the turn's clock: insert, then card.    *)
EscalateByDay(t) ==
  /\ pc = "think" /\ KeyOf(t, "escalation")
  /\ status[t] = "none" /\ ~raised /\ ~turnNight
  /\ InsertRow(t, "escalation")
  /\ raised' = TRUE
  /\ SendCard(t, "escalation")
  /\ UNCHANGED <<rung, due, clock, turnNight, calls, ok, claimed, agenda,
                 nudger, woken, faults, history>>

(* By night: queued for the next 10:00 after the turn's clock - which has   *)
(* passed when the turn began before it and inserts after it.               *)
EscalateByNight(t) ==
  /\ pc = "think" /\ KeyOf(t, "escalation")
  /\ status[t] = "none" /\ ~raised /\ turnNight
  /\ InsertRow(t, "night_queue")
  /\ due' = [due EXCEPT ![t] = IF night THEN 0 ELSE 1]
  /\ raised' = TRUE
  /\ UNCHANGED <<rung, clock, pc, turnNight, calls, target, mode, ok, claimed, agenda,
                 nudger, woken, faults, history>>

(* replayFromExisting: a day escalation that is not resolved is sent again. *)
ReplayEscalation(t) ==
  /\ pc = "think" /\ KeyOf(t, "escalation")
  /\ IsLive(t) /\ kind[t] = "escalation"
  /\ SendCard(t, "escalation")
  /\ UNCHANGED <<row, clock, turnNight, calls, raised, ok, claimed, agenda,
                 nudger, woken, faults, history>>

(* Back from the card to the tool loop - or, for a media task, to the end.  *)
CardDone ==
  /\ pc' = IF Ask[target] = "media" THEN "idle" ELSE "think"
  /\ target' = Nobody /\ mode' = "raise"

CardLands ==
  /\ pc = "card"
  /\ reached' = reached \cup {target}
  /\ ok' = IF Ask[target] = "media" THEN ok ELSE ok \cup {target}
  /\ CardDone
  /\ UNCHANGED <<row, clock, turnNight, calls, raised, claimed, agenda, nudger, woken, faults,
                 doubted, stranded, unmarked, landed, nudgeRows>>

(* markNotifyFailed. *)
MarkNotifyFailed(t) ==
  status' = [status EXCEPT ![t] = IF @ = "open" THEN "notify_failed" ELSE @]

(* recordHole: only a raise may take the task out of the ladder's hands -   *)
(* and does, whoever may have got the card that was called failed.          *)
CardFails ==
  /\ pc = "card"
  /\ MayHaveReached({target})
  /\ IF mode = "raise"
     THEN MarkNotifyFailed(target) /\ doubted' = doubted \cup (reached' \ reached)
     ELSE UNCHANGED <<status, doubted>>
  /\ CardDone
  /\ UNCHANGED <<kind, rung, due, clock, turnNight, calls, raised, ok, claimed, agenda,
                 nudger, woken, faults, stranded, unmarked, landed, nudgeRows>>

(* markNotifyFailed throws, and the notifier swallows it.                   *)
CardFailsUnmarked ==
  /\ Fault
  /\ pc = "card" /\ mode = "raise"
  /\ MayHaveReached({target})
  /\ unmarked' = unmarked \cup {target}
  /\ CardDone
  /\ UNCHANGED <<row, clock, turnNight, calls, raised, ok, claimed, agenda, nudger, woken,
                 doubted, stranded, landed, nudgeRows>>

(* The turn's locals go with it. *)
TurnOver ==
  /\ calls' = 0 /\ raised' = FALSE /\ turnNight' = FALSE
  /\ ok' = {}

(* The claim is won and the reply goes out; what it promises, the scanner   *)
(* has checked against ok.  Bare media gets a follow-up.                    *)
Claim ==
  /\ pc = "think"
  /\ claimed' = claimed + 1
  /\ \/ pc' = "idle" /\ UNCHANGED target
     \/ \E t \in Tasks : KeyOf(t, "media") /\ calls = 0 /\ ~raised /\ pc' = "media" /\ target' = t
  /\ TurnOver
  /\ UNCHANGED <<row, clock, mode, agenda, nudger, woken, faults, history>>

(* raiseMediaFrontdeskTask. *)
RaiseMedia ==
  /\ pc = "media"
  /\ InsertRow(target, "media")
  /\ SendCard(target, "raise")
  /\ UNCHANGED <<rung, due, clock, turnNight, calls, raised, ok, claimed, agenda,
                 nudger, woken, faults, history>>

(* What a death of the run does to the card it was sending: the task of a   *)
(* raise stays open, whether or not the card has gone out.                  *)
StrandsTarget ==
  stranded' = IF pc = "card" /\ mode = "raise" THEN stranded \cup {target} ELSE stranded

RunDies ==
  /\ StrandsTarget
  /\ pc' = "idle" /\ target' = Nobody /\ mode' = "raise"
  /\ TurnOver

(* The model call or a read throws: the job fails, its retry starts afresh. *)
TurnThrows ==
  /\ Fault
  /\ pc \in {"think", "media"}
  /\ RunDies
  /\ UNCHANGED <<row, clock, claimed, agenda, nudger, woken, reached, doubted, unmarked,
                 landed, nudgeRows>>

TurnStep ==
  \/ \E t \in Tasks : ReplayService(t) \/ RaiseService(t)
                      \/ EscalateByDay(t) \/ EscalateByNight(t) \/ ReplayEscalation(t)
  \/ \E t, u \in Tasks : ChooseAppend(t, u)
  \/ Append \/ RaiseMedia
  \/ CardLands \/ CardFails

-----------------------------------------------------------------------------
(* runSlaNudger, every five minutes: it reads all overdue tasks and takes  *)
(* them one by one.  What it does to one depends on no other, so that a    *)
(* tick stands for its handling of one, from the read to the evidence.     *)

(* findOverdueTasks, less the tasks with no rung due.                       *)
Overdue(t) == status[t] = "open" /\ rung[t] < due[t] /\ rung[t] < Rungs(kind[t])

(* stately keeps ticks apart, until a job outlasts its 420 s and expires.   *)
TickReads(k, t) ==
  /\ nudging[k] = Nobody
  /\ Overdue(t)
  /\ IF \E j \in Ticks : nudging[j] # Nobody THEN Fault ELSE UNCHANGED faults
  /\ nudging' = [nudging EXCEPT ![k] = t]
  /\ readRung' = [readRung EXCEPT ![k] = rung[t]]
  /\ step' = [step EXCEPT ![k] = "read"]
  /\ UNCHANGED <<row, clock, turn, woken, history>>

(* The tick is through with its task. *)
LetGo(k) ==
  /\ nudging' = [nudging EXCEPT ![k] = Nobody]
  /\ readRung' = [readRung EXCEPT ![k] = 0]
  /\ step' = [step EXCEPT ![k] = "read"]

NudgeLands(k) ==
  LET t == nudging[k] IN
  /\ t # Nobody /\ step[k] = "read"
  /\ step' = [step EXCEPT ![k] = "landed"]
  /\ landed' = [landed EXCEPT ![t] = @ \cup {readRung[k]}]
  /\ reached' = reached \cup {t}
  /\ UNCHANGED <<row, clock, turn, nudging, readRung, woken, faults, doubted, stranded, unmarked,
                 nudgeRows>>

(* Nobody was reachable, as far as the sends tell: no advance, no evidence. *)
NudgeFails(k) ==
  /\ nudging[k] # Nobody /\ step[k] = "read"
  /\ MayHaveReached({nudging[k]})
  /\ LetGo(k)
  /\ UNCHANGED <<row, clock, turn, woken, faults, doubted, stranded, unmarked, landed, nudgeRows>>

(* Mutant: markRungFired does not ask for the count it read. *)
RungAnyCount(k, t) == status[t] = "open"

(* markRungFired finds the row as the tick read it.                         *)
RungIsMine(k, t) == status[t] = "open" /\ rung[t] = readRung[k]

MarkRungFired(k) ==
  LET t == nudging[k]
      n == readRung[k] + 1
  IN
  /\ t # Nobody /\ step[k] = "landed"
  /\ IF RungIsMine(k, t)
     THEN /\ rung' = [rung EXCEPT ![t] = n]
          /\ status' = [status EXCEPT ![t] = IF n >= Rungs(kind[t]) THEN "nudged" ELSE "open"]
          /\ step' = [step EXCEPT ![k] = "fired"]
          /\ UNCHANGED <<nudging, readRung>>
     ELSE LetGo(k) /\ UNCHANGED <<rung, status>>
  /\ UNCHANGED <<kind, due, clock, turn, woken, faults, history>>

(* writeNudgeEvidence: on the guest's thread, if the guest asked for it.    *)
WriteNudgeEvidence(k) ==
  LET t == nudging[k] IN
  /\ t # Nobody /\ step[k] = "fired"
  /\ nudgeRows' = [nudgeRows EXCEPT ![t] = IF Guest(t) THEN @ + 1 ELSE @]
  /\ LetGo(k)
  /\ UNCHANGED <<row, clock, turn, woken, faults, reached, doubted, stranded, unmarked, landed>>

(* An error on the way is swallowed: the next tick is the retry.            *)
NudgeBreaksOff(k) ==
  /\ Fault
  /\ nudging[k] # Nobody
  /\ MayHaveReached({nudging[k]})
  /\ LetGo(k)
  /\ UNCHANGED <<row, clock, turn, woken, doubted, stranded, unmarked, landed, nudgeRows>>

TickStep(k) ==
  NudgeLands(k) \/ NudgeFails(k) \/ MarkRungFired(k) \/ WriteNudgeEvidence(k)

-----------------------------------------------------------------------------
(* runMorningDigest, a job of every 10:00. *)

(* Mutant: what nobody has been told of is left to the ladder.              *)
NightQueueReached == {t \in reached : kind[t] = "night_queue" /\ status[t] = "open"}

NightQueue == {t \in Tasks : kind[t] = "night_queue" /\ status[t] = "open"}

(* convertNightQueueTasks: one UPDATE, and the first write of the job.      *)
DigestConverts ==
  /\ digest = "due"
  /\ digest' = "sending"
  /\ kind' = [t \in Tasks |-> IF t \in NightQueue THEN "escalation" ELSE kind[t]]
  /\ due' = [t \in Tasks |-> IF t \in NightQueue THEN 0 ELSE due[t]]
  /\ rung' = [t \in Tasks |-> IF t \in NightQueue THEN 0 ELSE rung[t]]
  /\ woken' = NightQueue
  /\ UNCHANGED <<status, night, turn, nudger, faults, history>>

(* Each gets its first card now; a failed one is left to the ladder.        *)
DigestCard(t) ==
  /\ t \in woken
  /\ woken' = woken \ {t}
  /\ MayHaveReached({t})
  /\ UNCHANGED <<row, clock, turn, nudger, faults, doubted, stranded, unmarked, landed, nudgeRows>>

DigestEnds ==
  /\ digest = "sending" /\ woken = {}
  /\ digest' = "none"
  /\ UNCHANGED <<row, night, turn, nudger, woken, faults, history>>

DigestStep ==
  \/ DigestConverts \/ DigestEnds
  \/ \E t \in Tasks : DigestCard(t)

-----------------------------------------------------------------------------
(* The people, the clock and the platform. *)

(* handleStaffCommand, DONE: the guarded close.                             *)
Done(t) ==
  /\ IsLive(t)
  /\ status' = [status EXCEPT ![t] = "done"]
  /\ UNCHANGED <<kind, rung, due, clock, turn, nudger, woken, faults, history>>

Cancellable(t) == IsLive(t) /\ kind[t] \in {"escalation", "night_queue"}

(* cancelLiveEscalationsForConversation, of a takeover or AI OFF.           *)
CancelLiveEscalations ==
  /\ \E t \in Tasks : Cancellable(t)
  /\ status' = [t \in Tasks |-> IF Cancellable(t) THEN "cancelled" ELSE status[t]]
  /\ UNCHANGED <<kind, rung, due, clock, turn, nudger, woken, faults, history>>

(* The SLA of an open task runs out, and ten minutes more; a card is sent   *)
(* in less, so not that of a task whose first card is still on its way.     *)
Age(t) ==
  /\ status[t] = "open"
  /\ due[t] < Rungs(kind[t])
  /\ ~(pc = "card" /\ target = t)
  /\ due' = [due EXCEPT ![t] = @ + 1]
  /\ UNCHANGED <<status, kind, rung, clock, turn, nudger, woken, faults, history>>

(* 10:00: NIGHT_END, the digest's cron, and the deadline the night's tasks  *)
(* were given.                                                              *)
Daybreak ==
  /\ night
  /\ night' = FALSE /\ digest' = "due"
  /\ due' = [t \in Tasks |-> IF t \in NightQueue THEN 1 ELSE due[t]]
  /\ UNCHANGED <<status, kind, rung, turn, nudger, woken, faults, history>>

(* Neither a turn nor the digest with its retries lasts from ten to night.  *)
Nightfall ==
  /\ ~night /\ digest = "none"
  /\ ~turnNight
  /\ night' = TRUE
  /\ UNCHANGED <<row, digest, turn, nudger, woken, faults, history>>

(* The cards that somebody is sending just now. *)
OnTheirWay ==
  {t \in Tasks : \/ pc = "card" /\ target = t
                 \/ \E k \in Ticks : nudging[k] = t /\ step[k] = "read"
                 \/ t \in woken}

(* The process dies.  The jobs of the turn and the digest are retried, and  *)
(* the digest finds its tasks converted; the next tick is the nudger's.     *)
Crash ==
  /\ Fault
  /\ MayHaveReached(OnTheirWay)
  /\ RunDies
  /\ nudging' = [k \in Ticks |-> Nobody]
  /\ readRung' = [k \in Ticks |-> 0]
  /\ step' = [k \in Ticks |-> "read"]
  /\ woken' = {}
  /\ digest' = IF digest = "sending" THEN "due" ELSE digest
  /\ UNCHANGED <<row, night, claimed, agenda, doubted, unmarked, landed, nudgeRows>>

Next ==
  \/ TurnStart \/ TurnStep \/ Claim \/ TurnThrows \/ CardFailsUnmarked
  \/ \E k \in Ticks : TickStep(k) \/ NudgeBreaksOff(k) \/ \E t \in Tasks : TickReads(k, t)
  \/ DigestStep
  \/ \E t \in Tasks : Done(t) \/ Age(t)
  \/ CancelLiveEscalations
  \/ Daybreak \/ Nightfall \/ Crash

Spec == Init /\ [][Next]_vars

(***************************************************************************)
(* Runs, ticks and the digest take their next step (every wait in them has *)
(* a timeout), a turn writes its reply within MAX_TOOL_ROUNDS, the crons   *)
(* tick, a tick passes by no overdue task (up to twenty), and the clock    *)
(* runs.  Guests, staff, deliveries and faults owe nothing.                *)
(***************************************************************************)
FairSpec ==
  /\ Spec
  /\ WF_vars(TurnStep) /\ SF_vars(Claim)
  /\ \A t \in Tasks : SF_vars(\E k \in Ticks : TickReads(k, t))
  /\ \A k \in Ticks : WF_vars(TickStep(k))
  /\ WF_vars(DigestStep)
  /\ \A t \in Tasks : WF_vars(Age(t))
  /\ WF_vars(Daybreak) /\ WF_vars(Nightfall)

-----------------------------------------------------------------------------
(* Properties. *)

(* done, cancelled and notify_failed are final, whoever else holds a stale  *)
(* read of the task: a raise whose card is late, a tick, an append.         *)
TerminalStays ==
  [][\A t \in Tasks : status[t] \in Terminal => status'[t] = status[t]]_vars

(* A task a human holds a card of is never taken out of the ladder's hands  *)
(* as notify_failed, for DONE would answer "already closed" about live work *)
(* - but for the task whose first card itself was called failed although it *)
(* had been accepted: recordHole cannot know, and writes that one off.      *)
HeldWorkSurvives ==
  \A t \in reached \ doubted : status[t] # "notify_failed"

(* A tool's ok, which licenses "the team has it" for the rest of the turn,  *)
(* means that a human got the card - but for a raise that died before its   *)
(* verdict, or whose verdict was lost on the row.                           *)
OkIsTrue ==
  ok \subseteq reached \cup stranded \cup unmarked

(* Every rung the ladder has taken reached a human, every nudge on the      *)
(* guest's record is such a rung and is there once, and a task counts as    *)
(* chased only when its ladder is spent.                                    *)
LadderIsHonest ==
  \A t \in Tasks :
    /\ 0 .. rung[t] - 1 \subseteq landed[t]
    /\ nudgeRows[t] + Cardinality({k \in Ticks : nudging[k] = t /\ step[k] = "fired"}) <= rung[t]
    /\ status[t] = "nudged" => rung[t] = Rungs(kind[t])

(* The cap of open requests: services do not outgrow it.                    *)
CapHolds ==
  Cardinality(LiveService) <= MaxOpen

(* Whatever failed or crashed, an open task comes up for chasing: the       *)
(* nudger or the digest takes it in hand, however late it was queued.       *)
EveryOpenTaskIsChased ==
  \A t \in Tasks :
    status[t] = "open" ~> (status[t] # "open" \/ t \in woken \/ \E k \in Ticks : nudging[k] = t)

=============================================================================
