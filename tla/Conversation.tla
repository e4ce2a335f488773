---------------------------- MODULE Conversation ----------------------------
(***************************************************************************)
(* One guest conversation: the webhook that stores its messages and wakes  *)
(* the worker (wa/webhook.ts), the stately pg-boss queue between them      *)
(* (jobs/index.ts), the worker's turn with its debounce, its policy, its   *)
(* model call and its optimistic claim (brain/worker.ts, debounce.ts,      *)
(* policy.ts, db/repos.ts), the sweeper, and the humans who take the       *)
(* thread over (staff/humanTakeover.ts, staff/commands.ts).                *)
(*                                                                         *)
(* Conversations share no state, so one is modelled.  Time is counted in   *)
(* ticks of 15 s on the DB clock, as the age of each message.              *)
(***************************************************************************)
EXTENDS Integers

CONSTANTS
  N,              (* Guest messages, numbered in the order of created_at. *)
  Runs,           (* Executions of processConversation that may overlap. *)
  NoRun, Orphan,  (* The job's holder: nobody; a process that died. *)
  Quiet, MaxWait, SweepAfter,   (* DEBOUNCE_WINDOWS, in ticks. *)
  DraftMode,      (* Is the draft path wired? *)
  MaxFaults,      (* Bounds throws, expiries, failed wakes and crashes. *)
  MaxStaff        (* Bounds what staff do in one behaviour. *)

ASSUME NAssumption == N \in Nat \ {0}
ASSUME HolderAssumption == NoRun \notin Runs /\ Orphan \notin Runs /\ NoRun # Orphan
(* The windows' invariant, which a unit test of debounce.ts pins.           *)
ASSUME WindowsAssumption ==
  /\ Quiet \in Nat /\ MaxWait \in Nat /\ SweepAfter \in Nat
  /\ Quiet <= MaxWait /\ MaxWait < SweepAfter
ASSUME BoundsAssumption == MaxFaults \in Nat /\ MaxStaff \in Nat
ASSUME ModesAssumption == DraftMode \in BOOLEAN

VARIABLES
  (* Table messages, the guest's rows, and the webhook's pending wakes. *)
  msg,            (* "none", "writing" (stamped, not visible), "stored", "lost". *)
  age,            (* Ticks since created_at, up to SweepAfter. *)
  toWake,         (* Stored messages whose enqueue the webhook still owes. *)
  (* Table conversations. *)
  pointer,        (* last_processed_message_id; 0 is NULL. *)
  status,         (* conversations.status. *)
  ttl,            (* human_active_until lies in the future. *)
  (* pg-boss. *)
  created,        (* A job waits in state created. *)
  retry,          (* A job waits in state retry. *)
  active,         (* Who holds the active job. *)
  (* The runs. *)
  pc,
  seen,           (* What the run read: pointer, status, hold, ages; and later
                     whether the batch may be older than a day. *)
  batch,          (* The unprocessed messages it read. *)
  plan,           (* The settlement plan of policy.ts. *)
  out,            (* What its claim committed and it has yet to send. *)
  echo,           (* How far an echo's takeover has come. *)
  faults, staff,  (* Faults and staff actions so far. *)
  (* History. *)
  turns,          (* How many claims took each message up. *)
  answered,       (* Messages whose claim committed a reply or a draft. *)
  lapsed,         (* A wake was lost: only the sweeper covers it. *)
  overtaken       (* Messages that became visible after a younger one. *)

messages == <<msg, age, toWake>>
thread == <<pointer, status, ttl>>
queue == <<created, retry, active>>
run == <<pc, seen, batch, plan, out>>
human == <<echo, staff>>
history == <<turns, answered, lapsed, overtaken>>
vars == <<messages, thread, queue, run, human, faults, history>>

Ids == 1 .. N
Statuses == {"ai_active", "human_active", "cooloff"}
Plans == {"silent", "coolOff", "line", "model"}
Ages == [Ids -> 0 .. SweepAfter]

Stored == {i \in Ids : msg[i] = "stored"}
Pending == {i \in Stored : i > pointer}
Held == status = "human_active" \/ ttl      (* isHumanActive *)
MaxOf(S) == CHOOSE i \in S : \A j \in S : j <= i
MinOf(S) == CHOOSE i \in S : \A j \in S : i <= j

Snapshots ==
  [pointer : 0 .. N, status : Statuses, held : BOOLEAN, ages : Ages, late : BOOLEAN]
NoAges == [i \in Ids |-> 0]
NothingSeen ==
  [pointer |-> 0, status |-> "ai_active", held |-> FALSE, ages |-> NoAges, late |-> FALSE]

TypeOK ==
  /\ msg \in [Ids -> {"none", "writing", "stored", "lost"}]
  /\ age \in Ages
  /\ toWake \subseteq Ids
  /\ pointer \in 0 .. N
  /\ status \in Statuses
  /\ ttl \in BOOLEAN
  /\ created \in BOOLEAN /\ retry \in BOOLEAN
  /\ active \in Runs \cup {NoRun, Orphan}
  /\ pc \in [Runs -> {"idle", "context", "batch", "claim", "settle", "recheck"}]
  /\ seen \in [Runs -> Snapshots]
  /\ batch \in [Runs -> SUBSET Ids]
  /\ plan \in [Runs -> Plans]
  /\ out \in [Runs -> {"none", "intent", "draft"}]
  /\ echo \in {"none", "holding", "cancelling"}
  /\ faults \in 0 .. MaxFaults
  /\ staff \in 0 .. MaxStaff
  /\ turns \in [Ids -> Nat]
  /\ answered \subseteq Ids
  /\ lapsed \in BOOLEAN
  /\ overtaken \subseteq Ids

Init ==
  /\ msg = [i \in Ids |-> "none"]
  /\ age = [i \in Ids |-> 0]
  /\ toWake = {}
  /\ pointer = 0 /\ status = "ai_active" /\ ttl = FALSE
  /\ created = FALSE /\ retry = FALSE /\ active = NoRun
  /\ pc = [r \in Runs |-> "idle"]
  /\ seen = [r \in Runs |-> NothingSeen]
  /\ batch = [r \in Runs |-> {}]
  /\ plan = [r \in Runs |-> "silent"]
  /\ out = [r \in Runs |-> "none"]
  /\ echo = "none" /\ faults = 0 /\ staff = 0
  /\ turns = [i \in Ids |-> 0]
  /\ answered = {} /\ lapsed = FALSE /\ overtaken = {}

Fault == faults < MaxFaults /\ faults' = faults + 1

-----------------------------------------------------------------------------
(* The webhook, and the clock. *)

(* Meta delivers message i; its INSERT has a created_at, and is not visible. *)
Arrive(i) ==
  /\ msg[i] = "none"
  /\ i > 1 => msg[i - 1] # "none"
  /\ msg' = [msg EXCEPT ![i] = "writing"]
  /\ UNCHANGED <<age, toWake, thread, queue, run, human, faults, history>>

(* The row becomes visible, which no younger row waits for; a redelivery    *)
(* would conflict on wa_message_id.                                         *)
Store(i) ==
  /\ msg[i] = "writing"
  /\ msg' = [msg EXCEPT ![i] = "stored"]
  /\ toWake' = toWake \cup {i}
  /\ overtaken' = IF \E j \in Stored : i < j THEN overtaken \cup {i} ELSE overtaken
  /\ UNCHANGED <<age, thread, queue, run, human, faults, turns, answered, lapsed>>

(* boss.send: stately and the singleton key drop a second created job.      *)
Enqueue == created' = TRUE

Wake(i) ==
  /\ i \in toWake
  /\ toWake' = toWake \ {i}
  /\ Enqueue
  /\ UNCHANGED <<msg, age, thread, retry, active, run, human, faults, history>>

(* The enqueue throws: logged, and left to the sweeper.                     *)
WakeFails(i) ==
  /\ Fault
  /\ i \in toWake
  /\ toWake' = toWake \ {i}
  /\ lapsed' = TRUE
  /\ UNCHANGED <<msg, age, thread, queue, run, human, turns, answered, overtaken>>

(* 15 s pass, since the created_at of a row that is not visible yet too.    *)
(* Only ages beyond the pointer are ever looked at.                         *)
Young == {i \in Ids : msg[i] \in {"writing", "stored"} /\ pointer < i /\ age[i] < SweepAfter}

Tick ==
  /\ Young # {}
  /\ age' = [i \in Ids |-> IF i \in Young THEN age[i] + 1 ELSE age[i]]
  /\ UNCHANGED <<msg, toWake, thread, queue, run, human, faults, history>>

-----------------------------------------------------------------------------
(* The queue.  A job that fails waits in state retry, unless its retries   *)
(* are spent or another one waits there; an active job whose run outlasts  *)
(* expireInSeconds fails too, and the run goes on without it.              *)

Fetch(r) ==
  /\ pc[r] = "idle"
  /\ active = NoRun
  /\ \/ created /\ created' = FALSE /\ UNCHANGED retry
     \/ retry /\ retry' = FALSE /\ UNCHANGED created
  /\ active' = r
  /\ pc' = [pc EXCEPT ![r] = "context"]
  /\ UNCHANGED <<messages, thread, seen, batch, plan, out, human, faults, history>>

JobFails ==
  /\ active' = NoRun
  /\ \/ ~retry /\ retry' = TRUE /\ UNCHANGED lapsed
     \/ UNCHANGED retry /\ lapsed' = TRUE

Expire(r) ==
  /\ Fault
  /\ active = r
  /\ JobFails
  /\ UNCHANGED <<messages, thread, created, run, human, turns, answered, overtaken>>

OrphanExpires ==
  /\ active = Orphan
  /\ JobFails
  /\ UNCHANGED <<messages, thread, created, run, human, faults, turns, answered, overtaken>>

-----------------------------------------------------------------------------
(* A run of processConversation. *)

Goto(r, label) == pc' = [pc EXCEPT ![r] = label]

(* What the run read is of no more use to it. *)
Forget(r) ==
  /\ seen' = [seen EXCEPT ![r] = NothingSeen]
  /\ batch' = [batch EXCEPT ![r] = {}]
  /\ plan' = [plan EXCEPT ![r] = "silent"]

(* The run ends and its locals go; if the job is still its own, so does it. *)
RunEnds(r) ==
  /\ Goto(r, "idle")
  /\ Forget(r)
  /\ out' = [out EXCEPT ![r] = "none"]

Return(r) ==
  /\ RunEnds(r)
  /\ active' = IF active = r THEN NoRun ELSE active

(* getConversationTurnContext: conversation row and DB clock in one read.   *)
ReadContext(r) ==
  /\ pc[r] = "context"
  /\ seen' = [seen EXCEPT ![r] =
       [pointer |-> pointer, status |-> status, held |-> Held, ages |-> age, late |-> FALSE]]
  /\ Goto(r, "batch")
  /\ UNCHANGED <<messages, thread, queue, batch, plan, out, human, faults, history>>

Unprocessed(r) == {i \in Stored : i > seen[r].pointer}

(* Nothing is pending: a duplicate or sweeper wake.                         *)
ReadNothing(r) ==
  /\ pc[r] = "batch"
  /\ Unprocessed(r) = {}
  /\ Return(r)
  /\ UNCHANGED <<messages, thread, created, retry, human, faults, history>>

(* decideDebounce.  Ages are those of the clock the context read.           *)
Ripe(r) ==
  \/ seen[r].ages[MaxOf(Unprocessed(r))] >= Quiet
  \/ seen[r].ages[MinOf(Unprocessed(r))] >= MaxWait

(* Mutant: a run that waits for quiet does not re-enqueue itself.           *)
RequeueForgets(r) ==
  /\ pc[r] = "batch"
  /\ Unprocessed(r) # {}
  /\ ~Ripe(r)
  /\ Return(r)
  /\ UNCHANGED <<messages, thread, created, retry, human, faults, history>>

Requeue(r) ==
  /\ pc[r] = "batch"
  /\ Unprocessed(r) # {}
  /\ ~Ripe(r)
  /\ Enqueue
  /\ Return(r)
  /\ UNCHANGED <<messages, thread, retry, human, faults, history>>

(* decidePolicy and settlePlanFor: whether the guest is over a rate limit,  *)
(* asks for a person or sends bare media is the guest's choice.  Plan       *)
(* "model" runs runClaudeTurn, for as long as the run stays at "claim".     *)
PlansFor(c) ==
  (IF c.status = "ai_active" THEN {"coolOff"} ELSE {"silent"})
    \cup (IF c.held THEN {"silent"} ELSE {"line", "model"})

ReadBatch(r) ==
  /\ pc[r] = "batch"
  /\ Unprocessed(r) # {}
  /\ Ripe(r)
  /\ \E p \in PlansFor(seen[r]) : plan' = [plan EXCEPT ![r] = p]
  /\ batch' = [batch EXCEPT ![r] = Unprocessed(r)]
  /\ seen' = [seen EXCEPT ![r] = [seen[r] EXCEPT
       !.ages = NoAges, !.late = (seen[r].ages[MaxOf(Unprocessed(r))] = SweepAfter)]]
  /\ Goto(r, "claim")
  /\ UNCHANGED <<messages, thread, queue, out, human, faults, history>>

(* Mutant: the transition does not look at the status it finds.             *)
StatusAfterUnguarded(r) ==
  CASE plan[r] = "coolOff" -> "cooloff"
    [] plan[r] \in {"line", "model"} /\ seen[r].status = "cooloff" -> "ai_active"
    [] OTHER -> status

(* The guarded CASE that rides the claim's UPDATE.                          *)
StatusAfter(r) ==
  CASE plan[r] = "coolOff" /\ status = "ai_active" -> "cooloff"
    [] plan[r] \in {"line", "model"} /\ seen[r].status = "cooloff" /\ status = "cooloff" -> "ai_active"
    [] OTHER -> status

(* announced: the claim reports the edge that plan "coolOff" asks for.      *)
Announced(r) == plan[r] = "coolOff" => StatusAfter(r) = "cooloff"

(* The 24h window, from the newest message of the batch: it can have shut   *)
(* only on a batch the sweeper recovers after an outage.                    *)
WindowMayBe(r, open) == open \/ seen[r].late

(* What the claim's transaction commits besides the claim.                  *)
Commits(r, open) ==
  IF plan[r] = "silent" \/ ~Announced(r) \/ ~open THEN {"none"}
  ELSE IF plan[r] = "model" /\ DraftMode THEN {"intent", "draft"} ELSE {"intent"}

(* Mutants of the two halves of claimConversationTurn below.                *)
NoPointerGuard(r) == TRUE
PastTheBatch(r) == MaxOf(batch[r]) + 1
NewestStored(r) == MaxOf(Stored)
OldestOfBatch(r) == MinOf(batch[r])

(* Its guard, expectedPointer, and what it sets, newPointer.                *)
PointerUnmoved(r) == pointer = seen[r].pointer
NewPointer(r) == MaxOf(batch[r])

(* What lies behind the new pointer has no age that anybody asks for.      *)
WinClaim(r) ==
  /\ pc[r] = "claim"
  /\ PointerUnmoved(r)
  /\ pointer' = NewPointer(r)
  /\ status' = StatusAfter(r)
  /\ turns' = [i \in Ids |-> IF i \in batch[r] THEN turns[i] + 1 ELSE turns[i]]
  /\ \E open \in BOOLEAN :
       /\ WindowMayBe(r, open)
       /\ \E o \in Commits(r, open) :
            /\ out' = [out EXCEPT ![r] = o]
            /\ answered' = IF o = "none" THEN answered ELSE answered \cup batch[r]
            /\ Goto(r, IF o = "none" THEN "recheck" ELSE "settle")
  /\ Forget(r)
  /\ age' = [i \in Ids |-> IF i <= pointer' THEN 0 ELSE age[i]]
  /\ UNCHANGED <<msg, toWake, ttl, queue, human, faults, lapsed, overtaken>>

(* A concurrent run claimed past this one's read: nothing is written.       *)
LoseClaim(r) ==
  /\ pc[r] = "claim"
  /\ ~PointerUnmoved(r)
  /\ Forget(r)
  /\ Goto(r, "recheck")
  /\ UNCHANGED <<messages, thread, queue, out, human, faults, history>>

(* Escalations first, then dispatchText or the draft card, then upkeep.     *)
Settle(r) ==
  /\ pc[r] = "settle"
  /\ out' = [out EXCEPT ![r] = "none"]
  /\ Goto(r, "recheck")
  /\ UNCHANGED <<messages, thread, queue, seen, batch, plan, human, faults, history>>

(* The end-of-run re-check, on the winning and on the losing path.          *)
Recheck(r) ==
  /\ pc[r] = "recheck"
  /\ IF Pending # {} THEN Enqueue ELSE UNCHANGED created
  /\ Return(r)
  /\ UNCHANGED <<messages, thread, retry, human, faults, history>>

(***************************************************************************)
(* Any await of a run may throw: a database error, the model, and after    *)
(* the claim the reads and inserts that escalateToOps, the media task and  *)
(* recordReferenceAttempt make before the reply is dispatched.             *)
(***************************************************************************)
Throw(r) ==
  /\ Fault
  /\ pc[r] # "idle"
  /\ RunEnds(r)
  /\ IF active = r THEN JobFails ELSE UNCHANGED <<active, retry, lapsed>>
  /\ UNCHANGED <<messages, thread, created, human, turns, answered, overtaken>>

RunStep(r) ==
  \/ ReadContext(r) \/ ReadNothing(r) \/ Requeue(r) \/ ReadBatch(r)
  \/ WinClaim(r) \/ LoseClaim(r) \/ Settle(r) \/ Recheck(r)

-----------------------------------------------------------------------------
(* The sweeper, the process, and the people. *)

(* Mutant: the sweep passes by a conversation the AI does not serve.        *)
SweepActiveOnly ==
  /\ status = "ai_active"
  /\ \E i \in Pending : age[i] = SweepAfter
  /\ Enqueue
  /\ UNCHANGED <<messages, thread, retry, active, run, human, faults, history>>

(* findStaleConversations, every two minutes.                               *)
Sweep ==
  /\ \E i \in Pending : age[i] = SweepAfter
  /\ Enqueue
  /\ UNCHANGED <<messages, thread, retry, active, run, human, faults, history>>

(* The process dies: its runs, the wakes it owed and the rows it had not    *)
(* written yet are gone; Meta was answered 200 and delivers nothing again.  *)
Crash ==
  /\ Fault
  /\ msg' = [i \in Ids |-> IF msg[i] = "writing" THEN "lost" ELSE msg[i]]
  /\ toWake' = {}
  /\ lapsed' = (lapsed \/ toWake # {})
  /\ active' = IF active = NoRun THEN NoRun ELSE Orphan
  /\ pc' = [r \in Runs |-> "idle"]
  /\ seen' = [r \in Runs |-> NothingSeen]
  /\ batch' = [r \in Runs |-> {}]
  /\ plan' = [r \in Runs |-> "silent"]
  /\ out' = [r \in Runs |-> "none"]
  /\ echo' = "none"
  /\ UNCHANGED <<age, thread, created, retry, staff, turns, answered, overtaken>>

StaffActs == staff < MaxStaff /\ staff' = staff + 1

(* applyHumanTakeover: a colleague answered in the staff app; status is     *)
(* left alone.  Only a thread with a guest message can be taken over.       *)
Echo ==
  /\ StaffActs
  /\ echo = "none"
  /\ Stored # {}
  /\ ttl' = TRUE
  /\ echo' = "holding"
  /\ UNCHANGED <<messages, pointer, status, queue, run, faults, history>>

(* cancelPending selects the created job ...                                *)
FindPending ==
  /\ echo = "holding"
  /\ echo' = IF created THEN "cancelling" ELSE "none"
  /\ UNCHANGED <<messages, thread, queue, run, staff, faults, history>>

(* ... and cancels it, wherever it has got to by then, or fails to.         *)
CancelPending ==
  /\ echo = "cancelling"
  /\ echo' = "none"
  /\ \/ created /\ created' = FALSE /\ lapsed' = TRUE /\ UNCHANGED active
     \/ active \in Runs /\ active' = NoRun /\ lapsed' = TRUE /\ UNCHANGED created
     \/ UNCHANGED <<created, active, lapsed>>
  /\ UNCHANGED <<messages, thread, retry, run, staff, faults, turns, answered, overtaken>>

(* The staff commands AI OFF and AI ON.                                     *)
AiOff ==
  /\ StaffActs
  /\ status' = "human_active" /\ ttl' = FALSE
  /\ UNCHANGED <<messages, pointer, queue, run, echo, faults, history>>

AiOn ==
  /\ StaffActs
  /\ status' = "ai_active" /\ ttl' = FALSE
  /\ UNCHANGED <<messages, pointer, queue, run, echo, faults, history>>

(* Two hours after the last echo.                                           *)
TtlExpires ==
  /\ ttl
  /\ ttl' = FALSE
  /\ UNCHANGED <<messages, pointer, status, queue, run, human, faults, history>>

Next ==
  \/ \E i \in Ids : Arrive(i) \/ Store(i) \/ Wake(i) \/ WakeFails(i)
  \/ \E r \in Runs : Fetch(r) \/ RunStep(r) \/ Throw(r) \/ Expire(r)
  \/ Tick \/ OrphanExpires \/ Sweep \/ Crash
  \/ Echo \/ FindPending \/ CancelPending \/ AiOff \/ AiOn \/ TtlExpires

Spec == Init /\ [][Next]_vars

(***************************************************************************)
(* The process and pg-boss do what they are bound to do: the clock runs,   *)
(* inserts end, waiting jobs are fetched, runs proceed (every await has a  *)
(* deadline), a dead process's job expires, the sweep's cron fires.  The   *)
(* guest, staff and faults owe nothing.                                    *)
(***************************************************************************)
FairSpec ==
  /\ Spec
  /\ WF_vars(Tick) /\ WF_vars(OrphanExpires) /\ WF_vars(Sweep)
  /\ \A i \in Ids : WF_vars(Store(i)) /\ WF_vars(Wake(i))
  /\ WF_vars(\E r \in Runs : Fetch(r))
  /\ \A r \in Runs : WF_vars(RunStep(r))

-----------------------------------------------------------------------------
(* Properties. *)

(* The optimistic claim: whatever overlaps - an expired run and its retry,  *)
(* a sweep, a re-check - no message is taken up by two winning turns.       *)
TakenUpOnce == \A i \in Ids : turns[i] <= 1

(* The pointer, beyond which both the worker and the sweeper look, passes a *)
(* stored message that no turn took up only if a younger one was visible    *)
(* before it.                                                               *)
NothingSkipped == \A i \in Stored : i <= pointer => turns[i] >= 1 \/ i \in overtaken

(* Every stored message is taken up in the end, whatever failed meanwhile,  *)
(* unless a younger one was visible before it.                              *)
EveryMessageIsTakenUp ==
  \A i \in Ids : msg[i] = "stored" ~> turns[i] >= 1 \/ i \in overtaken

(* status human_active is a hold until AI ON: no claim, cool-off or restore *)
(* of a run that read the row earlier may drop it.                          *)
HoldEndsOnlyByStaff ==
  [][status = "human_active" => status' = "human_active" \/ AiOn]_vars

(* As long as no wake was lost, a pending message has one on its way: the   *)
(* webhook's own, a waiting job, or a holder that has yet to read it or to  *)
(* re-check.  The sweeper is a net, not the way messages are served.        *)
PendingIsCovered ==
  lapsed \/ \A i \in Pending : i \in toWake \/ created \/ retry \/ active # NoRun

(* All of it - queue, races, retries, crashes - implements the turn taking  *)
(* a guest is promised.                                                     *)
TT == INSTANCE TurnTaking
        WITH pending <- Pending, taken <- {i \in Ids : turns[i] >= 1}, late <- overtaken
ImplementsTurnTaking == TT!TTSpec

=============================================================================
