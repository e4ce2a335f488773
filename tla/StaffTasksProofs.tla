-------------------------- MODULE StaffTasksProofs --------------------------
(***************************************************************************)
(* Type correctness and the safety properties of StaffTasks, for every     *)
(* number of tasks, ticks, batches and faults.  None of them is inductive  *)
(* by itself: what a late verdict or a stale tick may do to a row rests on *)
(* who else can have the row in hand by then.  Inv says so.                *)
(***************************************************************************)
EXTENDS StaffTasks, FiniteSetTheorems, TLAPS

(* The first card of target is on its way. *)
Raising(t) == pc = "card" /\ mode = "raise" /\ target = t

(* A tick has task t in hand. *)
Nudged(t) == \E k \in Ticks : nudging[k] = t

(* Where the turn stands, and what that says of the task it has in hand:   *)
(* while a first card is out, neither ladder nor digest has got to it.     *)
TurnInv ==
  /\ pc \in {"append", "card", "media"} => target \in Tasks
  /\ pc \in {"think", "append"} => claimed < NBatches
  /\ pc = "card" /\ Ask[target] # "media" => claimed < NBatches
  /\ pc = "append" => calls < MaxCalls /\ Ask[target] = "service"
  /\ pc = "media" => Ask[target] = "media" /\ status[target] = "none" /\ Batch[target] <= claimed
  /\ pc = "card" => status[target] \notin {"none", "notify_failed"}
  /\ pc = "card" /\ mode = "raise" =>
       /\ kind[target] \in {"service", "media"}
       /\ due[target] = 0
       /\ target \notin reached
       /\ status[target] # "nudged"
       /\ ~Nudged(target)

(* A row before its insert; its kind; the media task that is yet to come;  *)
(* and that what is in a human's hands has a live past - unless its first  *)
(* card was called failed.                                                 *)
RowInv(t) ==
  /\ status[t] = "none" => due[t] = 0 /\ rung[t] = 0
  /\ t \in reached \cup woken => status[t] # "none"
  /\ t \in (reached \ doubted) \cup woken => status[t] # "notify_failed"
  /\ t \in woken => kind[t] = "escalation"
  /\ kind[t] = Ask[t] \/ (Ask[t] = "escalation" /\ kind[t] = "night_queue")
  /\ Ask[t] = "media" /\ Batch[t] > claimed => status[t] = "none"

(* A live service had its card, unless its first run died or its verdict   *)
(* was lost, or that card is out just now.                                 *)
ServiceInv(t) ==
  Ask[t] = "service" /\ IsLive(t) => t \in reached \cup stranded \cup unmarked \/ Raising(t)

(* What a tick has in hand is a task with a ladder, at a rung of it.       *)
TickInv(k) ==
  nudging[k] # Nobody =>
    /\ kind[nudging[k]] # "night_queue"
    /\ status[nudging[k]] \notin {"none", "notify_failed"}
    /\ readRung[k] < Rungs(kind[nudging[k]])
    /\ step[k] # "read" => readRung[k] \in landed[nudging[k]]

FiredBy(t) == {k \in Ticks : nudging[k] = t /\ step[k] = "fired"}

LadderInv(t) ==
  /\ rung[t] <= Rungs(kind[t])
  /\ 0 .. rung[t] - 1 \subseteq landed[t]
  /\ nudgeRows[t] + Cardinality(FiredBy(t)) <= rung[t]
  /\ status[t] = "nudged" => rung[t] = Rungs(kind[t])

Rows == \A t \in Tasks : RowInv(t) /\ ServiceInv(t) /\ LadderInv(t)
Ticking == \A k \in Ticks : TickInv(k)

Inv == TypeOK /\ TurnInv /\ Rows /\ Ticking /\ OkIsTrue

(* A ladder has at most two rungs. *)
LEMMA RungsType == \A x : Rungs(x) \in 0 .. 2
BY DEF Rungs

(* The initial states are well typed. *)
LEMMA InitTypeOK == Init => TypeOK
<1> SUFFICES ASSUME Init PROVE TypeOK
  OBVIOUS
<1>1. kind \in [Tasks -> Asks \cup {"night_queue"}]
  BY TasksAssumption DEF Init
<1>2. agenda \subseteq Tasks
  BY TasksAssumption DEF Init
<1>3. /\ landed \in [Tasks -> SUBSET (0 .. 1)]
      /\ nudgeRows \in [Tasks -> Nat]
      /\ nudging \in [Ticks -> Tasks \cup {Nobody}]
      /\ readRung \in [Ticks -> 0 .. 1]
      /\ step \in [Ticks -> {"read", "landed", "fired"}]
  BY DEF Init
<1>4. calls \in 0 .. MaxCalls /\ claimed \in 0 .. NBatches /\ faults \in 0 .. MaxFaults
  BY TasksAssumption, BoundsAssumption DEF Init
<1>5. night \in BOOLEAN /\ turnNight \in BOOLEAN /\ raised \in BOOLEAN
  BY Zenon DEF Init
<1> QED
  BY <1>1, <1>2, <1>3, <1>4, <1>5 DEF Init, TypeOK, Statuses

(* The end of a turn leaves its locals well typed. *)
LEMMA TurnOverType ==
  ASSUME TurnOver
  PROVE  turnNight' \in BOOLEAN /\ raised' \in BOOLEAN /\ calls' \in 0 .. MaxCalls /\ ok' \subseteq Tasks
<1>1. turnNight' \in BOOLEAN /\ raised' \in BOOLEAN
  BY Zenon DEF TurnOver
<1> QED
  BY <1>1, BoundsAssumption DEF TurnOver

(* A turn's step keeps the types. *)
LEMMA TurnStepType == ASSUME TypeOK, TurnInv, TurnStep PROVE TypeOK'
<1> USE TasksAssumption, BoundsAssumption
    DEF TypeOK, TurnInv, Statuses, row, clock, turn, nudger, history, Spends, SaysOk, SendCard, InsertRow
<1>1. ASSUME NEW t \in Tasks, ReplayService(t) PROVE TypeOK'
  BY <1>1 DEF ReplayService
<1>2. ASSUME NEW t \in Tasks, RaiseService(t) PROVE TypeOK'
  BY <1>2 DEF RaiseService, Asks
<1>3. ASSUME NEW t \in Tasks, EscalateByDay(t) PROVE TypeOK'
  BY <1>3 DEF EscalateByDay, Asks
<1>4. ASSUME NEW t \in Tasks, EscalateByNight(t) PROVE TypeOK'
  BY <1>4 DEF EscalateByNight
<1>5. ASSUME NEW t \in Tasks, ReplayEscalation(t) PROVE TypeOK'
  BY <1>5 DEF ReplayEscalation
<1>6. ASSUME NEW t \in Tasks, NEW u \in Tasks, ChooseAppend(t, u) PROVE TypeOK'
  BY <1>6 DEF ChooseAppend
<1>7. CASE Append
  BY <1>7 DEF Append
<1>8. CASE RaiseMedia
  BY <1>8 DEF RaiseMedia, Asks
<1>9. CASE CardLands
  BY <1>9 DEF CardLands, CardDone
<1>10. CASE CardFails
  <2>1. reached' \subseteq Tasks /\ doubted' \subseteq Tasks
    BY <1>10 DEF CardFails, MayHaveReached
  <2> QED
    BY <1>10, <2>1 DEF CardFails, CardDone, MarkNotifyFailed
<1> QED
  BY <1>1, <1>2, <1>3, <1>4, <1>5, <1>6, <1>7, <1>8, <1>9, <1>10 DEF TurnStep

(* A tick's step keeps the types. *)
LEMMA TickType ==
  ASSUME TypeOK, NEW k \in Ticks,
         TickStep(k) \/ NudgeBreaksOff(k) \/ \E t \in Tasks : TickReads(k, t)
  PROVE  TypeOK'
<1> USE TasksAssumption, BoundsAssumption, RungsType
    DEF TypeOK, Statuses, row, clock, turn, nudger, history, LetGo, Fault
<1>1. ASSUME NEW t \in Tasks, TickReads(k, t) PROVE TypeOK'
  <2>1. rung[t] \in 0 .. 1
    BY <1>1 DEF TickReads, Overdue
  <2> QED
    BY <1>1, <2>1 DEF TickReads
<1>2. CASE NudgeLands(k)
  <2>1. landed' \in [Tasks -> SUBSET (0 .. 1)]
    BY <1>2 DEF NudgeLands
  <2> QED
    BY <1>2, <2>1 DEF NudgeLands
<1>3. CASE NudgeFails(k)
  BY <1>3 DEF NudgeFails, MayHaveReached
<1>4. CASE MarkRungFired(k)
  <2>1. readRung[k] + 1 \in 0 .. 2
    OBVIOUS
  <2>2. CASE RungIsMine(k, nudging[k])
    BY <1>4, <2>1, <2>2 DEF MarkRungFired
  <2>3. CASE ~RungIsMine(k, nudging[k])
    BY <1>4, <2>3 DEF MarkRungFired
  <2> QED
    BY <2>2, <2>3
<1>5. CASE WriteNudgeEvidence(k)
  <2>1. nudgeRows' \in [Tasks -> Nat]
    BY <1>5 DEF WriteNudgeEvidence
  <2> QED
    BY <1>5, <2>1 DEF WriteNudgeEvidence
<1>6. CASE NudgeBreaksOff(k)
  BY <1>6 DEF NudgeBreaksOff, MayHaveReached
<1> QED
  BY <1>1, <1>2, <1>3, <1>4, <1>5, <1>6 DEF TickStep

(* Every step keeps the types. *)
LEMMA NextTypeOK == TypeOK /\ TurnInv /\ [Next]_vars => TypeOK'
<1> SUFFICES ASSUME TypeOK, TurnInv, [Next]_vars PROVE TypeOK'
  OBVIOUS
<1>1. CASE TurnStep
  BY <1>1, TurnStepType
<1>2. ASSUME NEW k \in Ticks, TickStep(k) \/ NudgeBreaksOff(k) \/ \E t \in Tasks : TickReads(k, t)
      PROVE  TypeOK'
  BY <1>2, TickType
<1> USE TasksAssumption, BoundsAssumption, RungsType
    DEF TypeOK, TurnInv, Statuses, row, clock, turn, nudger, history, Fault
<1>3. CASE TurnStart
  BY <1>3 DEF TurnStart
<1>4. CASE Claim
  BY <1>4, TurnOverType DEF Claim
<1>5. CASE TurnThrows
  <2>1. stranded' \subseteq Tasks
    BY <1>5 DEF TurnThrows, RunDies, StrandsTarget
  <2> QED
    BY <1>5, <2>1, TurnOverType DEF TurnThrows, RunDies
<1>6. CASE CardFailsUnmarked
  BY <1>6 DEF CardFailsUnmarked, CardDone, MayHaveReached
<1>7. CASE DigestStep
  BY <1>7 DEF DigestStep, DigestConverts, DigestCard, DigestEnds, NightQueue, Asks, MayHaveReached
<1>8. ASSUME NEW t \in Tasks, Done(t) PROVE TypeOK'
  BY <1>8 DEF Done
<1>9. ASSUME NEW t \in Tasks, Age(t) PROVE TypeOK'
  <2>1. due[t] + 1 \in 0 .. 2
    BY <1>9 DEF Age
  <2> QED
    BY <1>9, <2>1 DEF Age
<1>10. CASE CancelLiveEscalations
  BY <1>10 DEF CancelLiveEscalations
<1>11. CASE Daybreak \/ Nightfall
  <2>1. CASE Daybreak
    <3>1. due' \in [Tasks -> 0 .. 2]
      BY <2>1 DEF Daybreak
    <3> QED
      BY <2>1, <3>1 DEF Daybreak
  <2>2. CASE Nightfall
    BY <2>2 DEF Nightfall
  <2> QED
    BY <1>11, <2>1, <2>2
<1>12. CASE Crash
  <2>1. stranded' \subseteq Tasks /\ reached' \subseteq Tasks
    BY <1>12 DEF Crash, RunDies, StrandsTarget, MayHaveReached, OnTheirWay
  <2>2. /\ nudging' \in [Ticks -> Tasks \cup {Nobody}]
        /\ readRung' \in [Ticks -> 0 .. 1]
        /\ step' \in [Ticks -> {"read", "landed", "fired"}]
    BY <1>12 DEF Crash
  <2> QED
    BY <1>12, <2>1, <2>2, TurnOverType DEF Crash, RunDies
<1>13. CASE UNCHANGED vars
  BY <1>13 DEF vars
<1> QED
  BY <1>1, <1>2, <1>3, <1>4, <1>5, <1>6, <1>7, <1>8, <1>9, <1>10, <1>11, <1>12, <1>13 DEF Next

-----------------------------------------------------------------------------
(* The initial states satisfy the invariant. *)
LEMMA InitInv == Init => Inv
<1> SUFFICES ASSUME Init PROVE Inv
  OBVIOUS
<1>1. TurnInv /\ OkIsTrue
  BY DEF Init, TurnInv, OkIsTrue
<1>2. ASSUME NEW t \in Tasks PROVE RowInv(t) /\ ServiceInv(t)
  BY DEF Init, RowInv, ServiceInv, IsLive, Live
<1>3. ASSUME NEW t \in Tasks PROVE LadderInv(t)
  <2>1. FiredBy(t) = {}
    BY TasksAssumption DEF Init, FiredBy
  <2>2. Cardinality(FiredBy(t)) = 0
    BY <2>1, FS_EmptySet
  <2> QED
    BY <2>2, RungsType DEF Init, LadderInv
<1>4. ASSUME NEW k \in Ticks PROVE TickInv(k)
  BY DEF Init, TickInv
<1> QED
  BY <1>1, <1>2, <1>3, <1>4, InitTypeOK DEF Inv, Rows, Ticking

(* Where nudger and ladder stand still, a task may be inserted, or closed. *)
LEMMA LadderKept ==
  ASSUME TypeOK, NEW t \in Tasks, LadderInv(t),
         UNCHANGED <<rung, nudger, landed, nudgeRows>>,
         kind'[t] = kind[t] \/ rung[t] = 0,
         status'[t] = "nudged" => status[t] = "nudged" /\ kind'[t] = kind[t]
  PROVE  LadderInv(t)'
<1>1. FiredBy(t)' = FiredBy(t)
  BY DEF FiredBy, nudger
<1>2. rung[t] <= Rungs(kind'[t])
  BY RungsType DEF LadderInv, TypeOK
<1> QED
  BY <1>1, <1>2 DEF LadderInv

(***************************************************************************)
(* Every step keeps it.  First the turn's: ladder and digest keep what     *)
(* they have in hand, for only the first card of a task that neither of    *)
(* them has may write it off.                                              *)
(***************************************************************************)
LEMMA TurnStepInv == ASSUME Inv, TurnStep PROVE Inv'
<1>t. TypeOK /\ TypeOK'
  BY TurnStepType DEF Inv
<1>a. TurnInv /\ OkIsTrue
  BY DEF Inv
<1>b. \A t \in Tasks : RowInv(t) /\ ServiceInv(t) /\ LadderInv(t)
  BY DEF Inv, Rows
<1>c. \A k \in Ticks : TickInv(k)
  BY DEF Inv, Ticking
<1> USE TasksAssumption
    DEF row, clock, turn, nudger, history, Spends, SaysOk, SendCard, InsertRow, IsLive, Live
<1>1. ASSUME NEW u \in Tasks, ReplayService(u) PROVE Inv'
  <2>1. TurnInv'
    BY <1>t, <1>a, <1>b, <1>c, <1>1 DEF ReplayService, TurnInv, Nudged, RowInv, TickInv, TypeOK
  <2>2. OkIsTrue'
    BY <1>t, <1>a, <1>b, <1>1 DEF ReplayService, OkIsTrue, ServiceInv, Raising, KeyOf
  <2>3. ASSUME NEW t \in Tasks PROVE RowInv(t)' /\ ServiceInv(t)'
    BY <1>t, <1>a, <1>b, <1>1 DEF ReplayService, TurnInv, RowInv, ServiceInv, Raising, TypeOK
  <2>4. ASSUME NEW t \in Tasks PROVE LadderInv(t)'
    BY <1>t, <1>b, <1>1, LadderKept DEF ReplayService, RowInv, TypeOK
  <2>5. ASSUME NEW k \in Ticks PROVE TickInv(k)'
    BY <1>t, <1>c, <1>1 DEF ReplayService, TickInv, TypeOK
  <2> QED
    BY <1>t, <2>1, <2>2, <2>3, <2>4, <2>5 DEF Inv, Rows, Ticking
<1>2. ASSUME NEW u \in Tasks, RaiseService(u) PROVE Inv'
  <2>1. TurnInv'
    BY <1>t, <1>a, <1>b, <1>c, <1>2 DEF RaiseService, KeyOf, TurnInv, Nudged, RowInv, TickInv, TypeOK
  <2>2. OkIsTrue'
    BY <1>a, <1>2 DEF RaiseService, KeyOf, OkIsTrue
  <2>3. ASSUME NEW t \in Tasks PROVE RowInv(t)' /\ ServiceInv(t)'
    BY <1>t, <1>a, <1>b, <1>2 DEF RaiseService, KeyOf, TurnInv, RowInv, ServiceInv, Raising, TypeOK
  <2>4. ASSUME NEW t \in Tasks PROVE LadderInv(t)'
    BY <1>t, <1>b, <1>2, LadderKept DEF RaiseService, KeyOf, RowInv, TypeOK
  <2>5. ASSUME NEW k \in Ticks PROVE TickInv(k)'
    BY <1>t, <1>c, <1>2 DEF RaiseService, KeyOf, TickInv, TypeOK
  <2> QED
    BY <1>t, <2>1, <2>2, <2>3, <2>4, <2>5 DEF Inv, Rows, Ticking
<1>3. ASSUME NEW u \in Tasks, EscalateByDay(u) PROVE Inv'
  <2>1. TurnInv'
    BY <1>t, <1>a, <1>b, <1>c, <1>3 DEF EscalateByDay, KeyOf, TurnInv, Nudged, RowInv, TickInv, TypeOK
  <2>2. OkIsTrue'
    BY <1>a, <1>3 DEF EscalateByDay, KeyOf, OkIsTrue
  <2>3. ASSUME NEW t \in Tasks PROVE RowInv(t)' /\ ServiceInv(t)'
    BY <1>t, <1>a, <1>b, <1>3 DEF EscalateByDay, KeyOf, TurnInv, RowInv, ServiceInv, Raising, TypeOK
  <2>4. ASSUME NEW t \in Tasks PROVE LadderInv(t)'
    BY <1>t, <1>b, <1>3, LadderKept DEF EscalateByDay, KeyOf, RowInv, TypeOK
  <2>5. ASSUME NEW k \in Ticks PROVE TickInv(k)'
    BY <1>t, <1>c, <1>3 DEF EscalateByDay, KeyOf, TickInv, TypeOK
  <2> QED
    BY <1>t, <2>1, <2>2, <2>3, <2>4, <2>5 DEF Inv, Rows, Ticking
<1>4. ASSUME NEW u \in Tasks, EscalateByNight(u) PROVE Inv'
  <2>1. TurnInv'
    BY <1>t, <1>a, <1>b, <1>c, <1>4 DEF EscalateByNight, KeyOf, TurnInv, Nudged, RowInv, TickInv, TypeOK
  <2>2. OkIsTrue'
    BY <1>a, <1>4 DEF EscalateByNight, KeyOf, OkIsTrue
  <2>3. ASSUME NEW t \in Tasks PROVE RowInv(t)' /\ ServiceInv(t)'
    BY <1>t, <1>a, <1>b, <1>4 DEF EscalateByNight, KeyOf, TurnInv, RowInv, ServiceInv, Raising, TypeOK
  <2>4. ASSUME NEW t \in Tasks PROVE LadderInv(t)'
    BY <1>t, <1>b, <1>4, LadderKept DEF EscalateByNight, KeyOf, RowInv, TypeOK
  <2>5. ASSUME NEW k \in Ticks PROVE TickInv(k)'
    BY <1>t, <1>c, <1>4 DEF EscalateByNight, KeyOf, TickInv, TypeOK
  <2> QED
    BY <1>t, <2>1, <2>2, <2>3, <2>4, <2>5 DEF Inv, Rows, Ticking
<1>5. ASSUME NEW u \in Tasks, ReplayEscalation(u) PROVE Inv'
  <2>1. TurnInv'
    BY <1>t, <1>a, <1>b, <1>c, <1>5 DEF ReplayEscalation, KeyOf, TurnInv, Nudged, RowInv, TickInv, TypeOK
  <2>2. OkIsTrue'
    BY <1>a, <1>5 DEF ReplayEscalation, KeyOf, OkIsTrue
  <2>3. ASSUME NEW t \in Tasks PROVE RowInv(t)' /\ ServiceInv(t)'
    BY <1>t, <1>a, <1>b, <1>5 DEF ReplayEscalation, KeyOf, TurnInv, RowInv, ServiceInv, Raising, TypeOK
  <2>4. ASSUME NEW t \in Tasks PROVE LadderInv(t)'
    BY <1>t, <1>b, <1>5, LadderKept DEF ReplayEscalation, KeyOf, RowInv, TypeOK
  <2>5. ASSUME NEW k \in Ticks PROVE TickInv(k)'
    BY <1>t, <1>c, <1>5 DEF ReplayEscalation, KeyOf, TickInv, TypeOK
  <2> QED
    BY <1>t, <2>1, <2>2, <2>3, <2>4, <2>5 DEF Inv, Rows, Ticking
<1>6. ASSUME NEW w \in Tasks, NEW u \in Tasks, ChooseAppend(w, u) PROVE Inv'
  <2>1. TurnInv'
    BY <1>t, <1>a, <1>b, <1>c, <1>6 DEF ChooseAppend, AppendsTo, KeyOf, LiveService, LiveOfGuest, TurnInv, Nudged, RowInv, TickInv, TypeOK
  <2>2. OkIsTrue'
    BY <1>a, <1>6 DEF ChooseAppend, AppendsTo, KeyOf, LiveService, LiveOfGuest, OkIsTrue
  <2>3. ASSUME NEW t \in Tasks PROVE RowInv(t)' /\ ServiceInv(t)'
    BY <1>t, <1>a, <1>b, <1>6 DEF ChooseAppend, AppendsTo, KeyOf, LiveService, LiveOfGuest, TurnInv, RowInv, ServiceInv, Raising, TypeOK
  <2>4. ASSUME NEW t \in Tasks PROVE LadderInv(t)'
    BY <1>t, <1>b, <1>6, LadderKept DEF ChooseAppend, AppendsTo, KeyOf, LiveService, LiveOfGuest, RowInv, TypeOK
  <2>5. ASSUME NEW k \in Ticks PROVE TickInv(k)'
    BY <1>t, <1>c, <1>6 DEF ChooseAppend, AppendsTo, KeyOf, LiveService, LiveOfGuest, TickInv, TypeOK
  <2> QED
    BY <1>t, <2>1, <2>2, <2>3, <2>4, <2>5 DEF Inv, Rows, Ticking
<1>7. CASE Append
  <2>1. TurnInv'
    BY <1>t, <1>a, <1>b, <1>c, <1>7 DEF Append, TurnInv, Nudged, RowInv, TickInv, TypeOK
  <2>2. OkIsTrue'
    BY <1>a, <1>7 DEF Append, OkIsTrue
  <2>3. ASSUME NEW t \in Tasks PROVE RowInv(t)' /\ ServiceInv(t)'
    BY <1>t, <1>a, <1>b, <1>7 DEF Append, TurnInv, RowInv, ServiceInv, Raising, TypeOK
  <2>4. ASSUME NEW t \in Tasks PROVE LadderInv(t)'
    BY <1>t, <1>b, <1>7, LadderKept DEF Append, RowInv, TypeOK
  <2>5. ASSUME NEW k \in Ticks PROVE TickInv(k)'
    BY <1>t, <1>c, <1>7 DEF Append, TickInv, TypeOK
  <2> QED
    BY <1>t, <2>1, <2>2, <2>3, <2>4, <2>5 DEF Inv, Rows, Ticking
<1>8. CASE RaiseMedia
  <2>1. TurnInv'
    BY <1>t, <1>a, <1>b, <1>c, <1>8 DEF RaiseMedia, TurnInv, Nudged, RowInv, TickInv, TypeOK
  <2>2. OkIsTrue'
    BY <1>a, <1>8 DEF RaiseMedia, OkIsTrue
  <2>3. ASSUME NEW t \in Tasks PROVE RowInv(t)' /\ ServiceInv(t)'
    BY <1>t, <1>a, <1>b, <1>8 DEF RaiseMedia, TurnInv, RowInv, ServiceInv, Raising, TypeOK
  <2>4. ASSUME NEW t \in Tasks PROVE LadderInv(t)'
    BY <1>t, <1>a, <1>b, <1>8, LadderKept DEF RaiseMedia, TurnInv, RowInv, TypeOK
  <2>5. ASSUME NEW k \in Ticks PROVE TickInv(k)'
    BY <1>t, <1>a, <1>c, <1>8 DEF RaiseMedia, TurnInv, TickInv, TypeOK
  <2> QED
    BY <1>t, <2>1, <2>2, <2>3, <2>4, <2>5 DEF Inv, Rows, Ticking
<1>9. CASE CardLands
  <2>1. TurnInv'
    BY <1>t, <1>a, <1>b, <1>c, <1>9 DEF CardLands, CardDone, TurnInv, Nudged, RowInv, TickInv, TypeOK
  <2>2. OkIsTrue'
    BY <1>a, <1>9 DEF CardLands, CardDone, OkIsTrue
  <2>3. ASSUME NEW t \in Tasks PROVE RowInv(t)' /\ ServiceInv(t)'
    BY <1>t, <1>a, <1>b, <1>9 DEF CardLands, CardDone, TurnInv, RowInv, ServiceInv, Raising, TypeOK
  <2>4. ASSUME NEW t \in Tasks PROVE LadderInv(t)'
    BY <1>t, <1>b, <1>9, LadderKept DEF CardLands, CardDone, RowInv, TypeOK
  <2>5. ASSUME NEW k \in Ticks PROVE TickInv(k)'
    BY <1>t, <1>c, <1>9 DEF CardLands, CardDone, TickInv, TypeOK
  <2> QED
    BY <1>t, <2>1, <2>2, <2>3, <2>4, <2>5 DEF Inv, Rows, Ticking
<1>10. CASE CardFails
  <2>r. /\ reached \subseteq reached' /\ reached' \subseteq reached \cup {target}
        /\ doubted \subseteq doubted'
        /\ mode = "raise" => doubted' = doubted \cup (reached' \ reached)
        /\ mode # "raise" => status' = status
    BY <1>10 DEF CardFails, MayHaveReached
  <2>m. /\ UNCHANGED <<kind, rung, due, clock, turnNight, calls, raised, ok, claimed, agenda>>
        /\ UNCHANGED <<nudger, woken, faults, stranded, unmarked, landed, nudgeRows>>
        /\ CardDone /\ pc = "card" /\ target \in Tasks
        /\ \A t \in Tasks : \/ status'[t] = status[t]
                            \/ mode = "raise" /\ t = target /\ status[t] = "open"
                                 /\ status'[t] = "notify_failed"
        /\ mode = "raise" => status'[target] \notin {"open", "nudged"}
    BY <1>t, <1>a, <1>10 DEF CardFails, MarkNotifyFailed, TypeOK, TurnInv
  <2>1. TurnInv'
    BY <1>t, <1>a, <2>m DEF CardDone, TurnInv
  <2>2. OkIsTrue'
    BY <1>a, <2>r, <2>m DEF OkIsTrue
  <2>3. ASSUME NEW t \in Tasks PROVE RowInv(t)' /\ ServiceInv(t)'
    <3>1. RowInv(t)'
      BY <1>a, <1>b, <2>r, <2>m DEF TurnInv, RowInv
    <3>2. ServiceInv(t)'
      BY <1>a, <1>b, <2>r, <2>m DEF TurnInv, ServiceInv, Raising
    <3> QED
      BY <3>1, <3>2
  <2>4. ASSUME NEW t \in Tasks PROVE LadderInv(t)'
    BY <1>t, <1>b, <2>m, LadderKept
  <2>5. ASSUME NEW k \in Ticks PROVE TickInv(k)'
    BY <1>t, <1>a, <1>c, <2>m DEF TurnInv, Nudged, TickInv, TypeOK
  <2> QED
    BY <1>t, <2>1, <2>2, <2>3, <2>4, <2>5 DEF Inv, Rows, Ticking
<1> QED
  BY <1>1, <1>2, <1>3, <1>4, <1>5, <1>6, <1>7, <1>8, <1>9, <1>10 DEF TurnStep

(* Where no rung moves and no tick marks one, the ladder stays honest. *)
LEMMA LadderAtTick ==
  ASSUME TypeOK, NEW t \in Tasks, LadderInv(t), UNCHANGED <<rung, nudgeRows>>,
         kind'[t] = kind[t] \/ rung[t] = 0,
         status'[t] = "nudged" => status[t] = "nudged" /\ kind'[t] = kind[t],
         landed[t] \subseteq landed'[t],
         FiredBy(t)' \subseteq FiredBy(t)
  PROVE  LadderInv(t)'
<1>1. IsFiniteSet(FiredBy(t))
  BY FiniteAssumption, FS_Subset, FiredBy(t) \subseteq Ticks DEF FiredBy
<1>2. /\ Cardinality(FiredBy(t)') \in Nat /\ Cardinality(FiredBy(t)) \in Nat
      /\ Cardinality(FiredBy(t)') <= Cardinality(FiredBy(t))
  BY <1>1, FS_Subset, FS_CardinalityType
<1>3. nudgeRows[t] \in Nat /\ rung[t] \in Int /\ Rungs(kind'[t]) \in Nat
  BY RungsType DEF TypeOK
<1> QED
  BY <1>2, <1>3 DEF LadderInv

(* A tick's step.  It marks a rung only where its read still holds, and a  *)
(* task it has read is not one whose first card is out.                    *)
LEMMA TickStepInv ==
  ASSUME Inv, NEW k \in Ticks,
         TickStep(k) \/ NudgeBreaksOff(k) \/ \E t \in Tasks : TickReads(k, t)
  PROVE  Inv'
<1>t. TypeOK /\ TypeOK'
  BY TickType DEF Inv
<1>a. TurnInv /\ OkIsTrue
  BY DEF Inv
<1>b. \A t \in Tasks : RowInv(t) /\ ServiceInv(t) /\ LadderInv(t)
  BY DEF Inv, Rows
<1>c. \A j \in Ticks : TickInv(j)
  BY DEF Inv, Ticking
<1> USE TasksAssumption
    DEF row, clock, turn, nudger, history, IsLive, Live, LetGo
<1>1. ASSUME NEW u \in Tasks, TickReads(k, u) PROVE Inv'
  <2>1. TurnInv'
    BY <1>t, <1>a, <1>1 DEF TickReads, Overdue, TurnInv, Nudged, TypeOK
  <2>2. OkIsTrue'
    BY <1>a, <1>1 DEF TickReads, OkIsTrue
  <2>3. ASSUME NEW t \in Tasks PROVE RowInv(t)' /\ ServiceInv(t)'
    BY <1>b, <1>1 DEF TickReads, RowInv, ServiceInv, Raising
  <2>4. ASSUME NEW t \in Tasks PROVE LadderInv(t)'
    <3>1. FiredBy(t)' \subseteq FiredBy(t)
      BY <1>t, <1>1 DEF TickReads, FiredBy, TypeOK
    <3> QED
      BY <1>t, <1>b, <1>1, <3>1, LadderAtTick DEF TickReads
  <2>5. ASSUME NEW j \in Ticks PROVE TickInv(j)'
    BY <1>t, <1>c, <1>1 DEF TickReads, Overdue, Rungs, TickInv, TypeOK
  <2> QED
    BY <1>t, <2>1, <2>2, <2>3, <2>4, <2>5 DEF Inv, Rows, Ticking
<1>2. CASE NudgeLands(k)
  <2>0. nudging[k] \in Tasks /\ status[nudging[k]] \notin {"none", "notify_failed"}
    BY <1>t, <1>c, <1>2 DEF NudgeLands, TickInv, TypeOK
  <2>1. TurnInv'
    BY <1>t, <1>a, <1>2, <2>0 DEF NudgeLands, TurnInv, Nudged, TypeOK
  <2>2. OkIsTrue'
    BY <1>a, <1>2 DEF NudgeLands, OkIsTrue
  <2>3. ASSUME NEW t \in Tasks PROVE RowInv(t)' /\ ServiceInv(t)'
    BY <1>b, <1>2, <2>0 DEF NudgeLands, RowInv, ServiceInv, Raising
  <2>4. ASSUME NEW t \in Tasks PROVE LadderInv(t)'
    <3>1. FiredBy(t)' \subseteq FiredBy(t)
      BY <1>t, <1>2 DEF NudgeLands, FiredBy, TypeOK
    <3>2. landed[t] \subseteq landed'[t]
      BY <1>t, <1>2, <2>0 DEF NudgeLands, TypeOK
    <3> QED
      BY <1>t, <1>b, <1>2, <3>1, <3>2, LadderAtTick DEF NudgeLands
  <2>5. ASSUME NEW j \in Ticks PROVE TickInv(j)'
    <3>1. step'[j] # "read" => j = k \/ step[j] # "read"
      BY <1>t, <1>2 DEF NudgeLands, TypeOK
    <3>2. nudging[j] \in Tasks =>
            landed[nudging[j]] \subseteq landed'[nudging[j]] /\ (j = k => readRung[j] \in landed'[nudging[j]])
      BY <1>t, <1>2, <2>0 DEF NudgeLands, TypeOK
    <3>3. nudging[j] # Nobody => nudging[j] \in Tasks
      BY <1>t DEF TypeOK
    <3> QED
      BY <1>c, <1>2, <3>1, <3>2, <3>3 DEF NudgeLands, TickInv
  <2> QED
    BY <1>t, <2>1, <2>2, <2>3, <2>4, <2>5 DEF Inv, Rows, Ticking
<1>3. CASE /\ LetGo(k) /\ nudging[k] # Nobody
           /\ reached \subseteq reached' /\ reached' \subseteq reached \cup {nudging[k]}
           /\ UNCHANGED <<row, clock, turn, woken, doubted, stranded, unmarked, landed, nudgeRows>>
  <2>0. nudging[k] \in Tasks /\ status[nudging[k]] \notin {"none", "notify_failed"}
    BY <1>t, <1>c, <1>3 DEF TickInv, TypeOK
  <2>1. TurnInv'
    BY <1>t, <1>a, <1>3, <2>0 DEF TurnInv, Nudged, TypeOK
  <2>2. OkIsTrue'
    BY <1>a, <1>3 DEF OkIsTrue
  <2>3. ASSUME NEW t \in Tasks PROVE RowInv(t)' /\ ServiceInv(t)'
    BY <1>b, <1>3, <2>0 DEF RowInv, ServiceInv, Raising
  <2>4. ASSUME NEW t \in Tasks PROVE LadderInv(t)'
    <3>1. FiredBy(t)' \subseteq FiredBy(t)
      BY <1>t, <1>3 DEF FiredBy, TypeOK
    <3> QED
      BY <1>t, <1>b, <1>3, <3>1, LadderAtTick
  <2>5. ASSUME NEW j \in Ticks PROVE TickInv(j)'
    BY <1>t, <1>c, <1>3 DEF TickInv, TypeOK
  <2> QED
    BY <1>t, <2>1, <2>2, <2>3, <2>4, <2>5 DEF Inv, Rows, Ticking
<1>4. CASE MarkRungFired(k) /\ RungIsMine(k, nudging[k])
  <2>0. PICK u \in Tasks :
        /\ u = nudging[k] /\ step[k] = "landed" /\ step' = [step EXCEPT ![k] = "fired"]
        /\ status[u] = "open" /\ rung[u] = readRung[k]
        /\ rung' = [rung EXCEPT ![u] = rung[u] + 1]
        /\ status' = [status EXCEPT ![u] = IF rung[u] + 1 >= Rungs(kind[u]) THEN "nudged" ELSE "open"]
        /\ rung[u] < Rungs(kind[u]) /\ rung[u] \in landed[u]
        /\ UNCHANGED <<kind, due, clock, turn, nudging, readRung, woken, faults, history>>
    BY <1>t, <1>c, <1>4 DEF MarkRungFired, RungIsMine, TickInv, TypeOK
  <2>1. TurnInv'
    BY <1>t, <1>a, <2>0 DEF TurnInv, Nudged, TypeOK
  <2>2. OkIsTrue'
    BY <1>a, <2>0 DEF OkIsTrue
  <2>3. ASSUME NEW t \in Tasks PROVE RowInv(t)' /\ ServiceInv(t)'
    BY <1>t, <1>b, <2>0 DEF RowInv, ServiceInv, Raising, TypeOK
  <2>4. ASSUME NEW t \in Tasks, t # u PROVE LadderInv(t)'
    <3>1. FiredBy(t)' \subseteq FiredBy(t)
      BY <1>t, <2>0, <2>4 DEF FiredBy, TypeOK
    <3>2. rung'[t] = rung[t] /\ status'[t] = status[t]
      BY <1>t, <2>0, <2>4 DEF TypeOK
    <3>3. FiredBy(t) \subseteq Ticks
      BY DEF FiredBy
    <3>4. IsFiniteSet(FiredBy(t))
      BY <3>3, FiniteAssumption, FS_Subset
    <3>5. /\ Cardinality(FiredBy(t)') \in Nat /\ Cardinality(FiredBy(t)) \in Nat
          /\ Cardinality(FiredBy(t)') <= Cardinality(FiredBy(t))
      BY <3>1, <3>4, FS_Subset, FS_CardinalityType
    <3>6. nudgeRows[t] \in Nat /\ rung[t] \in Nat
      BY <1>t DEF TypeOK
    <3> QED
      BY <1>b, <2>0, <3>2, <3>5, <3>6 DEF LadderInv
  <2>5. LadderInv(u)'
    <3>1. FiredBy(u)' = FiredBy(u) \cup {k} /\ k \notin FiredBy(u)
      BY <1>t, <2>0 DEF FiredBy, TypeOK
    <3>2. FiredBy(u) \subseteq Ticks
      BY DEF FiredBy
    <3>3. IsFiniteSet(FiredBy(u))
      BY <3>2, FiniteAssumption, FS_Subset
    <3>4. Cardinality(FiredBy(u)') = Cardinality(FiredBy(u)) + 1 /\ Cardinality(FiredBy(u)) \in Nat
      BY <3>1, <3>3, FS_AddElement, FS_CardinalityType
    <3>5. nudgeRows[u] \in Nat /\ rung[u] \in Nat /\ Rungs(kind[u]) \in Nat
      BY <1>t, <2>0, RungsType DEF TypeOK
    <3>6. rung'[u] = rung[u] + 1 /\ (status'[u] = "nudged" => rung[u] + 1 >= Rungs(kind[u]))
      BY <1>t, <2>0 DEF TypeOK
    <3>7. /\ 0 .. rung[u] - 1 \subseteq landed[u]
          /\ nudgeRows[u] + Cardinality(FiredBy(u)) <= rung[u]
      BY <1>b, <2>0 DEF LadderInv
    <3>8. 0 .. rung'[u] - 1 \subseteq landed[u]
      BY <2>0, <3>5, <3>6, <3>7
    <3>9. nudgeRows[u] + Cardinality(FiredBy(u)') <= rung'[u]
      BY <3>4, <3>5, <3>6, <3>7
    <3> QED
      BY <2>0, <3>5, <3>6, <3>8, <3>9 DEF LadderInv
  <2>6. ASSUME NEW j \in Ticks PROVE TickInv(j)'
    BY <1>t, <1>c, <2>0 DEF TickInv, TypeOK
  <2> QED
    BY <1>t, <2>1, <2>2, <2>3, <2>4, <2>5, <2>6 DEF Inv, Rows, Ticking
<1>5. CASE WriteNudgeEvidence(k)
  <2>n. nudging[k] \in Tasks
    BY <1>t, <1>5 DEF WriteNudgeEvidence, TypeOK
  <2>0. PICK u \in Tasks :
        /\ u = nudging[k] /\ step[k] = "fired" /\ LetGo(k)
        /\ nudgeRows' = [nudgeRows EXCEPT ![u] = IF Guest(u) THEN @ + 1 ELSE @]
        /\ UNCHANGED <<row, clock, turn, woken, faults>>
        /\ UNCHANGED <<reached, doubted, stranded, unmarked, landed>>
    BY <2>n, <1>5 DEF WriteNudgeEvidence
  <2>1. TurnInv'
    BY <1>t, <1>a, <2>0 DEF TurnInv, Nudged, TypeOK
  <2>2. OkIsTrue'
    BY <1>a, <2>0 DEF OkIsTrue
  <2>3. ASSUME NEW t \in Tasks PROVE RowInv(t)' /\ ServiceInv(t)'
    BY <1>b, <2>0 DEF RowInv, ServiceInv, Raising
  <2>4. ASSUME NEW t \in Tasks PROVE LadderInv(t)'
    <3>1. FiredBy(t)' = FiredBy(t) \ {k} /\ (k \in FiredBy(t) <=> t = u)
      BY <1>t, <2>0 DEF FiredBy, TypeOK
    <3>2. FiredBy(t) \subseteq Ticks
      BY DEF FiredBy
    <3>3. IsFiniteSet(FiredBy(t))
      BY <3>2, FiniteAssumption, FS_Subset
    <3>4. /\ Cardinality(FiredBy(t)') = IF t = u THEN Cardinality(FiredBy(t)) - 1 ELSE Cardinality(FiredBy(t))
          /\ Cardinality(FiredBy(t)) \in Nat
      BY <3>1, <3>3, FS_RemoveElement, FS_CardinalityType
    <3>5. nudgeRows[t] \in Nat /\ rung[t] \in Nat
      BY <1>t DEF TypeOK
    <3>6. nudgeRows'[t] = nudgeRows[t] \/ (t = u /\ nudgeRows'[t] = nudgeRows[t] + 1)
      BY <1>t, <2>0 DEF TypeOK
    <3>7. nudgeRows'[t] + Cardinality(FiredBy(t)') <= rung[t]
      BY <1>b, <3>4, <3>5, <3>6 DEF LadderInv
    <3> QED
      BY <1>b, <2>0, <3>7 DEF LadderInv
  <2>5. ASSUME NEW j \in Ticks PROVE TickInv(j)'
    BY <1>t, <1>c, <2>0 DEF TickInv, TypeOK
  <2> QED
    BY <1>t, <2>1, <2>2, <2>3, <2>4, <2>5 DEF Inv, Rows, Ticking
<1>6. MarkRungFired(k) \/ NudgeFails(k) \/ NudgeBreaksOff(k) =>
        \/ MarkRungFired(k) /\ RungIsMine(k, nudging[k])
        \/ /\ LetGo(k) /\ nudging[k] # Nobody
           /\ reached \subseteq reached' /\ reached' \subseteq reached \cup {nudging[k]}
           /\ UNCHANGED <<row, clock, turn, woken, doubted, stranded, unmarked, landed, nudgeRows>>
  BY DEF MarkRungFired, NudgeFails, NudgeBreaksOff, MayHaveReached
<1> QED
  BY <1>1, <1>2, <1>3, <1>4, <1>5, <1>6 DEF TickStep

(* The steps of everybody else, and what becomes of the turn at its ends.  *)
LEMMA OtherStepInv ==
  ASSUME Inv, TypeOK',
         \/ TurnStart \/ Claim \/ TurnThrows \/ CardFailsUnmarked
         \/ DigestStep
         \/ \E u \in Tasks : Done(u) \/ Age(u)
         \/ CancelLiveEscalations
         \/ Daybreak \/ Nightfall \/ Crash \/ UNCHANGED vars
  PROVE  Inv'
<1>t. TypeOK /\ TypeOK'
  BY DEF Inv
<1>a. TurnInv /\ OkIsTrue
  BY DEF Inv
<1>b. \A t \in Tasks : RowInv(t) /\ ServiceInv(t) /\ LadderInv(t)
  BY DEF Inv, Rows
<1>c. \A k \in Ticks : TickInv(k)
  BY DEF Inv, Ticking
<1> USE TasksAssumption
    DEF row, clock, turn, nudger, history, IsLive, Live, TurnOver, CardDone, RunDies, StrandsTarget
<1>1. CASE TurnStart
  <2>1. TurnInv'
    BY <1>t, <1>a, <1>b, <1>1 DEF TurnStart, TurnInv, Nudged, RowInv, TypeOK
  <2>2. OkIsTrue'
    BY <1>a, <1>1 DEF TurnStart, OkIsTrue
  <2>3. ASSUME NEW t \in Tasks PROVE RowInv(t)' /\ ServiceInv(t)'
    BY <1>t, <1>a, <1>b, <1>1 DEF TurnStart, TurnInv, RowInv, ServiceInv, Raising, TypeOK
  <2>4. ASSUME NEW t \in Tasks PROVE LadderInv(t)'
    BY <1>t, <1>b, <1>1, LadderKept DEF TurnStart, TypeOK
  <2>5. ASSUME NEW k \in Ticks PROVE TickInv(k)'
    BY <1>t, <1>c, <1>1 DEF TurnStart, TickInv, TypeOK
  <2> QED
    BY <1>t, <2>1, <2>2, <2>3, <2>4, <2>5 DEF Inv, Rows, Ticking
<1>2. CASE Claim
  <2>1. TurnInv'
    BY <1>t, <1>a, <1>b, <1>2 DEF Claim, KeyOf, TurnInv, Nudged, RowInv, TypeOK
  <2>2. OkIsTrue'
    BY <1>a, <1>2 DEF Claim, KeyOf, OkIsTrue
  <2>3. ASSUME NEW t \in Tasks PROVE RowInv(t)' /\ ServiceInv(t)'
    BY <1>t, <1>a, <1>b, <1>2 DEF Claim, KeyOf, TurnInv, RowInv, ServiceInv, Raising, TypeOK
  <2>4. ASSUME NEW t \in Tasks PROVE LadderInv(t)'
    BY <1>t, <1>b, <1>2, LadderKept DEF Claim, KeyOf, TypeOK
  <2>5. ASSUME NEW k \in Ticks PROVE TickInv(k)'
    BY <1>t, <1>c, <1>2 DEF Claim, KeyOf, TickInv, TypeOK
  <2> QED
    BY <1>t, <2>1, <2>2, <2>3, <2>4, <2>5 DEF Inv, Rows, Ticking
<1>3. CASE TurnThrows
  <2>1. TurnInv'
    BY <1>t, <1>a, <1>b, <1>3 DEF TurnThrows, TurnInv, Nudged, RowInv, TypeOK
  <2>2. OkIsTrue'
    BY <1>a, <1>3 DEF TurnThrows, OkIsTrue
  <2>3. ASSUME NEW t \in Tasks PROVE RowInv(t)' /\ ServiceInv(t)'
    BY <1>t, <1>a, <1>b, <1>3 DEF TurnThrows, TurnInv, RowInv, ServiceInv, Raising, TypeOK
  <2>4. ASSUME NEW t \in Tasks PROVE LadderInv(t)'
    BY <1>t, <1>b, <1>3, LadderKept DEF TurnThrows, TypeOK
  <2>5. ASSUME NEW k \in Ticks PROVE TickInv(k)'
    BY <1>t, <1>c, <1>3 DEF TurnThrows, TickInv, TypeOK
  <2> QED
    BY <1>t, <2>1, <2>2, <2>3, <2>4, <2>5 DEF Inv, Rows, Ticking
<1>4. CASE CardFailsUnmarked
  <2>r. reached \subseteq reached' /\ reached' \subseteq reached \cup {target}
    BY <1>4 DEF CardFailsUnmarked, MayHaveReached
  <2>1. TurnInv'
    BY <1>t, <1>a, <1>b, <1>4 DEF CardFailsUnmarked, TurnInv, Nudged, RowInv, TypeOK
  <2>2. OkIsTrue'
    BY <1>a, <1>4, <2>r DEF CardFailsUnmarked, OkIsTrue
  <2>3. ASSUME NEW t \in Tasks PROVE RowInv(t)' /\ ServiceInv(t)'
    BY <1>t, <1>a, <1>b, <1>4, <2>r DEF CardFailsUnmarked, TurnInv, RowInv, ServiceInv, Raising, TypeOK
  <2>4. ASSUME NEW t \in Tasks PROVE LadderInv(t)'
    BY <1>t, <1>b, <1>4, LadderKept DEF CardFailsUnmarked, TypeOK
  <2>5. ASSUME NEW k \in Ticks PROVE TickInv(k)'
    BY <1>t, <1>c, <1>4 DEF CardFailsUnmarked, TickInv, TypeOK
  <2> QED
    BY <1>t, <2>1, <2>2, <2>3, <2>4, <2>5 DEF Inv, Rows, Ticking
<1>5. CASE DigestConverts
  <2>1. TurnInv'
    BY <1>t, <1>a, <1>b, <1>5 DEF DigestConverts, NightQueue, TurnInv, Nudged, RowInv, TypeOK
  <2>2. OkIsTrue'
    BY <1>a, <1>5 DEF DigestConverts, NightQueue, OkIsTrue
  <2>3. ASSUME NEW t \in Tasks PROVE RowInv(t)' /\ ServiceInv(t)'
    <3>1. /\ t \in NightQueue <=> kind[t] = "night_queue" /\ status[t] = "open"
          /\ kind'[t] = IF t \in NightQueue THEN "escalation" ELSE kind[t]
          /\ due'[t] = IF t \in NightQueue THEN 0 ELSE due[t]
          /\ rung'[t] = IF t \in NightQueue THEN 0 ELSE rung[t]
      BY <1>5 DEF DigestConverts, NightQueue
    <3>2. /\ woken' = NightQueue
          /\ UNCHANGED <<status, turn, history>>
      BY <1>5 DEF DigestConverts
    <3>3. RowInv(t)'
      BY <1>t, <1>b, <3>1, <3>2 DEF RowInv, TypeOK, Asks
    <3>4. ServiceInv(t)'
      BY <1>b, <3>2 DEF ServiceInv, Raising
    <3> QED
      BY <3>3, <3>4
  <2>4. ASSUME NEW t \in Tasks PROVE LadderInv(t)'
    <3>1. t \in NightQueue => rung[t] = 0
      BY <1>t, <1>b DEF NightQueue, LadderInv, Rungs, TypeOK
    <3>2. rung'[t] = rung[t] /\ status' = status /\ (kind'[t] = kind[t] \/ t \in NightQueue)
      BY <1>t, <1>5, <3>1 DEF DigestConverts, TypeOK
    <3>3. FiredBy(t)' = FiredBy(t) /\ nudgeRows' = nudgeRows /\ landed' = landed
      BY <1>5 DEF DigestConverts, FiredBy
    <3>4. rung[t] <= Rungs(kind'[t])
      BY <1>t, <1>b, <3>1, <3>2, RungsType DEF LadderInv, TypeOK
    <3> QED
      BY <1>b, <3>1, <3>2, <3>3, <3>4 DEF LadderInv, NightQueue
  <2>5. ASSUME NEW k \in Ticks PROVE TickInv(k)'
    BY <1>t, <1>c, <1>5 DEF DigestConverts, NightQueue, TickInv, TypeOK
  <2> QED
    BY <1>t, <2>1, <2>2, <2>3, <2>4, <2>5 DEF Inv, Rows, Ticking
<1>6. ASSUME NEW u \in Tasks, DigestCard(u) PROVE Inv'
  <2>r. reached \subseteq reached' /\ reached' \subseteq reached \cup {u} /\ u \in woken
    BY <1>6 DEF DigestCard, MayHaveReached
  <2>1. TurnInv'
    BY <1>t, <1>a, <1>b, <1>6, <2>r DEF DigestCard, TurnInv, Nudged, RowInv, TypeOK
  <2>2. OkIsTrue'
    BY <1>a, <1>6, <2>r DEF DigestCard, OkIsTrue
  <2>3. ASSUME NEW t \in Tasks PROVE RowInv(t)' /\ ServiceInv(t)'
    BY <1>t, <1>a, <1>b, <1>6, <2>r DEF DigestCard, TurnInv, RowInv, ServiceInv, Raising, TypeOK
  <2>4. ASSUME NEW t \in Tasks PROVE LadderInv(t)'
    BY <1>t, <1>b, <1>6, LadderKept DEF DigestCard, TypeOK
  <2>5. ASSUME NEW k \in Ticks PROVE TickInv(k)'
    BY <1>t, <1>c, <1>6, <2>r DEF DigestCard, TickInv, TypeOK
  <2> QED
    BY <1>t, <2>1, <2>2, <2>3, <2>4, <2>5 DEF Inv, Rows, Ticking
<1>7. CASE DigestEnds
  <2>1. TurnInv'
    BY <1>t, <1>a, <1>b, <1>7 DEF DigestEnds, TurnInv, Nudged, RowInv, TypeOK
  <2>2. OkIsTrue'
    BY <1>a, <1>7 DEF DigestEnds, OkIsTrue
  <2>3. ASSUME NEW t \in Tasks PROVE RowInv(t)' /\ ServiceInv(t)'
    BY <1>t, <1>a, <1>b, <1>7 DEF DigestEnds, TurnInv, RowInv, ServiceInv, Raising, TypeOK
  <2>4. ASSUME NEW t \in Tasks PROVE LadderInv(t)'
    BY <1>t, <1>b, <1>7, LadderKept DEF DigestEnds, TypeOK
  <2>5. ASSUME NEW k \in Ticks PROVE TickInv(k)'
    BY <1>t, <1>c, <1>7 DEF DigestEnds, TickInv, TypeOK
  <2> QED
    BY <1>t, <2>1, <2>2, <2>3, <2>4, <2>5 DEF Inv, Rows, Ticking
<1>8. ASSUME NEW u \in Tasks, Done(u) PROVE Inv'
  <2>1. TurnInv'
    BY <1>t, <1>a, <1>b, <1>8 DEF Done, TurnInv, Nudged, RowInv, TypeOK
  <2>2. OkIsTrue'
    BY <1>a, <1>8 DEF Done, OkIsTrue
  <2>3. ASSUME NEW t \in Tasks PROVE RowInv(t)' /\ ServiceInv(t)'
    BY <1>t, <1>a, <1>b, <1>8 DEF Done, TurnInv, RowInv, ServiceInv, Raising, TypeOK
  <2>4. ASSUME NEW t \in Tasks PROVE LadderInv(t)'
    BY <1>t, <1>b, <1>8, LadderKept DEF Done, TypeOK
  <2>5. ASSUME NEW k \in Ticks PROVE TickInv(k)'
    BY <1>t, <1>c, <1>8 DEF Done, TickInv, TypeOK
  <2> QED
    BY <1>t, <2>1, <2>2, <2>3, <2>4, <2>5 DEF Inv, Rows, Ticking
<1>9. ASSUME NEW u \in Tasks, Age(u) PROVE Inv'
  <2>1. TurnInv'
    BY <1>t, <1>a, <1>b, <1>9 DEF Age, TurnInv, Nudged, RowInv, TypeOK
  <2>2. OkIsTrue'
    BY <1>a, <1>9 DEF Age, OkIsTrue
  <2>3. ASSUME NEW t \in Tasks PROVE RowInv(t)' /\ ServiceInv(t)'
    BY <1>t, <1>a, <1>b, <1>9 DEF Age, TurnInv, RowInv, ServiceInv, Raising, TypeOK
  <2>4. ASSUME NEW t \in Tasks PROVE LadderInv(t)'
    BY <1>t, <1>b, <1>9, LadderKept DEF Age, TypeOK
  <2>5. ASSUME NEW k \in Ticks PROVE TickInv(k)'
    BY <1>t, <1>c, <1>9 DEF Age, TickInv, TypeOK
  <2> QED
    BY <1>t, <2>1, <2>2, <2>3, <2>4, <2>5 DEF Inv, Rows, Ticking
<1>10. CASE CancelLiveEscalations
  <2>1. TurnInv'
    BY <1>t, <1>a, <1>b, <1>10 DEF CancelLiveEscalations, Cancellable, TurnInv, Nudged, RowInv, TypeOK
  <2>2. OkIsTrue'
    BY <1>a, <1>10 DEF CancelLiveEscalations, Cancellable, OkIsTrue
  <2>3. ASSUME NEW t \in Tasks PROVE RowInv(t)' /\ ServiceInv(t)'
    BY <1>t, <1>a, <1>b, <1>10 DEF CancelLiveEscalations, Cancellable, TurnInv, RowInv, ServiceInv, Raising, TypeOK
  <2>4. ASSUME NEW t \in Tasks PROVE LadderInv(t)'
    BY <1>t, <1>b, <1>10, LadderKept DEF CancelLiveEscalations, Cancellable, TypeOK
  <2>5. ASSUME NEW k \in Ticks PROVE TickInv(k)'
    BY <1>t, <1>c, <1>10 DEF CancelLiveEscalations, Cancellable, TickInv, TypeOK
  <2> QED
    BY <1>t, <2>1, <2>2, <2>3, <2>4, <2>5 DEF Inv, Rows, Ticking
<1>11. CASE Daybreak
  <2>1. TurnInv'
    BY <1>t, <1>a, <1>b, <1>11 DEF Daybreak, NightQueue, TurnInv, Nudged, RowInv, TypeOK
  <2>2. OkIsTrue'
    BY <1>a, <1>11 DEF Daybreak, NightQueue, OkIsTrue
  <2>3. ASSUME NEW t \in Tasks PROVE RowInv(t)' /\ ServiceInv(t)'
    BY <1>t, <1>a, <1>b, <1>11 DEF Daybreak, NightQueue, TurnInv, RowInv, ServiceInv, Raising, TypeOK
  <2>4. ASSUME NEW t \in Tasks PROVE LadderInv(t)'
    BY <1>t, <1>b, <1>11, LadderKept DEF Daybreak, NightQueue, TypeOK
  <2>5. ASSUME NEW k \in Ticks PROVE TickInv(k)'
    BY <1>t, <1>c, <1>11 DEF Daybreak, NightQueue, TickInv, TypeOK
  <2> QED
    BY <1>t, <2>1, <2>2, <2>3, <2>4, <2>5 DEF Inv, Rows, Ticking
<1>12. CASE Nightfall
  <2>1. TurnInv'
    BY <1>t, <1>a, <1>b, <1>12 DEF Nightfall, TurnInv, Nudged, RowInv, TypeOK
  <2>2. OkIsTrue'
    BY <1>a, <1>12 DEF Nightfall, OkIsTrue
  <2>3. ASSUME NEW t \in Tasks PROVE RowInv(t)' /\ ServiceInv(t)'
    BY <1>t, <1>a, <1>b, <1>12 DEF Nightfall, TurnInv, RowInv, ServiceInv, Raising, TypeOK
  <2>4. ASSUME NEW t \in Tasks PROVE LadderInv(t)'
    BY <1>t, <1>b, <1>12, LadderKept DEF Nightfall, TypeOK
  <2>5. ASSUME NEW k \in Ticks PROVE TickInv(k)'
    BY <1>t, <1>c, <1>12 DEF Nightfall, TickInv, TypeOK
  <2> QED
    BY <1>t, <2>1, <2>2, <2>3, <2>4, <2>5 DEF Inv, Rows, Ticking
<1>13. CASE Crash
  <2>r. reached \subseteq reached' /\ reached' \subseteq reached \cup OnTheirWay
    BY <1>13 DEF Crash, MayHaveReached
  <2>w. ASSUME NEW t \in OnTheirWay PROVE status[t] \notin {"none", "notify_failed"}
    <3>1. CASE pc = "card" /\ target = t
      BY <1>a, <3>1 DEF TurnInv
    <3>2. ASSUME NEW k \in Ticks, nudging[k] = t PROVE status[t] \notin {"none", "notify_failed"}
      BY <1>c, <3>2, TasksAssumption DEF TickInv, OnTheirWay
    <3>3. CASE t \in woken
      BY <1>b, <3>3 DEF RowInv, OnTheirWay
    <3> QED
      BY <3>1, <3>2, <3>3 DEF OnTheirWay
  <2>1. TurnInv'
    BY <1>t, <1>a, <1>b, <1>13 DEF Crash, TurnInv, Nudged, RowInv, TypeOK
  <2>2. OkIsTrue'
    BY <1>a, <1>13, <2>r DEF Crash, OkIsTrue
  <2>3. ASSUME NEW t \in Tasks PROVE RowInv(t)' /\ ServiceInv(t)'
    BY <1>t, <1>a, <1>b, <1>13, <2>r, <2>w DEF Crash, TurnInv, RowInv, ServiceInv, Raising, TypeOK
  <2>4. ASSUME NEW t \in Tasks PROVE LadderInv(t)'
    <3>1. FiredBy(t)' \subseteq FiredBy(t)
      BY <1>13 DEF Crash, FiredBy
    <3> QED
      BY <1>t, <1>b, <1>13, <3>1, LadderAtTick DEF Crash
  <2>5. ASSUME NEW k \in Ticks PROVE TickInv(k)'
    BY <1>t, <1>c, <1>13 DEF Crash, TickInv, TypeOK
  <2> QED
    BY <1>t, <2>1, <2>2, <2>3, <2>4, <2>5 DEF Inv, Rows, Ticking
<1>14. CASE UNCHANGED vars
  <2>1. TurnInv'
    BY <1>t, <1>a, <1>b, <1>14 DEF vars, TurnInv, Nudged, RowInv, TypeOK
  <2>2. OkIsTrue'
    BY <1>a, <1>14 DEF vars, OkIsTrue
  <2>3. ASSUME NEW t \in Tasks PROVE RowInv(t)' /\ ServiceInv(t)'
    BY <1>t, <1>a, <1>b, <1>14 DEF vars, TurnInv, RowInv, ServiceInv, Raising, TypeOK
  <2>4. ASSUME NEW t \in Tasks PROVE LadderInv(t)'
    BY <1>t, <1>b, <1>14, LadderKept DEF vars, TypeOK
  <2>5. ASSUME NEW k \in Ticks PROVE TickInv(k)'
    BY <1>t, <1>c, <1>14 DEF vars, TickInv, TypeOK
  <2> QED
    BY <1>t, <2>1, <2>2, <2>3, <2>4, <2>5 DEF Inv, Rows, Ticking
<1> QED
  BY <1>1, <1>2, <1>3, <1>4, <1>5, <1>6, <1>7, <1>8, <1>9, <1>10, <1>11, <1>12, <1>13, <1>14 DEF DigestStep

(* Inv is inductive. *)
LEMMA NextInv == Inv /\ [Next]_vars => Inv'
<1> SUFFICES ASSUME Inv, [Next]_vars PROVE Inv'
  OBVIOUS
<1>1. TypeOK'
  BY NextTypeOK DEF Inv
<1>2. \/ TurnStep
      \/ \E k \in Ticks : TickStep(k) \/ NudgeBreaksOff(k) \/ \E t \in Tasks : TickReads(k, t)
      \/ TurnStart \/ Claim \/ TurnThrows \/ CardFailsUnmarked
      \/ DigestStep
      \/ \E u \in Tasks : Done(u) \/ Age(u)
      \/ CancelLiveEscalations
      \/ Daybreak \/ Nightfall \/ Crash \/ UNCHANGED vars
  BY DEF Next
<1> QED
  BY <1>1, <1>2, TurnStepInv, TickStepInv, OtherStepInv

(* The invariant holds throughout. *)
THEOREM InvHolds == Spec => []Inv
<1> QED
  BY InitInv, NextInv, PTL DEF Spec

(* Every reachable state is well typed: no rung beyond the ladder, no call *)
(* beyond MAX_TASKS_PER_TURN.                                              *)
THEOREM TypeCorrect == Spec => []TypeOK
<1>1. Inv => TypeOK
  BY DEF Inv
<1> QED
  BY <1>1, InvHolds, PTL

(* A task that a human holds a card of is written off as notify_failed     *)
(* only by the verdict on that very card: recordHole touches only a raise, *)
(* and nobody else has had the task of a raise in hand.                    *)
THEOREM HeldWorkSafe == Spec => []HeldWorkSurvives
<1>1. Inv => HeldWorkSurvives
  BY DEF Inv, TypeOK, Rows, RowInv, HeldWorkSurvives
<1> QED
  BY <1>1, InvHolds, PTL

(* A tool's ok is about a card that landed, a run that died or a verdict   *)
(* that was lost, whichever gate gave the answer.                          *)
THEOREM OkIsTrueSafe == Spec => []OkIsTrue
<1>1. Inv => OkIsTrue
  BY DEF Inv
<1> QED
  BY <1>1, InvHolds, PTL

(* Every rung the ladder has taken reached a human, and none is on the     *)
(* guest's thread twice, however many ticks overlap.                       *)
THEOREM LadderHonestSafe == Spec => []LadderIsHonest
<1>1. Inv => LadderIsHonest
  BY DEF Inv, Rows, LadderInv, LadderIsHonest, FiredBy
<1> QED
  BY <1>1, InvHolds, PTL

(* How a step may move a status: it inserts a row, of a service only under *)
(* the cap, or it moves a live one.                                        *)
LEMMA StatusMoves ==
  ASSUME Inv, [Next]_vars, NEW t \in Tasks
  PROVE  \/ status'[t] = status[t]
         \/ status[t] = "none" /\ (Ask[t] # "service" \/ RaiseService(t))
         \/ IsLive(t)
<1>t. TypeOK /\ TurnInv
  BY DEF Inv
<1> USE DEF TypeOK, row, clock, turn, nudger, history, IsLive, Live
<1>1. CASE TurnStep
  BY <1>t, <1>1 DEF TurnStep, ReplayService, RaiseService, EscalateByDay, EscalateByNight, ReplayEscalation,
     ChooseAppend, Append, RaiseMedia, CardLands, CardFails, MarkNotifyFailed, KeyOf, InsertRow, TurnInv
<1>2. ASSUME NEW k \in Ticks, TickStep(k) \/ NudgeBreaksOff(k) \/ \E u \in Tasks : TickReads(k, u)
      PROVE  status'[t] = status[t] \/ IsLive(t)
  BY <1>t, <1>2 DEF TickStep, NudgeLands, NudgeFails, MarkRungFired, RungIsMine, WriteNudgeEvidence,
     NudgeBreaksOff, TickReads
<1>3. CASE TurnStart \/ Claim \/ TurnThrows \/ CardFailsUnmarked
  BY <1>3 DEF TurnStart, Claim, TurnThrows, CardFailsUnmarked
<1>4. CASE DigestStep
  BY <1>4 DEF DigestStep, DigestConverts, DigestCard, DigestEnds
<1>5. ASSUME NEW u \in Tasks, Done(u) \/ Age(u)
      PROVE  status'[t] = status[t] \/ IsLive(t)
  BY <1>t, <1>5 DEF Done, Age
<1>6. CASE CancelLiveEscalations
  BY <1>t, <1>6 DEF CancelLiveEscalations, Cancellable
<1>7. CASE Daybreak \/ Nightfall \/ Crash \/ UNCHANGED vars
  BY <1>7 DEF Daybreak, Nightfall, Crash, vars
<1> QED
  BY <1>1, <1>2, <1>3, <1>4, <1>5, <1>6, <1>7 DEF Next

(* done, cancelled and notify_failed are final, whatever is in flight.     *)
THEOREM TerminalStaysSafe == Spec => TerminalStays
<1>1. Inv /\ [Next]_vars => [\A t \in Tasks : status[t] \in Terminal => status'[t] = status[t]]_vars
  BY StatusMoves DEF Terminal, IsLive, Live
<1> QED
  BY <1>1, InvHolds, PTL DEF Spec, TerminalStays

(* The open services of the conversation never outgrow the cap: the count  *)
(* and the insert are two calls, but only the turn inserts them.           *)
THEOREM CapHoldsSafe == Spec => []CapHolds
<1>1. Init => CapHolds
  <2> SUFFICES ASSUME Init PROVE CapHolds
    OBVIOUS
  <2>1. LiveService = {}
    BY DEF Init, LiveService, LiveOfGuest, IsLive, Live
  <2> QED
    BY <2>1, FS_EmptySet, BoundsAssumption DEF CapHolds
<1>2. Inv /\ CapHolds /\ [Next]_vars => CapHolds'
  <2> SUFFICES ASSUME Inv, CapHolds, [Next]_vars PROVE CapHolds'
    OBVIOUS
  <2>1. /\ LiveService \subseteq LiveOfGuest
        /\ IsFiniteSet(LiveOfGuest) /\ IsFiniteSet(LiveService)
    <3>1. LiveService \subseteq LiveOfGuest /\ LiveOfGuest \subseteq Tasks /\ LiveService \subseteq Tasks
      BY DEF LiveService, LiveOfGuest
    <3> QED
      BY <3>1, FiniteAssumption, FS_Subset
  <2>2. /\ Cardinality(LiveService) \in Nat /\ Cardinality(LiveOfGuest) \in Nat
        /\ Cardinality(LiveService) <= Cardinality(LiveOfGuest)
    BY <2>1, FS_Subset, FS_CardinalityType
  <2>3. CASE \E u \in Tasks : RaiseService(u)
    <3>1. PICK u \in Tasks : RaiseService(u)
      BY <2>3
    <3>2. LiveService' \subseteq LiveService \cup {u}
      BY <3>1 DEF RaiseService, InsertRow, LiveService, LiveOfGuest, IsLive, Inv, TypeOK
    <3>a. /\ IsFiniteSet(LiveService \cup {u})
          /\ Cardinality(LiveService \cup {u}) =
               IF u \in LiveService THEN Cardinality(LiveService) ELSE Cardinality(LiveService) + 1
      BY <2>1, FS_AddElement
    <3>3. /\ IsFiniteSet(LiveService \cup {u})
          /\ Cardinality(LiveService \cup {u}) <= Cardinality(LiveService) + 1
      BY <2>2, <3>a
    <3>4. /\ Cardinality(LiveService') <= Cardinality(LiveService \cup {u})
          /\ Cardinality(LiveService') \in Nat /\ Cardinality(LiveService \cup {u}) \in Nat
      BY <3>2, <3>3, FS_Subset, FS_CardinalityType
    <3>5. Cardinality(LiveOfGuest) < MaxOpen
      BY <3>1 DEF RaiseService, UnderTheCap
    <3> QED
      BY <2>2, <3>3, <3>4, <3>5, BoundsAssumption DEF CapHolds
  <2>4. CASE ~ \E u \in Tasks : RaiseService(u)
    <3>1. LiveService' \subseteq LiveService
      BY <2>4, StatusMoves DEF LiveService, LiveOfGuest, Guest, IsLive
    <3>2. /\ Cardinality(LiveService') <= Cardinality(LiveService)
          /\ Cardinality(LiveService') \in Nat
      BY <2>1, <3>1, FS_Subset, FS_CardinalityType
    <3> QED
      BY <2>2, <3>2, BoundsAssumption DEF CapHolds
  <2> QED
    BY <2>3, <2>4
<1> QED
  BY <1>1, <1>2, InvHolds, PTL DEF Spec
=============================================================================
