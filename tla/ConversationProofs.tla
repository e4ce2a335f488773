-------------------------- MODULE ConversationProofs --------------------------
(***************************************************************************)
(* Theorems about a conversation's turns, for every number of messages, of *)
(* overlapping runs, of faults and of staff actions, and for all windows.  *)
(***************************************************************************)
EXTENDS Conversation, WellFoundedInduction, TLAPS

(* Of a nonempty set of messages, MaxOf takes the last.                     *)
LEMMA MaxOfIsLast ==
  ASSUME NEW S \in SUBSET Ids, S # {}
  PROVE  MaxOf(S) \in S /\ \A j \in S : j <= MaxOf(S)
<1> DEFINE T == {N - i : i \in S}
<1>n. \A i \in S : i \in Nat /\ N - i \in Nat
  BY NAssumption DEF Ids
<1>1. T \subseteq Nat /\ T # {}
  BY <1>n
<1>2. PICK x \in T : \A y \in T : ~ (<<y, x>> \in OpToRel(<, Nat))
  <2> HIDE DEF T
  <2> QED
    BY <1>1, WFMin, NatLessThanWellFounded
<1>3. \A y \in T : x <= y
  <2> SUFFICES ASSUME NEW y \in T, ~ (x <= y) PROVE FALSE
    OBVIOUS
  <2>1. x \in Nat /\ y \in Nat /\ y < x
    BY <1>1
  <2>2. <<y, x>> \in OpToRel(<, Nat)
    BY <2>1 DEF OpToRel
  <2> QED
    BY <1>2, <2>2
<1>4. PICK i \in S : x = N - i
  OBVIOUS
<1>5. \A j \in S : j <= i
  <2> SUFFICES ASSUME NEW j \in S PROVE j <= i
    OBVIOUS
  <2>1. N - i <= N - j
    BY <1>3, <1>4
  <2> QED
    BY <2>1, <1>n, NAssumption
<1> QED
  BY <1>5 DEF MaxOf

-----------------------------------------------------------------------------
(* Types. *)

(* What a turn has read of the thread. *)
LEMMA Snapshot ==
  /\ NothingSeen \in Snapshots
  /\ \A s \in Snapshots, late \in BOOLEAN :
       /\ [s EXCEPT !.ages = NoAges, !.late = late] \in Snapshots
       /\ [s EXCEPT !.ages = NoAges, !.late = late].pointer = s.pointer
       /\ [s EXCEPT !.ages = NoAges, !.late = late].status = s.status
<1>1. NoAges \in Ages
  BY WindowsAssumption DEF NoAges, Ages
<1>2. NothingSeen \in Snapshots
  <2>1. 0 \in 0 .. N /\ "ai_active" \in Statuses
    BY NAssumption DEF Statuses
  <2> QED
    BY <1>1, <2>1 DEF NothingSeen, Snapshots
<1> QED
  BY <1>1, <1>2 DEF Snapshots

(* The first state is well typed. *)
LEMMA InitTypeOK == Init => TypeOK
<1> SUFFICES ASSUME Init PROVE TypeOK
  OBVIOUS
<1>1. age \in Ages
  BY WindowsAssumption DEF Init, Ages
<1>2. seen \in [Runs -> Snapshots]
  BY Snapshot DEF Init
<1>3. pointer \in 0 .. N /\ faults \in 0 .. MaxFaults /\ staff \in 0 .. MaxStaff
  BY NAssumption, BoundsAssumption DEF Init
<1> QED
  BY <1>1, <1>2, <1>3 DEF Init, TypeOK, Statuses, Plans

(* A run that forgets, or ends, keeps the types of its locals.              *)
LEMMA ForgetType ==
  ASSUME TypeOK, NEW r \in Runs, Forget(r)
  PROVE  seen' \in [Runs -> Snapshots] /\ batch' \in [Runs -> SUBSET Ids] /\ plan' \in [Runs -> Plans]
BY Snapshot DEF TypeOK, Forget, Plans

(***************************************************************************)
(* What a run that is about to claim holds: messages beyond the pointer it *)
(* read, and at least one.                                                 *)
(***************************************************************************)
Claims ==
  \A r \in Runs : pc[r] = "claim" =>
    /\ batch[r] # {}
    /\ batch[r] \subseteq Stored
    /\ \A i \in batch[r] : seen[r].pointer < i

(* A step of a turn keeps the types. *)
LEMMA RunStepType ==
  ASSUME TypeOK, Claims, NEW r \in Runs, RunStep(r)
  PROVE  TypeOK'
<1> USE DEF TypeOK, messages, thread, queue, run, human, history, Goto
<1>1. CASE ReadContext(r)
  BY <1>1 DEF ReadContext, Held, Snapshots
<1>2. CASE ReadNothing(r)
  BY <1>2, ForgetType DEF ReadNothing, Return, RunEnds
<1>3. CASE Requeue(r)
  BY <1>3, ForgetType DEF Requeue, Return, RunEnds, Enqueue
<1>4. CASE ReadBatch(r)
  <2>1. Unprocessed(r) \in SUBSET Ids
    BY DEF Unprocessed, Stored
  <2>3. plan' \in [Runs -> Plans]
    BY <1>4 DEF ReadBatch, PlansFor, Plans
  <2>4. seen' \in [Runs -> Snapshots]
    BY <1>4, Snapshot DEF ReadBatch
  <2> QED
    BY <1>4, <2>1, <2>3, <2>4 DEF ReadBatch
<1>5. CASE WinClaim(r)
  <2>1. StatusAfter(r) \in Statuses
    BY DEF StatusAfter, Statuses
  <2>2. MaxOf(batch[r]) \in Ids
    BY <1>5, MaxOfIsLast DEF WinClaim, PointerUnmoved, NewPointer, Claims
  <2>3. pointer' \in 0 .. N
    BY <1>5, <2>2, NAssumption DEF WinClaim, PointerUnmoved, NewPointer, Ids
  <2>4. /\ out' \in [Runs -> {"none", "intent", "draft"}]
        /\ pc' \in [Runs -> {"idle", "context", "batch", "claim", "settle", "recheck"}]
        /\ answered' \subseteq Ids
    BY <1>5 DEF WinClaim, PointerUnmoved, NewPointer, Commits
  <2>5. turns' \in [Ids -> Nat]
    BY <1>5 DEF WinClaim, PointerUnmoved, NewPointer
  <2>6. age' \in Ages
    BY <1>5, WindowsAssumption DEF WinClaim, PointerUnmoved, NewPointer, Ages
  <2> QED
    BY <1>5, <2>1, <2>3, <2>4, <2>5, <2>6, ForgetType DEF WinClaim, PointerUnmoved, NewPointer
<1>6. CASE LoseClaim(r)
  BY <1>6, ForgetType DEF LoseClaim
<1>7. CASE Settle(r)
  BY <1>7 DEF Settle
<1>8. CASE Recheck(r)
  BY <1>8, ForgetType DEF Recheck, Return, RunEnds, Enqueue
<1> QED
  BY <1>1, <1>2, <1>3, <1>4, <1>5, <1>6, <1>7, <1>8 DEF RunStep

(* Every step keeps the types; of the claims, only the batch is needed.     *)
LEMMA NextTypeOK == TypeOK /\ Claims /\ [Next]_vars => TypeOK'
<1> SUFFICES ASSUME TypeOK, Claims, [Next]_vars PROVE TypeOK'
  OBVIOUS
<1>1. ASSUME NEW r \in Runs, RunStep(r) PROVE TypeOK'
  BY <1>1, RunStepType
<1> USE DEF TypeOK, messages, thread, queue, run, human, history, Enqueue
<1>2. ASSUME NEW i \in Ids, Arrive(i) \/ Store(i) \/ Wake(i) PROVE TypeOK'
  BY <1>2 DEF Arrive, Store, Wake
<1>3. ASSUME NEW i \in Ids, WakeFails(i) PROVE TypeOK'
  BY <1>3, BoundsAssumption DEF WakeFails, Fault
<1>4. ASSUME NEW r \in Runs, Fetch(r) PROVE TypeOK'
  BY <1>4 DEF Fetch
<1>f. Fault => faults' \in 0 .. MaxFaults
  BY BoundsAssumption DEF Fault
<1>s. StaffActs => staff' \in 0 .. MaxStaff
  BY BoundsAssumption DEF StaffActs
<1>j. JobFails => active' = NoRun /\ retry' \in BOOLEAN /\ lapsed' \in BOOLEAN
  <2>1. CASE ~retry /\ retry' = TRUE /\ UNCHANGED lapsed
    BY <2>1 DEF JobFails
  <2>2. CASE UNCHANGED retry /\ lapsed' = TRUE
    BY <2>2 DEF JobFails
  <2> QED
    BY <2>1, <2>2 DEF JobFails
<1>5. ASSUME NEW r \in Runs, Throw(r) PROVE TypeOK'
  <2>1. CASE active = r
    BY <1>5, <1>f, <1>j, <2>1, ForgetType DEF Throw, RunEnds, Goto
  <2>2. CASE active # r
    BY <1>5, <1>f, <2>2, ForgetType DEF Throw, RunEnds, Goto
  <2> QED
    BY <2>1, <2>2
<1>6. ASSUME NEW r \in Runs, Expire(r) PROVE TypeOK'
  BY <1>6, <1>f, <1>j DEF Expire
<1>7. CASE Tick
  <2>1. age' \in Ages
    BY <1>7, WindowsAssumption DEF Tick, Young, Ages
  <2> QED
    BY <1>7, <2>1 DEF Tick
<1>8. CASE OrphanExpires
  BY <1>8, <1>j DEF OrphanExpires
<1>9. CASE Sweep
  BY <1>9 DEF Sweep
<1>10. CASE Crash
  <2>1. lapsed' \in BOOLEAN
    BY <1>10 DEF Crash
  <2>2. seen' \in [Runs -> Snapshots] /\ plan' \in [Runs -> Plans]
    BY <1>10, Snapshot DEF Crash, Plans
  <2> QED
    BY <1>10, <1>f, <2>1, <2>2 DEF Crash
<1>11. CASE Echo \/ FindPending
  BY <1>11, <1>s DEF Echo, FindPending
<1>12. CASE CancelPending
  BY <1>12 DEF CancelPending
<1>14. CASE AiOff \/ AiOn \/ TtlExpires
  BY <1>14, <1>s DEF AiOff, AiOn, TtlExpires, Statuses
<1>13. CASE UNCHANGED vars
  BY <1>13 DEF vars
<1> QED
  BY <1>1, <1>2, <1>3, <1>4, <1>5, <1>6, <1>7, <1>8, <1>9, <1>10, <1>11, <1>12, <1>13, <1>14 DEF Next

-----------------------------------------------------------------------------
(***************************************************************************)
(* No message is taken up twice.  What has been taken up is behind the     *)
(* pointer, what a run is about to claim is beyond the pointer it read,    *)
(* and the claim's guard says the two pointers are one.                    *)
(***************************************************************************)
Taken ==
  /\ pointer # 0 => pointer \in Stored /\ turns[pointer] >= 1
  /\ \A i \in Ids : turns[i] <= 1 /\ (turns[i] >= 1 => i <= pointer /\ i \in Stored)
  /\ overtaken \subseteq Stored

Inv == TypeOK /\ Claims /\ Taken

(* The first state is as Inv says. *)
LEMMA InitInv == Init => Inv
<1> SUFFICES ASSUME Init PROVE Claims /\ Taken
  BY InitTypeOK DEF Inv
<1> QED
  BY DEF Init, Claims, Taken

(* What a winning claim does to pointer and turns, from a state of Inv.     *)
LEMMA WinClaimEffect ==
  ASSUME Inv, NEW r \in Runs, WinClaim(r)
  PROVE  /\ pointer' \in batch[r] /\ pointer < pointer'
         /\ \A i \in batch[r] : i <= pointer' /\ turns[i] = 0 /\ turns'[i] = 1
         /\ \A i \in Ids \ batch[r] : turns'[i] = turns[i]
<1>1. /\ batch[r] # {} /\ batch[r] \in SUBSET Ids /\ pointer = seen[r].pointer
      /\ \A i \in batch[r] : pointer < i
  BY DEF Inv, TypeOK, Claims, WinClaim, PointerUnmoved, NewPointer
<1>2. pointer' \in batch[r] /\ \A i \in batch[r] : i <= pointer'
  BY <1>1, MaxOfIsLast DEF WinClaim, PointerUnmoved, NewPointer
<1>3. \A i \in batch[r] : turns[i] = 0
  BY <1>1 DEF Inv, TypeOK, Taken, Ids
<1>4. \A i \in Ids : turns'[i] = IF i \in batch[r] THEN turns[i] + 1 ELSE turns[i]
  BY DEF WinClaim, PointerUnmoved, NewPointer
<1> QED
  BY <1>1, <1>2, <1>3, <1>4

(* A step of a turn keeps the invariant. *)
LEMMA RunStepInv ==
  ASSUME Inv, NEW r \in Runs, RunStep(r)
  PROVE  Claims' /\ Taken'
<1>t. TypeOK
  BY DEF Inv
<1> USE DEF Inv, messages, thread, queue, run, human, history, Goto, Stored
<1>1. CASE ReadContext(r)
  BY <1>t, <1>1 DEF ReadContext, Claims, Taken, TypeOK
<1>2. CASE ReadNothing(r)
  BY <1>t, <1>2 DEF ReadNothing, Return, RunEnds, Forget, Claims, Taken, TypeOK
<1>3. CASE Requeue(r)
  BY <1>t, <1>3 DEF Requeue, Return, RunEnds, Forget, Claims, Taken, TypeOK
<1>4. CASE ReadBatch(r)
  <2>1. seen'[r].pointer = seen[r].pointer /\ \A q \in Runs \ {r} : seen'[q] = seen[q]
    BY <1>t, <1>4, Snapshot DEF ReadBatch, TypeOK
  <2>2. batch'[r] = Unprocessed(r) /\ \A q \in Runs \ {r} : batch'[q] = batch[q]
    BY <1>t, <1>4 DEF ReadBatch, TypeOK
  <2>3. \A q \in Runs \ {r} : pc'[q] = pc[q]
    BY <1>t, <1>4 DEF ReadBatch, TypeOK
  <2>4. Unprocessed(r) # {} /\ UNCHANGED <<msg, turns, pointer, overtaken>>
    BY <1>4 DEF ReadBatch
  <2>5. Claims'
    <3> SUFFICES ASSUME NEW q \in Runs, pc'[q] = "claim"
                 PROVE  /\ batch'[q] # {} /\ batch'[q] \subseteq Stored'
                        /\ \A i \in batch'[q] : seen'[q].pointer < i
      BY DEF Claims
    <3>1. CASE q = r
      BY <2>1, <2>2, <2>4, <3>1 DEF Unprocessed
    <3>2. CASE q # r
      BY <2>1, <2>2, <2>3, <2>4, <3>2 DEF Claims
    <3> QED
      BY <3>1, <3>2
  <2> QED
    BY <2>4, <2>5 DEF Taken
<1>5. CASE WinClaim(r)
  <2>1. Claims'
    BY <1>t, <1>5 DEF WinClaim, PointerUnmoved, NewPointer, Forget, Claims, TypeOK
  <2>2. msg' = msg /\ batch[r] \subseteq Stored /\ batch[r] \subseteq Ids
    BY <1>t, <1>5 DEF WinClaim, PointerUnmoved, NewPointer, Claims, TypeOK
  <2>3. pointer \in Nat /\ pointer' \in Nat
    BY <1>t, <1>5, <2>2, WinClaimEffect, NAssumption DEF TypeOK, Ids
  <2>4. Taken'
    <3>1. pointer' \in Stored /\ turns'[pointer'] >= 1
      <4>1. pointer' \in batch[r] /\ turns'[pointer'] = 1
        BY <1>5, WinClaimEffect
      <4> QED
        BY <2>2, <4>1
    <3>u. UNCHANGED <<msg, overtaken>>
      BY <1>5 DEF WinClaim
    <3>2. \A i \in batch[r] : turns'[i] = 1 /\ i <= pointer' /\ i \in Stored
      BY <1>5, <2>2, WinClaimEffect
    <3>3. \A i \in Ids \ batch[r] : turns'[i] = turns[i] /\ (i <= pointer => i <= pointer')
      BY <1>5, <2>3, WinClaimEffect DEF Ids
    <3> QED
      BY <1>t, <2>2, <3>1, <3>2, <3>3, <3>u DEF Taken, TypeOK
  <2> QED
    BY <2>1, <2>4
<1>6. CASE LoseClaim(r)
  BY <1>t, <1>6 DEF LoseClaim, Forget, Claims, Taken, TypeOK
<1>7. CASE Settle(r)
  BY <1>t, <1>7 DEF Settle, Claims, Taken, TypeOK
<1>8. CASE Recheck(r)
  BY <1>t, <1>8 DEF Recheck, Return, RunEnds, Forget, Claims, Taken, TypeOK
<1> QED
  BY <1>1, <1>2, <1>3, <1>4, <1>5, <1>6, <1>7, <1>8 DEF RunStep

(* Every step keeps it. *)
LEMMA NextInv == Inv /\ [Next]_vars => Inv'
<1> SUFFICES ASSUME Inv, [Next]_vars PROVE Claims' /\ Taken'
  BY NextTypeOK DEF Inv
<1>t. TypeOK
  BY DEF Inv
<1>1. ASSUME NEW r \in Runs, RunStep(r) PROVE Claims' /\ Taken'
  BY <1>1, RunStepInv
<1> USE DEF Inv, Claims, Taken, messages, thread, queue, run, human, history, Stored
<1>2. ASSUME NEW i \in Ids, Arrive(i) \/ Store(i) PROVE Claims' /\ Taken'
  BY <1>t, <1>2 DEF Arrive, Store, TypeOK
<1>3. ASSUME NEW i \in Ids, Wake(i) \/ WakeFails(i) PROVE Claims' /\ Taken'
  BY <1>3 DEF Wake, WakeFails
<1>4. ASSUME NEW r \in Runs, Fetch(r) PROVE Claims' /\ Taken'
  BY <1>t, <1>4 DEF Fetch, TypeOK
<1>5. ASSUME NEW r \in Runs, Throw(r) PROVE Claims' /\ Taken'
  BY <1>t, <1>5 DEF Throw, RunEnds, Goto, Forget, TypeOK
<1>6. ASSUME NEW r \in Runs, Expire(r) PROVE Claims' /\ Taken'
  BY <1>6 DEF Expire
<1>7. CASE Crash
  BY <1>t, <1>7 DEF Crash, TypeOK
<1>8. CASE Tick \/ OrphanExpires \/ Sweep \/ Echo \/ FindPending \/ CancelPending
  BY <1>8 DEF Tick, OrphanExpires, Sweep, Echo, FindPending, CancelPending
<1>9. CASE AiOff \/ AiOn \/ TtlExpires \/ UNCHANGED vars
  BY <1>9 DEF AiOff, AiOn, TtlExpires, vars
<1> QED
  BY <1>1, <1>2, <1>3, <1>4, <1>5, <1>6, <1>7, <1>8, <1>9 DEF Next

(* The reachable states all satisfy the invariant. *)
THEOREM InvHolds == Spec => []Inv
BY InitInv, NextInv, PTL DEF Spec

(* Every variable keeps to its type. *)
THEOREM TypeCorrect == Spec => []TypeOK
BY InvHolds, PTL DEF Inv

(* The optimistic claim takes no message up twice, whatever overlaps it and *)
(* in whatever order the inserts become visible.                            *)
THEOREM TakenUpOnceSafe == Spec => []TakenUpOnce
<1>1. Inv => TakenUpOnce
  BY DEF Inv, Taken, TakenUpOnce
<1> QED
  BY <1>1, InvHolds, PTL

-----------------------------------------------------------------------------
(***************************************************************************)
(* A pending message has a wake on its way.  The run that holds the job    *)
(* may end without one only if it found nothing pending, and what it read  *)
(* of the pointer is never ahead of it.                                    *)
(***************************************************************************)
Behind == \A r \in Runs : seen[r].pointer <= pointer

Covered == Behind /\ PendingIsCovered

(* At first nothing is pending. *)
LEMMA InitCovered == Init => Covered
BY NAssumption DEF Init, Covered, Behind, NothingSeen, PendingIsCovered, Pending, Stored

(* The pointer only climbs, and what is read of it lies behind it. *)
LEMMA NextBehind ==
  ASSUME Inv, Behind, [Next]_vars
  PROVE  Behind' /\ pointer <= pointer'
<1>t. TypeOK /\ pointer \in Nat
  BY NAssumption DEF Inv, TypeOK
<1> USE DEF Behind, messages, thread, queue, run, human, history, Goto
<1>1. ASSUME NEW r \in Runs, ReadContext(r) PROVE Behind' /\ pointer <= pointer'
  BY <1>t, <1>1 DEF ReadContext, TypeOK
<1>2. ASSUME NEW r \in Runs, ReadBatch(r) PROVE Behind' /\ pointer <= pointer'
  <2>1. seen'[r].pointer = seen[r].pointer /\ \A q \in Runs \ {r} : seen'[q] = seen[q]
    BY <1>t, <1>2, Snapshot DEF ReadBatch, TypeOK
  <2>2. pointer' = pointer
    BY <1>2 DEF ReadBatch
  <2> QED
    BY <1>t, <2>1, <2>2
<1>3. ASSUME NEW r \in Runs, WinClaim(r) PROVE Behind' /\ pointer <= pointer'
  <2>1. pointer < pointer' /\ pointer' \in Nat
    BY <1>t, <1>3, WinClaimEffect DEF TypeOK, Ids
  <2>2. \A q \in Runs : seen'[q] = NothingSeen \/ seen'[q] = seen[q]
    BY <1>t, <1>3 DEF WinClaim, PointerUnmoved, NewPointer, Forget, TypeOK
  <2>3. \A q \in Runs : seen[q].pointer \in Nat
    BY <1>t, NAssumption DEF TypeOK, Snapshots
  <2> QED
    BY <1>t, <2>1, <2>2, <2>3 DEF NothingSeen
<1>4. ASSUME NEW r \in Runs,
             \/ ReadNothing(r) \/ Requeue(r) \/ LoseClaim(r) \/ Settle(r) \/ Recheck(r) \/ Throw(r)
      PROVE  Behind' /\ pointer <= pointer'
  <2>1. pointer' = pointer /\ \A q \in Runs : seen'[q] = NothingSeen \/ seen'[q] = seen[q]
    BY <1>t, <1>4 DEF ReadNothing, Requeue, LoseClaim, Settle, Recheck, Throw, Return, RunEnds,
                      Forget, TypeOK
  <2> QED
    BY <1>t, <2>1 DEF NothingSeen
<1>5. CASE Crash
  BY <1>t, <1>5 DEF Crash, NothingSeen
<1>6. CASE UNCHANGED <<pointer, seen>>
  BY <1>t, <1>6
<1>7. \/ \E r \in Runs : ReadContext(r) \/ ReadBatch(r) \/ WinClaim(r) \/ ReadNothing(r) \/ Requeue(r)
                         \/ LoseClaim(r) \/ Settle(r) \/ Recheck(r) \/ Throw(r)
      \/ Crash
      \/ UNCHANGED <<pointer, seen>>
  BY DEF Next, vars, Arrive, Store, Wake, WakeFails, Fetch, RunStep, Expire, Tick, OrphanExpires,
         Sweep, Echo, FindPending, CancelPending, AiOff, AiOn, TtlExpires
<1> QED
  BY <1>1, <1>2, <1>3, <1>4, <1>5, <1>6, <1>7

(* Who ends a wake leaves another, or nothing to wake for. *)
LEMMA NextCovered ==
  ASSUME Inv, Covered, [Next]_vars
  PROVE  Covered'
<1>t. TypeOK /\ pointer \in Nat
  BY NAssumption DEF Inv, TypeOK
<1>b. Behind /\ Behind' /\ pointer <= pointer'
  BY NextBehind DEF Covered
<1> SUFFICES PendingIsCovered'
  BY <1>b DEF Covered
<1> USE DEF Covered, PendingIsCovered, messages, thread, queue, run, human, history, Goto
<1>0. ASSUME msg' = msg PROVE \A i \in Pending' : i \in Pending
  <2>1. pointer' \in Nat
    BY <1>t, NextTypeOK, NAssumption DEF Inv, TypeOK
  <2> SUFFICES ASSUME NEW i \in Ids, msg'[i] = "stored", i > pointer'
               PROVE  msg[i] = "stored" /\ i > pointer
    BY DEF Pending, Stored, Ids
  <2>2. i > pointer
    BY <1>t, <1>b, <2>1, NAssumption DEF Ids
  <2> QED
    BY <1>0, <2>2
<1>1. ASSUME NEW i \in Ids, Arrive(i) PROVE PendingIsCovered'
  BY <1>t, <1>1 DEF Arrive, Pending, Stored, TypeOK
<1>2. ASSUME NEW i \in Ids, Store(i) PROVE PendingIsCovered'
  BY <1>t, <1>2 DEF Store, Pending, Stored, TypeOK
<1>3. ASSUME NEW i \in Ids, Wake(i) \/ WakeFails(i) PROVE PendingIsCovered'
  BY <1>0, <1>3 DEF Wake, WakeFails, Enqueue
<1>4. ASSUME NEW r \in Runs, Fetch(r) PROVE PendingIsCovered'
  BY <1>t, <1>4, HolderAssumption DEF Fetch
<1>5. ASSUME NEW r \in Runs, ReadContext(r) \/ ReadBatch(r) \/ WinClaim(r) \/ LoseClaim(r) \/ Settle(r)
      PROVE  PendingIsCovered'
  BY <1>0, <1>5 DEF ReadContext, ReadBatch, WinClaim, PointerUnmoved, NewPointer, LoseClaim, Settle
<1>6. ASSUME NEW r \in Runs, ReadNothing(r) PROVE PendingIsCovered'
  <2>1. \A i \in Stored : i \in Int /\ seen[r].pointer \in Int
    BY <1>t, NAssumption DEF Stored, Ids, TypeOK, Snapshots
  <2>2. Pending' = {}
    BY <1>t, <1>b, <1>6, <2>1 DEF ReadNothing, Unprocessed, Pending, Stored, Behind
  <2> QED
    BY <2>2
<1>7. ASSUME NEW r \in Runs, Requeue(r) PROVE PendingIsCovered'
  BY <1>7 DEF Requeue, Enqueue
<1>8. ASSUME NEW r \in Runs, Recheck(r) PROVE PendingIsCovered'
  <2>1. Pending' = Pending
    BY <1>8 DEF Recheck, Pending, Stored
  <2> QED
    BY <1>8, <2>1 DEF Recheck, Enqueue
<1>9. ASSUME NEW r \in Runs, Throw(r) PROVE PendingIsCovered'
  BY <1>0, <1>9 DEF Throw, JobFails
<1>10. ASSUME NEW r \in Runs, Expire(r) PROVE PendingIsCovered'
  BY <1>0, <1>10 DEF Expire, JobFails
<1>11. CASE OrphanExpires
  BY <1>0, <1>11 DEF OrphanExpires, JobFails
<1>12. CASE Crash
  <2>1. \A i \in Pending' : i \in Pending
    BY <1>t, <1>12 DEF Crash, Pending, Stored, TypeOK
  <2>2. active # NoRun => active' # NoRun
    BY <1>t, <1>12, HolderAssumption DEF Crash
  <2> QED
    BY <1>12, <2>1, <2>2 DEF Crash
<1>13. CASE CancelPending
  BY <1>0, <1>13 DEF CancelPending
<1>14. CASE Sweep
  BY <1>14 DEF Sweep, Enqueue
<1>15. CASE Tick \/ Echo \/ FindPending \/ AiOff \/ AiOn \/ TtlExpires \/ UNCHANGED vars
  BY <1>0, <1>15 DEF Tick, Echo, FindPending, AiOff, AiOn, TtlExpires, vars
<1> QED
  BY <1>1, <1>2, <1>3, <1>4, <1>5, <1>6, <1>7, <1>8, <1>9, <1>10, <1>11, <1>12, <1>13, <1>14, <1>15
     DEF Next, RunStep

(* As long as no wake was lost, a pending message has one on its way: the   *)
(* sweep is a net, not the way messages are served.                         *)
THEOREM PendingIsCoveredSafe == Spec => []PendingIsCovered
<1>1. Inv /\ Covered /\ [Next]_vars => Covered'
  BY NextCovered
<1>2. Covered => PendingIsCovered
  BY DEF Covered
<1> QED
  BY InitCovered, InvHolds, <1>1, <1>2, PTL DEF Spec

-----------------------------------------------------------------------------
(***************************************************************************)
(* No message is skipped but one that was overtaken.  What becomes visible *)
(* below the last message of a batch, after the batch was read, becomes    *)
(* visible after that last message; and so does what becomes visible       *)
(* behind the pointer, which is itself a message.                          *)
(***************************************************************************)
Complete ==
  \A r \in Runs : pc[r] = "claim" =>
    \A i \in Stored, k \in batch[r] :
      seen[r].pointer < i /\ i <= k => i \in batch[r] \/ i \in overtaken

InOrder == Complete /\ NothingSkipped

(* At first nothing is out of order. *)
LEMMA InitInOrder == Init => InOrder
BY DEF Init, InOrder, Complete, NothingSkipped, Stored

(* No step puts the pointer out of order. *)
LEMMA NextInOrder ==
  ASSUME Inv, InOrder, [Next]_vars
  PROVE  InOrder'
<1>t. TypeOK
  BY DEF Inv
<1> SUFFICES Complete' /\ NothingSkipped'
  BY DEF InOrder
<1> USE DEF InOrder, Complete, NothingSkipped, Stored,
        messages, thread, queue, run, human, history, Goto
<1>1. ASSUME NEW i \in Ids, Arrive(i) PROVE Complete' /\ NothingSkipped'
  BY <1>t, <1>1 DEF Arrive, TypeOK
<1>2. ASSUME NEW i \in Ids, Store(i) PROVE Complete' /\ NothingSkipped'
  <2>1. /\ pointer' = pointer /\ turns' = turns /\ batch' = batch /\ seen' = seen /\ pc' = pc
        /\ Stored' = Stored \cup {i} /\ overtaken \subseteq overtaken'
        /\ \A k \in Stored : i < k => i \in overtaken'
    BY <1>t, <1>2 DEF Store, TypeOK
  <2>2. i \notin Stored
    BY <1>2 DEF Store
  <2>3. Complete'
    <3> SUFFICES ASSUME NEW r \in Runs, pc[r] = "claim", NEW j \in Stored',
                        NEW k \in batch[r], seen[r].pointer < j, j <= k
                 PROVE  j \in batch[r] \/ j \in overtaken'
      BY <2>1
    <3>1. CASE j \in Stored
      BY <2>1, <3>1
    <3>2. CASE j = i
      <4>1. k \in Stored
        BY DEF Inv, Claims
      <4> QED
        BY <2>1, <2>2, <3>2, <4>1 DEF Ids
    <3> QED
      BY <2>1, <3>1, <3>2
  <2>4. i <= pointer => i \in overtaken'
    <3>1. pointer = 0 \/ pointer \in Stored
      BY DEF Inv, Taken
    <3> QED
      BY <2>1, <2>2, <3>1, NAssumption DEF Ids
  <2>5. NothingSkipped'
    BY <2>1, <2>4
  <2> QED
    BY <2>3, <2>5
<1>3. ASSUME NEW r \in Runs, RunStep(r) PROVE Complete' /\ NothingSkipped'
  <2>1. CASE ReadContext(r)
    BY <1>t, <2>1 DEF ReadContext, TypeOK
  <2>2. CASE ReadNothing(r)
    BY <1>t, <2>2 DEF ReadNothing, Return, RunEnds, Forget, TypeOK
  <2>3. CASE Requeue(r)
    BY <1>t, <2>3 DEF Requeue, Return, RunEnds, Forget, TypeOK
  <2>4. CASE ReadBatch(r)
    <3>1. seen'[r].pointer = seen[r].pointer /\ \A q \in Runs \ {r} : seen'[q] = seen[q]
      BY <1>t, <2>4, Snapshot DEF ReadBatch, TypeOK
    <3>2. batch'[r] = Unprocessed(r) /\ \A q \in Runs \ {r} : batch'[q] = batch[q]
      BY <1>t, <2>4 DEF ReadBatch, TypeOK
    <3>3. \A q \in Runs \ {r} : pc'[q] = pc[q]
      BY <1>t, <2>4 DEF ReadBatch, TypeOK
    <3>4. UNCHANGED <<msg, turns, pointer, overtaken>>
      BY <2>4 DEF ReadBatch
    <3>5. Complete'
      BY <3>1, <3>2, <3>3, <3>4 DEF Unprocessed
    <3> QED
      BY <3>4, <3>5
  <2>5. CASE WinClaim(r)
    <3>1. Complete'
      BY <1>t, <2>5 DEF WinClaim, PointerUnmoved, NewPointer, Forget, TypeOK
    <3>2. NothingSkipped'
      <4> SUFFICES ASSUME NEW i \in Stored, i <= pointer' PROVE turns'[i] >= 1 \/ i \in overtaken
        BY <2>5 DEF WinClaim, PointerUnmoved, NewPointer
      <4>0. SUFFICES ASSUME i \notin overtaken PROVE turns'[i] >= 1
        OBVIOUS
      <4>1. CASE i <= pointer
        <5>1. turns[i] >= 1 /\ turns[i] \in Nat
          BY <1>t, <4>0, <4>1 DEF TypeOK
        <5>2. turns'[i] = IF i \in batch[r] THEN turns[i] + 1 ELSE turns[i]
          BY <2>5 DEF WinClaim, PointerUnmoved, NewPointer
        <5> QED
          BY <5>1, <5>2
      <4>2. CASE pointer < i
        <5>1. pointer' \in batch[r] /\ pc[r] = "claim" /\ pointer = seen[r].pointer
          BY <2>5, WinClaimEffect DEF WinClaim, PointerUnmoved, NewPointer
        <5>2. i \in batch[r]
          BY <4>0, <4>2, <5>1
        <5> QED
          BY <2>5, <5>2, WinClaimEffect
      <4> QED
        BY <1>t, <4>1, <4>2, NAssumption DEF TypeOK, Ids
    <3> QED
      BY <3>1, <3>2
  <2>6. CASE LoseClaim(r)
    BY <1>t, <2>6 DEF LoseClaim, Forget, TypeOK
  <2>7. CASE Settle(r)
    BY <1>t, <2>7 DEF Settle, TypeOK
  <2>8. CASE Recheck(r)
    BY <1>t, <2>8 DEF Recheck, Return, RunEnds, Forget, TypeOK
  <2> QED
    BY <1>3, <2>1, <2>2, <2>3, <2>4, <2>5, <2>6, <2>7, <2>8 DEF RunStep
<1>4. ASSUME NEW r \in Runs, Fetch(r) PROVE Complete' /\ NothingSkipped'
  BY <1>t, <1>4 DEF Fetch, TypeOK
<1>5. ASSUME NEW r \in Runs, Throw(r) PROVE Complete' /\ NothingSkipped'
  BY <1>t, <1>5 DEF Throw, RunEnds, Forget, TypeOK
<1>6. CASE Crash
  BY <1>t, <1>6 DEF Crash, TypeOK
<1>7. ASSUME NEW i \in Ids, Wake(i) \/ WakeFails(i) PROVE Complete' /\ NothingSkipped'
  BY <1>7 DEF Wake, WakeFails
<1>8. ASSUME NEW r \in Runs, Expire(r) PROVE Complete' /\ NothingSkipped'
  BY <1>8 DEF Expire
<1>9. CASE Tick \/ OrphanExpires \/ Sweep \/ Echo \/ FindPending \/ CancelPending
  BY <1>9 DEF Tick, OrphanExpires, Sweep, Echo, FindPending, CancelPending
<1>10. CASE AiOff \/ AiOn \/ TtlExpires \/ UNCHANGED vars
  BY <1>10 DEF AiOff, AiOn, TtlExpires, vars
<1> QED
  BY <1>1, <1>2, <1>3, <1>4, <1>5, <1>6, <1>7, <1>8, <1>9, <1>10 DEF Next

(* The pointer passes no stored message by but one that became visible      *)
(* after a younger one, in whatever order the inserts do.                   *)
THEOREM NothingSkippedSafe == Spec => []NothingSkipped
<1>1. Inv /\ InOrder /\ [Next]_vars => InOrder'
  BY NextInOrder
<1>2. InOrder => NothingSkipped
  BY DEF InOrder
<1> QED
  BY InitInOrder, InvHolds, <1>1, <1>2, PTL DEF Spec

-----------------------------------------------------------------------------
(***************************************************************************)
(* Which steps move what a guest or a colleague sees of the thread.        *)
(***************************************************************************)

(* Only AI ON ends an AI OFF: a claim's CASE acts on ai_active and cooloff. *)
THEOREM HoldEndsOnlyByStaffSafe == Spec => HoldEndsOnlyByStaff
<1>1. [Next]_vars => (status = "human_active" => status' = "human_active" \/ AiOn)
  <2> SUFFICES ASSUME [Next]_vars, status = "human_active"
               PROVE  status' = "human_active" \/ AiOn
    OBVIOUS
  <2>1. ASSUME NEW r \in Runs, WinClaim(r) PROVE status' = "human_active"
    BY <2>1 DEF WinClaim, PointerUnmoved, NewPointer, StatusAfter
  <2>2. CASE UNCHANGED status
    BY <2>2
  <2>3. CASE AiOff
    BY <2>3 DEF AiOff
  <2>4. \/ \E r \in Runs : WinClaim(r)
        \/ AiOff \/ AiOn
        \/ UNCHANGED status
    BY DEF Next, vars, thread, Arrive, Store, Wake, WakeFails, Fetch, RunStep, ReadContext,
           ReadNothing, Requeue, ReadBatch, LoseClaim, Settle, Recheck, Throw, Expire, Tick,
           OrphanExpires, Sweep, Crash, Echo, FindPending, CancelPending, TtlExpires
  <2> QED
    BY <2>1, <2>2, <2>3, <2>4
<1> QED
  BY <1>1, PTL DEF Spec, HoldEndsOnlyByStaff

(* Every step maps to a step of TurnTaking or to a stutter.                 *)
LEMMA StepTakesTurns ==
  ASSUME Inv, Inv', InOrder, [Next]_vars
  PROVE  [TT!TTNext]_(TT!ttVars)
<1> DEFINE T == {i \in Ids : turns[i] >= 1}
<1>t. TypeOK /\ TypeOK'
  BY DEF Inv
<1>n. pointer \in Int /\ pointer' \in Int /\ Ids = 1 .. N /\ \A i \in Ids : i \in Int
  BY <1>t DEF TypeOK, Ids
<1>p. /\ T \subseteq Stored /\ \A j \in T : j <= pointer
      /\ pointer = 0 \/ pointer \in T
  BY DEF Inv, Taken, Stored
<1>1. ASSUME NEW i \in Ids, Store(i) PROVE TT!Arrive(i) \/ TT!ArriveLate(i)
  <2>1. /\ Stored' = Stored \cup {i} /\ i \notin Stored
        /\ pointer' = pointer /\ T' = T /\ answered' = answered
        /\ overtaken' = IF \E j \in Stored : i < j THEN overtaken \cup {i} ELSE overtaken
    BY <1>t, <1>1 DEF Store, Stored, TypeOK, thread
  <2>2. Pending' = IF pointer < i THEN Pending \cup {i} ELSE Pending
    BY <1>n, <2>1 DEF Pending
  <2>3. i \notin Pending \cup T
    BY <1>p, <2>1 DEF Pending
  <2>4. pointer < i <=> ~ \E j \in T : i < j
    BY <1>n, <1>p, <2>3, NAssumption DEF Ids
  <2>5. (\E j \in Stored : i < j) <=> (\E j \in Pending \cup T : i < j)
    BY <1>n, <1>p DEF Pending, Stored
  <2>6. CASE \E j \in Stored : i < j
    <3>1. i \notin overtaken
      BY <2>1 DEF Inv, Taken
    <3> QED
      BY <2>1, <2>2, <2>3, <2>4, <2>5, <2>6, <3>1 DEF TT!ArriveLate
  <2>7. CASE ~ \E j \in Stored : i < j
    <3>1. \A j \in Pending \cup T : j < i
      BY <1>n, <1>p, <2>3, <2>5, <2>7 DEF Pending, Stored
    <3>2. pointer < i
      BY <2>4, <2>5, <2>7
    <3> QED
      BY <2>1, <2>2, <2>7, <3>1, <3>2 DEF TT!Arrive
  <2> QED
    BY <2>6, <2>7
<1>2. ASSUME NEW r \in Runs, WinClaim(r)
      PROVE  \E unseen \in SUBSET (1 .. N), replies \in BOOLEAN : TT!Turn(pointer', unseen, replies)
  <2> DEFINE reached == {i \in Pending : i <= pointer'}
             unseen == reached \ batch[r]
  <2>1. /\ pointer' \in batch[r] /\ pointer < pointer' /\ pointer = seen[r].pointer
        /\ batch[r] \subseteq Stored /\ pc[r] = "claim" /\ UNCHANGED <<msg, overtaken>>
        /\ \A i \in batch[r] : i <= pointer' /\ pointer < i
    BY <1>2, WinClaimEffect DEF Inv, Claims, WinClaim, PointerUnmoved, NewPointer
  <2>2. batch[r] \subseteq reached
    BY <2>1 DEF Pending
  <2>3. unseen \subseteq overtaken
    BY <2>1 DEF Pending, InOrder, Complete, Stored
  <2>4. Pending' = Pending \ reached
    <3>1. Stored' = Stored
      BY <2>1 DEF Stored
    <3> QED
      BY <1>n, <2>1, <3>1 DEF Pending, Stored
  <2>5. T' = T \cup batch[r]
    <3>1. \A i \in batch[r] : i \in Ids /\ turns'[i] >= 1
      BY <1>t, <1>2, WinClaimEffect DEF TypeOK
    <3>2. \A i \in Ids \ batch[r] : turns'[i] = turns[i]
      BY <1>2, WinClaimEffect
    <3> QED
      BY <3>1, <3>2
  <2>6. PICK replies \in BOOLEAN :
          answered' = IF replies THEN answered \cup batch[r] ELSE answered
    BY <1>2 DEF WinClaim, PointerUnmoved, NewPointer
  <2>7. batch[r] = reached \ unseen
    BY <2>2
  <2>8. unseen \in SUBSET (1 .. N)
    BY <1>n DEF Pending, Stored
  <2> HIDE DEF reached, unseen
  <2>9. TT!Turn(pointer', unseen, replies)
    BY <2>1, <2>3, <2>4, <2>5, <2>6, <2>7 DEF TT!Turn, reached
  <2> QED
    BY <2>8, <2>9
<1>3. CASE UNCHANGED <<pointer, turns, answered, overtaken>> /\ Stored' = Stored
  BY <1>3 DEF TT!ttVars, Pending
<1>4. \/ \E i \in Ids : Store(i)
      \/ \E r \in Runs : WinClaim(r)
      \/ UNCHANGED <<pointer, turns, answered, overtaken>> /\ Stored' = Stored
  <2>1. \/ \E i \in Ids : Store(i)
        \/ \E r \in Runs : WinClaim(r)
        \/ \E i \in Ids : Arrive(i)
        \/ Crash
        \/ UNCHANGED <<msg, pointer, turns, answered, overtaken>>
    BY DEF Next, vars, messages, thread, history, Wake, WakeFails, Fetch, RunStep,
           ReadContext, ReadNothing, Requeue, ReadBatch, LoseClaim, Settle, Recheck, Throw,
           Expire, Tick, OrphanExpires, Sweep, Echo, FindPending, CancelPending, AiOff, AiOn,
           TtlExpires
  <2>2. ASSUME NEW i \in Ids, Arrive(i)
        PROVE  UNCHANGED <<pointer, turns, answered, overtaken>> /\ Stored' = Stored
    BY <1>t, <2>2 DEF Arrive, thread, history, Stored, TypeOK
  <2>3. CASE Crash
    BY <1>t, <2>3 DEF Crash, thread, Stored, TypeOK
  <2>4. CASE UNCHANGED <<msg, pointer, turns, answered, overtaken>>
    BY <2>4 DEF Stored
  <2> QED
    BY <2>1, <2>2, <2>3, <2>4
<1>5. ASSUME NEW r \in Runs, WinClaim(r) PROVE TT!TTNext
  <2>1. pointer' \in 1 .. N
    BY <1>t, <1>5, WinClaimEffect DEF TypeOK, Ids
  <2> QED
    BY <1>2, <1>5, <2>1 DEF TT!TTNext
<1> QED
  BY <1>1, <1>3, <1>4, <1>5 DEF TT!TTNext, Ids

(* The conversation implements TurnTaking, in whatever order its inserts    *)
(* become visible.                                                          *)
THEOREM Implementation == Spec => ImplementsTurnTaking
<1> SUFFICES Spec => TT!TTSpec
  BY DEF ImplementsTurnTaking
<1>1. Init => TT!TTInit
  BY DEF Init, TT!TTInit, Pending, Stored
<1>2. Inv /\ Inv' /\ InOrder /\ [Next]_vars => [TT!TTNext]_(TT!ttVars)
  BY StepTakesTurns
<1>3. Inv /\ InOrder /\ [Next]_vars => InOrder'
  BY NextInOrder
<1> QED
  BY <1>1, <1>2, <1>3, InitInOrder, InvHolds, PTL DEF Spec, TT!TTSpec
=============================================================================
