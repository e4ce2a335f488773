----------------------------- MODULE OutboxProofs -----------------------------
(***************************************************************************)
(* Lifecycle implements Outbox, for every set of bookings, guests, sends,  *)
(* plans and overlapping ticks, and for every number of faults.            *)
(***************************************************************************)
EXTENDS LifecycleProofs

State == [s \in Sends |-> StateOf(s)]
Moved == UNION {rebound[k] : k \in Ticks}
Unasked == {cur[k] : k \in rearmed}
Wanting == {g \in Phones : consent[g] = "in"}

(* A tick has a row in hand from the gates to the post, and a mark on it    *)
(* only then.                                                               *)
Marked ==
  \A k \in Ticks :
    /\ pc[k] \in {"idle", "gates"} => cur[k] = Nobody
    /\ k \in rearmed => pc[k] \in {"guest", "cap", "claim", "post"}

-----------------------------------------------------------------------------
(* Marks are let go of with the row.                                        *)
LEMMA MarkedStep ==
  ASSUME Types, Planned, Withdrawn, Handling, Marked, [Next]_vars
  PROVE  Marked'
<1> USE DEF bookingVars, rowVars, guestVars, planVars, tickVars, sendHistory, marks, Types,
     RowTypes, TickTypes, PlanTypes, Handling, Marked
<1>0. Nobody \notin Sends
  BY SendsAssumption
<1>1. CASE Outside
  BY <1>1 DEF Outside
<1>2. ASSUME NEW k \in Ticks, NEW s \in Sends, SkipByMirror(k, s) PROVE Marked'
  BY <1>2 DEF SkipByMirror, NextRow, Done
<1>3. ASSUME NEW k \in Ticks, NEW s \in Sends, DeferByMirror(k, s) PROVE Marked'
  BY <1>3 DEF DeferByMirror, NextRow, Done
<1>4. ASSUME NEW k \in Ticks, NEW s \in Sends, PassMirror(k, s) PROVE Marked'
  BY <1>4 DEF PassMirror, NextRow
<1>5. ASSUME NEW k \in Ticks, SkipByGuest(k) PROVE Marked'
  BY <1>5 DEF SkipByGuest, Blocked, Drop, LetRowGo, Done
<1>6. ASSUME NEW k \in Ticks, PassConsent(k) PROVE Marked'
  BY <1>6 DEF PassConsent
<1>7. ASSUME NEW k \in Ticks, DeferByGuest(k) PROVE Marked'
  BY <1>7 DEF DeferByGuest, Drop, LetRowGo, Done
<1>8. ASSUME NEW k \in Ticks, PassGuest(k) PROVE Marked'
  BY <1>8 DEF PassGuest
<1>9. ASSUME NEW k \in Ticks, Claim(k) PROVE Marked'
  BY <1>9 DEF Claim
<1>10. ASSUME NEW k \in Ticks, LoseClaim(k) PROVE Marked'
  BY <1>10 DEF LoseClaim, Drop, LetRowGo, Done
<1>11. ASSUME NEW k \in Ticks, PostLands(k) PROVE Marked'
  BY <1>11 DEF PostLands, Drop, LetRowGo, Done
<1>12. ASSUME NEW k \in Ticks, ParamsRejected(k) PROVE Marked'
  BY <1>12 DEF ParamsRejected, Drop, LetRowGo, Done
<1>13. ASSUME NEW k \in Ticks, PostRetryable(k) PROVE Marked'
  <2>1. cur[k] \in Sends
    BY <1>13 DEF PostRetryable
  <2>2. \A j \in Ticks : j \in rearmed' => j # k /\ (j \in rearmed \/ cur[j] = cur[k])
    BY <1>13 DEF PostRetryable, ReArm
  <2>3. /\ cur' = [cur EXCEPT ![k] = Nobody]
        /\ pc' = [pc EXCEPT ![k] = IF batch'[k] = {} THEN "idle" ELSE "gates"]
    BY <1>13 DEF PostRetryable, LetRowGo, Done
  <2> QED
    BY <1>0, <2>1, <2>2, <2>3
<1>14. ASSUME NEW k \in Ticks, PostFails(k) PROVE Marked'
  BY <1>14 DEF PostFails, Drop, LetRowGo, Done
<1>15. ASSUME NEW k \in Ticks, NEW B \in SUBSET Due, TickReads(k, B) PROVE Marked'
  BY <1>15 DEF TickReads, Idle
<1>16. CASE Crash
  BY <1>16 DEF Crash
<1> QED
  BY Steps, <1>1, <1>2, <1>3, <1>4, <1>5, <1>6, <1>7, <1>8, <1>9, <1>10, <1>11, <1>12, <1>13,
     <1>14, <1>15, <1>16
     DEF TickStep

-----------------------------------------------------------------------------
(* What the changes of the rows look like to Outbox.                        *)

(* Pending rows that are decided without having gone have ended.            *)
LEMMA Ends ==
  ASSUME NEW S, NEW v \in {"skipped", "cancelled", "failed"},
         status' = [s \in Sends |-> IF s \in S /\ status[s] = "pending" THEN v ELSE status[s]]
  PROVE  State' = OB!Ended(S)
<1>1. \A s \in Sends : StateOf(s)' = IF s \in S /\ StateOf(s) = "open" THEN "ended" ELSE StateOf(s)
  BY DEF StateOf
<1>2. OB!Ended(S) = [s \in Sends |-> IF s \in S /\ State[s] = "open" THEN "ended" ELSE State[s]]
  BY DEF OB!Ended, State
<1>3. \A s \in Sends : State[s] = StateOf(s)
  BY DEF State
<1>4. State' = [s \in Sends |-> StateOf(s)']
  BY DEF State
<1> QED
  BY <1>1, <1>2, <1>3, <1>4

(* A row that changes is a send that does.                                  *)
LEMMA Changes ==
  ASSUME RowTypes, NEW s \in Sends, NEW v \in Statuses, status' = [status EXCEPT ![s] = v]
  PROVE  State' = [State EXCEPT ![s] = CASE v = "none" -> "none"
                                         [] v = "pending" -> "open"
                                         [] v = "sent" -> "gone"
                                         [] OTHER -> "ended"]
<1>1. \A t \in Sends : status'[t] = IF t = s THEN v ELSE status[t]
  BY DEF RowTypes
<1>2. \A t \in Sends \ {s} : StateOf(t)' = StateOf(t)
  BY <1>1 DEF StateOf
<1>3. StateOf(s)' = CASE v = "none" -> "none"
                      [] v = "pending" -> "open"
                      [] v = "sent" -> "gone"
                      [] OTHER -> "ended"
  BY <1>1 DEF StateOf
<1>4. State' = [t \in Sends |-> StateOf(t)']
  BY DEF State
<1> HIDE DEF StateOf
<1> QED
  BY <1>2, <1>3, <1>4 DEF State

(* Where no row changes, no send does. *)
LEMMA SameState == UNCHANGED status => UNCHANGED State
BY DEF State, StateOf

(* Where nothing was re-bound, nothing has moved. *)
LEMMA SameMoved == UNCHANGED rebound => UNCHANGED Moved
BY DEF Moved

(* Where no tick is marked anew or lets go, nothing more goes unasked. *)
LEMMA SameUnasked == UNCHANGED <<cur, rearmed>> => UNCHANGED Unasked
BY DEF Unasked

(* Where no consent changes, the same guests are willing. *)
LEMMA SameWanting == UNCHANGED consent => UNCHANGED Wanting
BY DEF Wanting

(* A tick that is done with a row lets go of its marks.                     *)
LEMMA Dropped ==
  ASSUME Types, Marked, NEW k \in Ticks, NEW s, Done(k, s),
         rearmed' \subseteq rearmed, k \notin rearmed'
  PROVE  Moved' \subseteq Moved /\ Unasked' \subseteq Unasked
<1>1. \A j \in Ticks : rebound'[j] \subseteq rebound[j]
  BY DEF Done, Types, TickTypes
<1>2. \A j \in rearmed' : j \in rearmed /\ cur'[j] = cur[j]
  BY DEF Done, Types, TickTypes
<1> QED
  BY <1>1, <1>2 DEF Moved, Unasked

-----------------------------------------------------------------------------
(* The steps of everyone but the ticks.                                     *)

Seen == <<State, guest, copies, doubts, withdrawn, Wanting, Moved, Unasked>>

(* Where nothing changes that Outbox knows of, it stutters.                 *)
LEMMA Stutters ==
  ASSUME UNCHANGED <<status, guest, copies, doubts, withdrawn, consent, rebound, cur, rearmed>>
  PROVE  UNCHANGED Seen
BY SameState, SameWanting, SameMoved, SameUnasked DEF Seen

(* An offer is a step of Outbox. *)
LEMMA Offered ==
  ASSUME NEW s \in Sends, NEW g \in Phones, OB!Offer(s, g)
  PROVE  OB!OBNext
<1>1. \E x \in Phones : OB!Offer(s, x)
  OBVIOUS
<1> QED
  BY <1>1, Zenon DEF OB!OBNext

(* What is done to one send. *)
LEMMA Handled ==
  ASSUME NEW s \in Sends, OB!Go(s) \/ OB!PutBack(s) \/ OB!Fail(s)
  PROVE  OB!OBNext
BY Zenon DEF OB!OBNext

(* What is done to several. *)
LEMMA Grouped ==
  ASSUME OB!End \/ OB!Land
  PROVE  OB!OBNext
BY Zenon DEF OB!OBNext

(* A plan, a sweep, a turn or eZee takes a step of Outbox, or none.         *)
LEMMA OutsideImplements ==
  ASSUME Inv, Marked,
         \/ \E b \in Bookings :
              \/ \E m \in Updates : BookingChanges(b, m)
              \/ BookingCancelled(b) \/ StayPasses(b) \/ CancelForBooking(b)
              \/ \E w \in Workers : TakePlanJob(w, b) \/ Reconcile(w, b)
         \/ \E w \in Workers : PlanStep(w) \/ PlanFails(w)
         \/ \E g \in Phones :
              FindLead(g) \/ CountLeads(g) \/ OptIn(g) \/ Stop(g)
              \/ \E s \in Sends : ScheduleLead(g, s)
         \/ \E s \in Sends : Age(s)
  PROVE  OB!OBNext \/ UNCHANGED Seen
<1> USE DEF bookingVars, rowVars, guestVars, planVars, tickVars, sendHistory, marks
<1>t. Types /\ Planned /\ RowTypes /\ BookingTypes /\ TickTypes /\ PlanTypes
  BY DEF Inv, Types
<1>1. ASSUME NEW b \in Bookings, NEW m \in Updates, BookingChanges(b, m)
      PROVE  OB!OBNext \/ UNCHANGED Seen
  <2>1. UNCHANGED <<status, guest, copies, doubts, consent, rebound, cur, rearmed>>
    BY <1>1 DEF BookingChanges
  <2>2. CASE withdrawn' = withdrawn
    BY <2>1, <2>2, Stutters
  <2>3. CASE withdrawn' = withdrawn \ {b}
    <3>1. OB!Revive(b)
      BY <2>1, <2>3, SameState, SameWanting, SameMoved, SameUnasked
         DEF OB!Revive, State, Wanting, Moved, Unasked
    <3> QED
      BY <3>1 DEF OB!OBNext
  <2> QED
    BY <1>1, <2>2, <2>3 DEF BookingChanges
<1>2. ASSUME NEW b \in Bookings,
             \/ BookingCancelled(b) \/ StayPasses(b)
             \/ \E w \in Workers : TakePlanJob(w, b) \/ Reconcile(w, b)
      PROVE  UNCHANGED Seen
  BY <1>2, Stutters DEF BookingCancelled, StayPasses, TakePlanJob, Reconcile
<1>3. ASSUME NEW b \in Bookings, status' = Revoke(b),
             withdrawn' = withdrawn \cup {b} \/ withdrawn' = withdrawn,
             UNCHANGED <<guest, copies, doubts, consent, rebound, cur, rearmed>>
      PROVE  OB!OBNext
  <2> DEFINE S == {s \in Sends : BookingOf[s] = b}
  <2>1. status' = [s \in Sends |->
         IF s \in S /\ status[s] = "pending" THEN "cancelled" ELSE status[s]]
    BY <1>3 DEF Revoke, Of, Pending
  <2>2. State' = OB!Ended(S)
    <3> HIDE DEF S
    <3> QED
      BY <2>1, Ends
  <2>3. UNCHANGED <<Wanting, Moved, Unasked>>
    BY <1>3, SameWanting, SameMoved, SameUnasked
  <2>4. CASE withdrawn' = withdrawn \cup {b}
    <3>1. OB!Withdraw(b)
      BY <1>3, <2>2, <2>3, <2>4 DEF OB!Withdraw, State, Wanting, Moved, Unasked
    <3> QED
      BY <3>1 DEF OB!OBNext
  <2>5. CASE withdrawn' = withdrawn
    <3>1. S \in SUBSET Sends
      OBVIOUS
    <3>2. OB!End
      <4> HIDE DEF S
      <4> QED
        BY <1>3, <2>2, <2>3, <2>5, <3>1 DEF OB!End, OB!LetGo, State, Wanting, Moved, Unasked
    <3> QED
      BY <3>2, Grouped
  <2> QED
    BY <1>3, <2>4, <2>5
<1>4. ASSUME NEW b \in Bookings, CancelForBooking(b) PROVE OB!OBNext
  BY <1>3, <1>4 DEF CancelForBooking
<1>5. ASSUME NEW w \in Workers, RevokeForPlan(w) PROVE OB!OBNext
  <2>1. booking[w] \in Bookings
    BY <1>t, <1>5 DEF RevokeForPlan, Planning, PlanTypes
  <2> QED
    BY <1>3, <1>5, <2>1 DEF RevokeForPlan
<1>6. ASSUME NEW w \in Workers, LeavesAsIs(w) \/ PlanFails(w) PROVE UNCHANGED Seen
  BY <1>6, Stutters DEF LeavesAsIs, PlanFails
<1>7. ASSUME NEW w \in Workers, Plan(w) PROVE OB!OBNext
  <2> DEFINE S == {s \in Sends : KindOf[s] = "lead_followup" /\ guest[s] = snap[w].phone}
  <2>1. status' = [s \in Sends |->
         IF s \in S /\ status[s] = "pending" THEN "cancelled" ELSE status[s]]
    BY <1>7 DEF Plan
  <2>2. State' = OB!Ended(S)
    <3> HIDE DEF S
    <3> QED
      BY <2>1, Ends
  <2>3. UNCHANGED <<Wanting, Moved, Unasked, guest, copies, doubts, withdrawn>>
    BY <1>7, SameWanting, SameMoved, SameUnasked DEF Plan
  <2>4. S \in SUBSET Sends
    OBVIOUS
  <2>5. OB!End
    <3> HIDE DEF S
    <3> QED
      BY <2>2, <2>3, <2>4 DEF OB!End, OB!LetGo, State, Wanting, Moved, Unasked
  <2> QED
    BY <2>5, Grouped
<1>8. ASSUME NEW w \in Workers, NEW s \in Sends, WriteSend(w, s)
      PROVE  OB!OBNext \/ UNCHANGED Seen
  <2>1. UNCHANGED <<copies, doubts, withdrawn, consent, cur, rearmed>>
    BY <1>8 DEF WriteSend
  <2>2. CASE Writable(s)
    <3>1. /\ status' = [status EXCEPT ![s] = "pending"]
          /\ guest' = [guest EXCEPT ![s] = snap[w].phone]
      BY <1>8, <2>2 DEF WriteSend, Bind
    <3>2. State' = [State EXCEPT ![s] = "open"]
      BY <1>t, <3>1, Changes DEF Statuses
    <3>3. State[s] \in {"none", "open"}
      BY <2>2 DEF Writable, State, StateOf
    <3>4. Moved' \subseteq Moved \cup {s}
      <4>1. \A k \in Ticks : rebound'[k] \subseteq rebound[k] \cup {s}
        BY <1>8, <2>2 DEF WriteSend
      <4> QED
        BY <4>1 DEF Moved
    <3>5. PICK g \in Phones : g = snap[w].phone
      BY <1>t, <1>8 DEF WriteSend, Planned
    <3>6. OB!Offer(s, g)
      BY <2>1, <3>1, <3>2, <3>3, <3>4, <3>5, SameWanting, SameUnasked
         DEF OB!Offer, State, Wanting, Moved, Unasked
    <3> QED
      BY <3>6, Offered
  <2>3. CASE ~Writable(s)
    <3>1. UNCHANGED <<status, guest, rebound>>
      BY <1>8, <2>3 DEF WriteSend
    <3> QED
      BY <2>1, <3>1, Stutters
  <2> QED
    BY <2>2, <2>3
<1>9. ASSUME NEW g \in Phones, FindLead(g) \/ CountLeads(g) PROVE UNCHANGED Seen
  BY <1>9, Stutters DEF FindLead, CountLeads
<1>10. ASSUME NEW g \in Phones, OptIn(g) PROVE OB!OBNext
  <2>1. UNCHANGED <<status, guest, copies, doubts, withdrawn, rebound, cur, rearmed>>
    BY <1>10 DEF OptIn
  <2>2. Wanting' = Wanting \cup {g}
    BY <1>t, <1>10 DEF OptIn, Wanting, RowTypes
  <2>3. OB!OptIn(g)
    BY <2>1, <2>2, SameState, SameMoved, SameUnasked DEF OB!OptIn, State, Wanting, Moved, Unasked
  <2> QED
    BY <2>3 DEF OB!OBNext
<1>11. ASSUME NEW g \in Phones, Stop(g) PROVE OB!OBNext
  <2> DEFINE S == {s \in {t \in Sends : KindOf[t] \in MARKETING_KINDS} : guest[s] = g}
  <2>1. status' = [s \in Sends |->
         IF s \in S /\ status[s] = "pending" THEN "cancelled" ELSE status[s]]
    BY <1>11 DEF Stop, Pending
  <2>2. State' = OB!Ended(S)
    <3> HIDE DEF S
    <3> QED
      BY <2>1, Ends
  <2>3. UNCHANGED <<guest, copies, doubts, withdrawn, rebound, cur, rearmed>>
    BY <1>11 DEF Stop
  <2>4. Wanting' = Wanting \ {g}
    BY <1>t, <1>11 DEF Stop, Wanting, RowTypes
  <2>5. OB!Stop(g)
    BY <2>2, <2>3, <2>4, SameMoved, SameUnasked DEF OB!Stop, State, Wanting, Moved, Unasked
  <2> QED
    BY <2>5 DEF OB!OBNext
<1>12. ASSUME NEW g \in Phones, NEW s \in Sends, ScheduleLead(g, s)
       PROVE  OB!OBNext \/ UNCHANGED Seen
  <2>1. UNCHANGED <<guest, copies, doubts, withdrawn, consent, rebound, cur, rearmed>>
    BY <1>12 DEF ScheduleLead
  <2>2. CASE status' = [status EXCEPT ![s] = "pending"] /\ Writable(s)
    <3>1. State' = [State EXCEPT ![s] = "open"] /\ State[s] \in {"none", "open"}
      BY <1>t, <2>2, Changes DEF Statuses, State, StateOf, Writable
    <3>2. PICK x \in Phones : guest' = [guest EXCEPT ![s] = x]
      BY <1>t, <2>1 DEF RowTypes
    <3>3. OB!Offer(s, x)
      BY <2>1, <3>1, <3>2, SameWanting, SameMoved, SameUnasked
         DEF OB!Offer, State, Wanting, Moved, Unasked
    <3> QED
      BY <3>3, Offered
  <2>3. CASE UNCHANGED status
    BY <2>1, <2>3, Stutters
  <2> QED
    BY <1>12, <2>2, <2>3 DEF ScheduleLead
<1>13. ASSUME NEW s \in Sends, Age(s) PROVE UNCHANGED Seen
  BY <1>13, Stutters DEF Age
<1> QED
  BY <1>1, <1>2, <1>4, <1>5, <1>6, <1>7, <1>8, <1>9, <1>10, <1>11, <1>12, <1>13 DEF PlanStep

-----------------------------------------------------------------------------
(* The steps of a tick. *)

(* A tick ends sends, or none, and lets go of the row in hand.              *)
LEMMA EndsWith ==
  ASSUME Types, Marked, NEW k \in Ticks, NEW s \in Sends, NEW S \in SUBSET Sends,
         State' = OB!Ended(S), Done(k, s), rearmed' \subseteq rearmed, k \notin rearmed',
         UNCHANGED <<guest, copies, doubts, withdrawn, consent>>
  PROVE  OB!OBNext
<1>1. Moved' \subseteq Moved /\ Unasked' \subseteq Unasked
  BY Dropped
<1>2. UNCHANGED Wanting
  BY SameWanting
<1>3. OB!End
  BY <1>1, <1>2 DEF OB!End, OB!LetGo, State, Wanting, Moved, Unasked
<1> QED
  BY <1>3, Grouped

(* A verdict over the row in hand ends its send. *)
LEMMA ResolvesAway ==
  ASSUME Types, Marked, NEW k \in Ticks, NEW s \in Sends, NEW v \in {"skipped", "failed"},
         Resolve(s, v), Done(k, s), rearmed' \subseteq rearmed, k \notin rearmed',
         UNCHANGED <<guest, copies, doubts, withdrawn, consent>>
  PROVE  OB!OBNext
<1> DEFINE S == {s}
<1>1. status' = [t \in Sends |-> IF t \in S /\ status[t] = "pending" THEN v ELSE status[t]]
  BY DEF Resolve, Pending, Types, RowTypes
<1>2. S \in SUBSET Sends
  OBVIOUS
<1> HIDE DEF S
<1>3. State' = OB!Ended(S)
  BY <1>1, Ends
<1> QED
  BY <1>2, <1>3, EndsWith

(* A row that is left as it is ends nothing. *)
LEMMA LetsGo ==
  ASSUME Types, Marked, NEW k \in Ticks, NEW s \in Sends, Done(k, s),
         rearmed' \subseteq rearmed, k \notin rearmed',
         UNCHANGED <<status, guest, copies, doubts, withdrawn, consent>>
  PROVE  OB!OBNext
<1>1. UNCHANGED State
  BY SameState
<1>2. OB!Ended({}) = State
  BY DEF OB!Ended, State
<1> QED
  BY <1>1, <1>2, EndsWith

(* What the gates, the guest and the claim decide. *)
LEMMA GatesImplement ==
  ASSUME Inv, Marked, NEW k \in Ticks,
         \/ \E s \in Sends : SkipByMirror(k, s) \/ DeferByMirror(k, s) \/ PassMirror(k, s)
         \/ SkipByGuest(k) \/ PassConsent(k) \/ DeferByGuest(k) \/ PassGuest(k)
         \/ ParamsRejected(k) \/ LoseClaim(k) \/ \E B \in SUBSET Due : TickReads(k, B)
  PROVE  OB!OBNext \/ UNCHANGED Seen
<1> USE DEF bookingVars, rowVars, guestVars, planVars, tickVars, sendHistory, marks
<1>t. Types /\ TickTypes /\ Handling
  BY DEF Inv, Types
<1>1. ASSUME NEW s \in Sends, SkipByMirror(k, s) PROVE OB!OBNext
  <2>1. Resolve(s, "skipped") /\ Done(k, s)
    BY <1>1 DEF SkipByMirror
  <2>2. UNCHANGED <<guest, copies, doubts, withdrawn, consent, rearmed>> /\ k \notin rearmed
    BY <1>1 DEF SkipByMirror, NextRow, Marked
  <2> QED
    BY <1>t, <2>1, <2>2, ResolvesAway
<1>2. ASSUME NEW s \in Sends, DeferByMirror(k, s) PROVE OB!OBNext
  <2>1. Done(k, s)
    BY <1>2 DEF DeferByMirror
  <2>2. UNCHANGED <<status, guest, copies, doubts, withdrawn, consent, rearmed>>
    BY <1>2 DEF DeferByMirror
  <2>3. k \notin rearmed
    BY <1>2 DEF DeferByMirror, NextRow, Marked
  <2> QED
    BY <1>t, <2>1, <2>2, <2>3, LetsGo
<1>3. ASSUME NEW s \in Sends, PassMirror(k, s) PROVE UNCHANGED Seen
  <2>1. UNCHANGED <<status, guest, copies, doubts, withdrawn, consent, rebound, rearmed>>
    BY <1>3 DEF PassMirror
  <2>2. k \notin rearmed /\ cur' = [cur EXCEPT ![k] = s]
    BY <1>3 DEF PassMirror, NextRow, Marked
  <2>3. UNCHANGED Unasked
    <3>1. \A j \in rearmed : cur'[j] = cur[j]
      BY <1>t, <2>2 DEF TickTypes
    <3> QED
      BY <2>1, <3>1 DEF Unasked
  <2> QED
    BY <2>1, <2>3, SameState, SameWanting, SameMoved DEF Seen
<1>4. ASSUME SkipByGuest(k) \/ DeferByGuest(k) \/ ParamsRejected(k) \/ LoseClaim(k)
      PROVE  OB!OBNext
  <2>1. PICK s \in Sends : s = cur[k]
    BY <1>t, <1>4 DEF SkipByGuest, Blocked, DeferByGuest, ParamsRejected, LoseClaim, Handling
  <2>2. Done(k, s)
    BY <1>4, <2>1
       DEF SkipByGuest, DeferByGuest, ParamsRejected, LoseClaim, Drop, LetRowGo, Done
  <2>3. rearmed' \subseteq rearmed /\ k \notin rearmed'
    BY <1>4 DEF SkipByGuest, DeferByGuest, ParamsRejected, LoseClaim, Drop
  <2>4. UNCHANGED <<guest, copies, doubts, withdrawn, consent>>
    BY <1>4 DEF SkipByGuest, DeferByGuest, ParamsRejected, LoseClaim
  <2>5. CASE UNCHANGED status
    BY <1>t, <2>2, <2>3, <2>4, <2>5, LetsGo
  <2>6. CASE \E v \in {"skipped", "failed"} : Resolve(s, v)
    <3>1. PICK v \in {"skipped", "failed"} : Resolve(s, v)
      BY <2>6
    <3> QED
      BY <1>t, <2>2, <2>3, <2>4, <3>1, ResolvesAway
  <2>7. UNCHANGED status \/ \E v \in {"skipped", "failed"} : Resolve(s, v)
    BY <1>4, <2>1 DEF SkipByGuest, DeferByGuest, ParamsRejected, LoseClaim, Resolve
  <2> QED
    BY <2>5, <2>6, <2>7
<1>5. ASSUME PassConsent(k) \/ PassGuest(k) \/ \E B \in SUBSET Due : TickReads(k, B)
      PROVE  UNCHANGED Seen
  BY <1>5, Stutters DEF PassConsent, PassGuest, TickReads
<1> QED
  BY <1>1, <1>2, <1>3, <1>4, <1>5

(* A claim is what lets a message go. *)
LEMMA ClaimImplements ==
  ASSUME Inv, Marked, NEW k \in Ticks, Claim(k)
  PROVE  OB!OBNext
<1> USE DEF bookingVars, rowVars, guestVars, planVars, tickVars, sendHistory, marks
<1>t. Types /\ RowTypes /\ TickTypes /\ Handling /\ Alive /\ Willing
  BY DEF Inv, Types
<1>1. PICK s \in Sends : s = cur[k]
  BY <1>t DEF Claim, Handling
<1>2. pc[k] = "claim" /\ status[s] = "pending" /\ status' = [status EXCEPT ![s] = "sent"]
  BY <1>1 DEF Claim, Claimable
<1>3. UNCHANGED <<guest, copies, doubts, withdrawn, consent, rebound, cur, rearmed>>
  BY DEF Claim
<1>4. State[s] = "open" /\ State' = [State EXCEPT ![s] = "gone"]
  BY <1>t, <1>2, Changes DEF Statuses, State, StateOf
<1>5. k \in rearmed => s \in Unasked
  BY <1>1 DEF Unasked
<1>6. s \in rebound[k] => s \in Moved
  BY DEF Moved
<1>7. BookingOf[s] \in withdrawn => s \in Unasked
  BY <1>t, <1>1, <1>2, <1>5 DEF Alive
<1>8. KindOf[s] \in MARKETING_KINDS => guest[s] \in Wanting \/ s \in Moved \cup Unasked
  <2>1. PICK g \in Phones : g = guest[s]
    BY <1>t DEF RowTypes
  <2> QED
    BY <1>t, <1>1, <1>2, <1>5, <1>6, <2>1 DEF Willing, Wanting
<1>9. OB!Go(s)
  BY <1>3, <1>4, <1>7, <1>8, SameWanting, SameMoved, SameUnasked
     DEF OB!Go, State, Wanting, Moved, Unasked
<1> QED
  BY <1>9, Handled

(* What comes of a post. *)
LEMMA PostImplements ==
  ASSUME Inv, Marked, NEW k \in Ticks, PostLands(k) \/ PostRetryable(k) \/ PostFails(k)
  PROVE  OB!OBNext
<1> USE DEF bookingVars, rowVars, guestVars, planVars, tickVars, sendHistory, marks
<1>t. Types /\ RowTypes /\ TickTypes /\ Handling /\ Posting /\ Copies
  BY DEF Inv, Types
<1>1. PICK s \in Sends : s = cur[k]
  BY <1>t DEF PostLands, PostRetryable, PostFails, Handling
<1>2. pc[k] = "post" /\ status[s] = "sent" /\ copies[s] <= doubts[s]
  BY <1>t, <1>1 DEF PostLands, PostRetryable, PostFails, Posting, Copies, Landed
<1>3. OB!UnderWay(s)
  BY <1>2 DEF OB!UnderWay, StateOf
<1>4. UNCHANGED <<guest, withdrawn, consent>> /\ UNCHANGED Wanting
  BY SameWanting DEF PostLands, PostRetryable, PostFails
<1>5. Done(k, s)
  BY <1>1 DEF PostLands, PostRetryable, PostFails, Drop, LetRowGo, Done
<1>6. CASE PostLands(k)
  <2>1. rearmed' \subseteq rearmed /\ k \notin rearmed'
    BY <1>6 DEF PostLands, Drop
  <2>2. Moved' \subseteq Moved /\ Unasked' \subseteq Unasked
    BY <1>t, <1>5, <2>1, Dropped
  <2>3. copies' = [t \in Sends |-> IF t \in {s} THEN copies[t] + 1 ELSE copies[t]]
    BY <1>t, <1>1, <1>6 DEF PostLands, Posted, Copies
  <2>4. UNCHANGED State /\ UNCHANGED doubts
    BY <1>6, SameState DEF PostLands
  <2>5. {s} \in SUBSET {t \in Sends : OB!UnderWay(t)}
    BY <1>3
  <2>6. OB!Land
    BY <1>4, <2>2, <2>3, <2>4, <2>5 DEF OB!Land, OB!LetGo, State, Wanting, Moved, Unasked
  <2> QED
    BY <2>6, Grouped
<1>7. CASE PostRetryable(k)
  <2>1. UNCHANGED State \/ State' = [State EXCEPT ![s] = "open"]
    <3>1. UNCHANGED status \/ status' = [status EXCEPT ![s] = "pending"]
      BY <1>1, <1>7 DEF PostRetryable, ReArm
    <3> QED
      BY <1>t, <3>1, SameState, Changes DEF Statuses
  <2>2. \/ UNCHANGED <<copies, doubts>>
        \/ /\ copies' = [copies EXCEPT ![s] = @ + 1]
           /\ doubts' = [doubts EXCEPT ![s] = @ + 1]
    BY <1>1, <1>7 DEF PostRetryable, Posted
  <2>3. Moved' \subseteq Moved
    BY <1>t, <1>5 DEF Moved, Done, TickTypes
  <2>4. Unasked' \subseteq Unasked \cup {s}
    <3>1. \A j \in rearmed' : j # k /\ (j \in rearmed \/ cur[j] = s)
      BY <1>1, <1>7 DEF PostRetryable, ReArm
    <3>2. \A j \in Ticks \ {k} : cur'[j] = cur[j]
      BY <1>t, <1>5 DEF Done, TickTypes
    <3>3. rearmed' \subseteq Ticks
      BY <1>t, <1>7 DEF PostRetryable, ReArm, TickTypes
    <3> QED
      BY <3>1, <3>2, <3>3 DEF Unasked
  <2>5. OB!PutBack(s)
    BY <1>3, <1>4, <2>1, <2>2, <2>3, <2>4 DEF OB!PutBack, State, Wanting, Moved, Unasked
  <2> QED
    BY <2>5, Handled
<1>8. CASE PostFails(k)
  <2>1. rearmed' \subseteq rearmed /\ k \notin rearmed'
    BY <1>8 DEF PostFails, Drop
  <2>2. Moved' \subseteq Moved /\ Unasked' \subseteq Unasked
    BY <1>t, <1>5, <2>1, Dropped
  <2>3. status' = [status EXCEPT ![s] = "failed"]
    BY <1>1, <1>8 DEF PostFails
  <2>4. State' = [State EXCEPT ![s] = "ended"]
    BY <1>t, <2>3, Changes DEF Statuses
  <2>5. UNCHANGED <<copies, doubts>>
    BY <1>8 DEF PostFails
  <2>6. OB!Fail(s)
    BY <1>3, <1>4, <2>2, <2>4, <2>5 DEF OB!Fail, OB!LetGo, State, Wanting, Moved, Unasked
  <2> QED
    BY <2>6, Handled
<1> QED
  BY <1>6, <1>7, <1>8

(* A crash lets land what was under way, each send once.                    *)
LEMMA CrashImplements ==
  ASSUME Inv, Marked, Crash
  PROVE  OB!OBNext
<1> USE DEF bookingVars, rowVars, guestVars, planVars, tickVars, sendHistory, marks
<1>t. Types /\ RowTypes /\ TickTypes /\ Handling /\ Posting /\ Copies
  BY DEF Inv, Types
<1>1. PICK landed \in SUBSET {k \in Ticks : pc[k] = "post"} :
        copies' = [s \in Sends |-> copies[s] + Cardinality({k \in landed : cur[k] = s})]
  BY DEF Crash
<1> DEFINE S == {s \in Sends : \E k \in landed : cur[k] = s}
           L(s) == {k \in landed : cur[k] = s}
<1>2. \A s \in S : OB!UnderWay(s)
  BY <1>t DEF OB!UnderWay, StateOf, Posting, Copies, Landed
<1>3. ASSUME NEW s \in Sends
      PROVE  copies'[s] = IF s \in S THEN copies[s] + 1 ELSE copies[s]
  <2>0. copies'[s] = copies[s] + Cardinality(L(s)) /\ copies[s] \in Nat
    BY <1>t, <1>1 DEF Copies
  <2>1. CASE s \in S
    <3>1. PICK k \in landed : cur[k] = s
      BY <2>1
    <3>2. L(s) = {k}
      BY <1>t, <3>1 DEF Posting
    <3>3. Cardinality({k}) = 1
      BY FS_Singleton
    <3> QED
      BY <2>0, <2>1, <3>2, <3>3
  <2>2. CASE s \notin S
    <3>1. L(s) = {}
      BY <2>2
    <3>2. Cardinality({}) = 0
      BY FS_EmptySet
    <3> QED
      BY <2>0, <2>2, <3>1, <3>2
  <2> QED
    BY <2>1, <2>2
<1>4. S \in SUBSET {s \in Sends : OB!UnderWay(s)}
  BY <1>2
<1> HIDE DEF S
<1>5. copies' = [s \in Sends |-> IF s \in S THEN copies[s] + 1 ELSE copies[s]]
  BY <1>1, <1>3
<1>6. Moved' = {} /\ Unasked' = {}
  BY DEF Crash, Moved, Unasked
<1>7. UNCHANGED <<status, guest, doubts, withdrawn, consent>>
  BY DEF Crash
<1>8. OB!Land
  BY <1>4, <1>5, <1>6, <1>7, SameState, SameWanting
     DEF OB!Land, OB!LetGo, State, Wanting, Moved, Unasked
<1> QED
  BY <1>8, Grouped

-----------------------------------------------------------------------------
(* Every step is one of Outbox or a stutter. *)
LEMMA StepImplements ==
  ASSUME Inv, Marked, [Next]_vars
  PROVE  OB!OBNext \/ UNCHANGED Seen
<1> USE DEF bookingVars, rowVars, guestVars, planVars, tickVars, sendHistory, marks
<1>1. CASE UNCHANGED vars
  BY <1>1, Stutters DEF vars
<1>2. CASE Crash
  BY <1>2, CrashImplements
<1>3. ASSUME NEW k \in Ticks,
             \/ TickStep(k) \/ ParamsRejected(k) \/ PostRetryable(k) \/ PostFails(k)
             \/ \E B \in SUBSET Due : TickReads(k, B)
      PROVE  OB!OBNext \/ UNCHANGED Seen
  BY <1>3, GatesImplement, ClaimImplements, PostImplements DEF TickStep
<1> QED
  BY <1>1, <1>2, <1>3, OutsideImplements DEF Next

(* An Outbox starts with what has gone and what is open.  *)
LEMMA InitImplements == Init => OB!OBInit /\ Marked
<1> SUFFICES ASSUME Init PROVE OB!OBInit /\ Marked
  OBVIOUS
<1>1. Marked
  BY DEF Init, Marked
<1>2. Types
  BY InitInv DEF Inv
<1>3. State \in [Sends -> {"none", "open", "gone"}]
  <2>1. \A s \in Sends : status[s] \in {"none", "pending", "sent"}
    BY DEF Init
  <2> QED
    BY <2>1 DEF State, StateOf
<1>4. copies = [s \in Sends |-> IF State[s] = "gone" THEN 1 ELSE 0]
  <2>1. \A s \in Sends : State[s] = "gone" <=> s \in Thanked
    BY DEF Init, State, StateOf
  <2>2. copies = [s \in Sends |-> IF s \in Thanked THEN 1 ELSE 0]
    BY DEF Init
  <2> QED
    BY <2>1, <2>2
<1>5. guest \in [Sends -> Phones] /\ Wanting \subseteq Phones
  BY <1>2 DEF Types, RowTypes, Wanting
<1>6. doubts = [s \in Sends |-> 0] /\ withdrawn = {} /\ Moved = {} /\ Unasked = {}
  BY DEF Init, Moved, Unasked
<1> QED
  BY <1>1, <1>3, <1>4, <1>5, <1>6 DEF OB!OBInit, State, Wanting, Moved, Unasked

(* Every behaviour of the lifecycle (plans, sweeps, ticks that overlap,     *)
(* lost claims, retries, STOPs, cancels, crashes) is one of Outbox: each    *)
(* message goes out or ends, at most once but for doubts, and nothing goes  *)
(* that was taken back (scheduler.ts, sender.ts, sendGuards.ts).            *)
THEOREM Implementation == Spec => ImplementsOutbox
<1> SUFFICES Spec => OB!OBSpec
  BY DEF ImplementsOutbox
<1>1. Init => OB!OBInit /\ Marked
  BY InitImplements
<1>2. Inv /\ Marked /\ [Next]_vars => Marked'
  BY MarkedStep DEF Inv
<1>3. Inv /\ Marked /\ [Next]_vars => [OB!OBNext]_OB!obVars
  <2> SUFFICES ASSUME Inv, Marked, [Next]_vars PROVE [OB!OBNext]_OB!obVars
    OBVIOUS
  <2>1. UNCHANGED Seen => UNCHANGED OB!obVars
    BY DEF Seen, OB!obVars, State, Wanting, Moved, Unasked
  <2> QED
    BY <2>1, StepImplements
<1> QED
  BY <1>1, <1>2, <1>3, Inductive, PTL DEF Spec, OB!OBSpec
=============================================================================
