---------------------------- MODULE LifecycleProofs ----------------------------
(***************************************************************************)
(* Theorems about scheduled messages, for every set of bookings, guests    *)
(* and sends, and for any number of overlapping plans, ticks, faults and   *)
(* changes of a booking.                                                   *)
(***************************************************************************)
EXTENDS Lifecycle, FiniteSetTheorems, TLAPS

-----------------------------------------------------------------------------
(* Types. *)

BookingTypes ==
  /\ mirror \in [Bookings -> MirrorRows]
  /\ planJobs \subseteq Bookings /\ cancelJobs \subseteq Bookings
  /\ events \in 0 .. MaxEvents /\ faults \in 0 .. MaxFaults
  /\ withdrawn \subseteq Bookings

RowTypes ==
  /\ status \in [Sends -> Statuses]
  /\ guest \in [Sends -> Phones]
  /\ clock \in [Sends -> {"early", "due", "late"}]
  /\ consent \in [Phones -> {"none", "in", "out"}]
  /\ leads \subseteq Phones /\ counted \subseteq Phones

PlanTypes ==
  /\ booking \in [Workers -> Bookings \cup {Nobody}]
  /\ snap \in [Workers -> MirrorRows]
  /\ todo \in [Workers -> SUBSET Sends]

TickTypes ==
  /\ batch \in [Ticks -> SUBSET Sends]
  /\ seen \in [Ticks -> [Sends -> Phones \cup {Nobody}]]
  /\ cur \in [Ticks -> Sends \cup {Nobody}]
  /\ pc \in [Ticks -> {"idle", "gates", "guest", "cap", "claim", "post"}]
  /\ rebound \in [Ticks -> SUBSET Sends] /\ rearmed \subseteq Ticks
  /\ strayed \subseteq Sends
  /\ overruns \in 0 .. MaxOverruns

Types == BookingTypes /\ RowTypes /\ PlanTypes /\ TickTypes

(* A plan that is being written is one for somebody. *)
Planned ==
  \A w \in Workers :
    /\ booking[w] = Nobody => todo[w] = {}
    /\ todo[w] # {} => snap[w].phone \in Phones

(***************************************************************************)
(* What a tick has in hand is a row, and what it posts is claimed, by no   *)
(* other.                                                                  *)
(***************************************************************************)
Handling ==
  \A k \in Ticks :
    /\ pc[k] \in {"guest", "cap", "claim", "post"} =>
         cur[k] \in Sends \ batch[k] /\ status[cur[k]] # "none"
    /\ \A s \in batch[k] : status[s] # "none"
    /\ pc[k] = "idle" => batch[k] = {}

Posting ==
  \A k \in Ticks : pc[k] = "post" =>
    /\ status[cur[k]] = "sent"
    /\ \A j \in Ticks : pc[j] = "post" /\ cur[j] = cur[k] => j = k

(* Nothing of a row is with Meta, but for doubts, before its last post. *)
Landed(s) == status[s] = "sent" /\ \A k \in Ticks : ~(pc[k] = "post" /\ cur[k] = s)

Copies ==
  /\ copies \in [Sends -> Nat] /\ doubts \in [Sends -> Nat]
  /\ \A s \in Sends : copies[s] <= doubts[s] + 1 /\ (~Landed(s) => copies[s] <= doubts[s])

Withdrawn == \A b \in withdrawn : Dead(mirror[b])

(***************************************************************************)
(* What a tick found out about the row in hand is still so, or the row is  *)
(* no longer pending, or it has been re-bound, or another tick has armed   *)
(* it again: its booking is alive, and its guest is who it was read for    *)
(* and wants marketing.                                                    *)
(***************************************************************************)
Alive ==
  \A k \in Ticks, s \in Sends :
    /\ pc[k] \in {"guest", "cap", "claim"} /\ cur[k] = s
    /\ status[s] = "pending" /\ k \notin rearmed
    => BookingOf[s] \notin withdrawn

Bound ==
  \A k \in Ticks :
    /\ \A s \in batch[k] : s \in rebound[k] \/ seen[k][s] = guest[s]
    /\ pc[k] \in {"guest", "cap", "claim"} =>
         cur[k] \in rebound[k] \/ seen[k][cur[k]] = guest[cur[k]]

Willing ==
  \A k \in Ticks, s \in Sends, g \in Phones :
    /\ pc[k] \in {"cap", "claim"} /\ cur[k] = s /\ guest[s] = g
    /\ KindOf[s] \in MARKETING_KINDS /\ status[s] = "pending"
    /\ s \notin rebound[k] /\ k \notin rearmed
    => consent[g] = "in"

(***************************************************************************)
(* As long as no tick has outlasted its job, there is one at a time, and   *)
(* the count it has compared with the cap has not grown since.             *)
(***************************************************************************)
Alone == \A k, j \in Ticks : pc[k] # "idle" /\ pc[j] # "idle" => k = j

Room ==
  \A k \in Ticks, s \in Sends, g \in Phones :
    /\ pc[k] = "claim" /\ cur[k] = s /\ guest[s] = g
    /\ KindOf[s] \in MARKETING_KINDS /\ s \notin rebound[k]
    => Cardinality(SentOf(g, KindOf[s])) < Cap(KindOf[s])

(* Those of the rows that went to whom they had been bound when read. *)
Addressed(g, kind) == SentOf(g, kind) \ strayed

Capped ==
  \A g \in Phones, kind \in MARKETING_KINDS : Cardinality(Addressed(g, kind)) <= Cap(kind)

Inv ==
  /\ Types /\ Planned /\ Handling /\ Posting /\ Copies /\ Withdrawn
  /\ Alive /\ Bound /\ Willing
  /\ overruns = 0 => Alone /\ Room /\ Capped

-----------------------------------------------------------------------------
(* Types. *)

LEMMA RowFields ==
  ASSUME NEW m \in MirrorRows
  PROVE  /\ m.phone \in Phones \cup {Nobody}
         /\ \A x \in States : [m EXCEPT !.state = x] \in MirrorRows
         /\ \A x \in Stays : [m EXCEPT !.stay = x] \in MirrorRows
BY DEF MirrorRows

LEMMA AbsentRow == Absent \in MirrorRows
BY DEF Absent, MirrorRows, States, Stays

(* Bookings keep to their type. *)
LEMMA BookingStep ==
  ASSUME Types, [Next]_vars
  PROVE  BookingTypes'
<1> USE DEF bookingVars, rowVars, guestVars, planVars, tickVars, sendHistory, marks, Types,
     BookingTypes, PlanTypes
<1>1. ASSUME NEW b \in Bookings, NEW m \in Updates, BookingChanges(b, m)
      PROVE  BookingTypes'
  BY <1>1, BoundsAssumption DEF BookingChanges
<1>2. ASSUME NEW b \in Bookings, BookingCancelled(b) PROVE BookingTypes'
  <2>1. [mirror[b] EXCEPT !.state = "cancelled"] \in MirrorRows
    BY RowFields DEF States
  <2>2. mirror' = [mirror EXCEPT ![b] = [mirror[b] EXCEPT !.state = "cancelled"]]
    BY <1>2 DEF BookingCancelled
  <2> QED
    BY <1>2, <2>1, <2>2, BoundsAssumption DEF BookingCancelled
<1>3. ASSUME NEW b \in Bookings, StayPasses(b) PROVE BookingTypes'
  BY <1>3, RowFields, BoundsAssumption DEF StayPasses, Stays
<1>4. ASSUME NEW b \in Bookings, CancelForBooking(b) PROVE BookingTypes'
  BY <1>4 DEF CancelForBooking, Revoke, Of, Pending
<1>5. ASSUME NEW w \in Workers, NEW b \in Bookings, TakePlanJob(w, b)
      PROVE  BookingTypes'
  BY <1>5 DEF TakePlanJob
<1>6. ASSUME NEW w \in Workers, NEW b \in Bookings, Reconcile(w, b)
      PROVE  BookingTypes'
  BY <1>6 DEF Reconcile
<1>7. ASSUME NEW w \in Workers, RevokeForPlan(w) PROVE BookingTypes'
  BY <1>7 DEF RevokeForPlan, Planning
<1>8. ASSUME NEW w \in Workers, LeavesAsIs(w) PROVE BookingTypes'
  BY <1>8 DEF LeavesAsIs, LetGo
<1>9. ASSUME NEW w \in Workers, Plan(w) PROVE BookingTypes'
  BY <1>9 DEF Plan
<1>10. ASSUME NEW w \in Workers, NEW s \in Sends, WriteSend(w, s)
      PROVE  BookingTypes'
  BY <1>10 DEF WriteSend, LetGo, Writable, Bind
<1>11. ASSUME NEW w \in Workers, PlanFails(w) PROVE BookingTypes'
  BY <1>11, BoundsAssumption DEF PlanFails, Fault, LetGo
<1>12. ASSUME NEW g \in Phones, FindLead(g) PROVE BookingTypes'
  BY <1>12 DEF FindLead
<1>13. ASSUME NEW g \in Phones, CountLeads(g) PROVE BookingTypes'
  BY <1>13 DEF CountLeads
<1>14. ASSUME NEW g \in Phones, OptIn(g) PROVE BookingTypes'
  BY <1>14 DEF OptIn
<1>15. ASSUME NEW g \in Phones, Stop(g) PROVE BookingTypes'
  BY <1>15 DEF Stop, Pending
<1>16. ASSUME NEW g \in Phones, NEW s \in Sends, ScheduleLead(g, s)
      PROVE  BookingTypes'
  BY <1>16 DEF ScheduleLead
<1>17. ASSUME NEW s \in Sends, Age(s) PROVE BookingTypes'
  BY <1>17 DEF Age
<1>18. ASSUME NEW k \in Ticks, NEW s \in Sends, SkipByMirror(k, s)
      PROVE  BookingTypes'
  BY <1>18 DEF SkipByMirror, NextRow, Resolve, Pending, Done
<1>19. ASSUME NEW k \in Ticks, NEW s \in Sends, DeferByMirror(k, s)
      PROVE  BookingTypes'
  BY <1>19 DEF DeferByMirror, NextRow, Done
<1>20. ASSUME NEW k \in Ticks, NEW s \in Sends, PassMirror(k, s) PROVE BookingTypes'
  BY <1>20 DEF PassMirror, NextRow
<1>21. ASSUME NEW k \in Ticks, SkipByGuest(k) PROVE BookingTypes'
  BY <1>21 DEF SkipByGuest, Resolve, Pending, Drop, LetRowGo, Done
<1>22. ASSUME NEW k \in Ticks, PassConsent(k) PROVE BookingTypes'
  BY <1>22 DEF PassConsent
<1>23. ASSUME NEW k \in Ticks, DeferByGuest(k) PROVE BookingTypes'
  BY <1>23 DEF DeferByGuest, Drop, LetRowGo, Done
<1>24. ASSUME NEW k \in Ticks, PassGuest(k) PROVE BookingTypes'
  BY <1>24 DEF PassGuest
<1>25. ASSUME NEW k \in Ticks, Claim(k) PROVE BookingTypes'
  BY <1>25 DEF Claim, Claimable
<1>26. ASSUME NEW k \in Ticks, LoseClaim(k) PROVE BookingTypes'
  BY <1>26 DEF LoseClaim, Drop, LetRowGo, Done
<1>27. ASSUME NEW k \in Ticks, PostLands(k) PROVE BookingTypes'
  BY <1>27 DEF PostLands, Posted, Drop, LetRowGo, Done
<1>28. ASSUME NEW k \in Ticks, ParamsRejected(k) PROVE BookingTypes'
  BY <1>28, BoundsAssumption DEF ParamsRejected, Fault, Resolve, Pending, Drop, LetRowGo, Done
<1>29. ASSUME NEW k \in Ticks, PostRetryable(k) PROVE BookingTypes'
  BY <1>29, BoundsAssumption DEF PostRetryable, Fault, Posted, ReArm, LetRowGo, Done
<1>30. ASSUME NEW k \in Ticks, PostFails(k) PROVE BookingTypes'
  BY <1>30, BoundsAssumption DEF PostFails, Fault, Drop, LetRowGo, Done
<1>31. ASSUME NEW k \in Ticks, NEW B \in SUBSET Due, TickReads(k, B)
      PROVE  BookingTypes'
  BY <1>31 DEF TickReads, Idle, Due, Pending
<1>32. CASE Crash
  BY <1>32, BoundsAssumption DEF Crash, Fault
<1>33. CASE UNCHANGED vars
  BY <1>33 DEF vars
<1> QED
  BY <1>1, <1>2, <1>3, <1>4, <1>5, <1>6, <1>7, <1>8, <1>9, <1>10, <1>11, <1>12, <1>13, <1>14,
     <1>15, <1>16, <1>17, <1>18, <1>19, <1>20, <1>21, <1>22, <1>23, <1>24, <1>25, <1>26, <1>27,
     <1>28, <1>29, <1>30, <1>31, <1>32, <1>33
     DEF Next, PlanStep, TickStep

(* Rows, guests and consent keep to theirs. *)
LEMMA RowStep ==
  ASSUME Types, Planned, [Next]_vars
  PROVE  RowTypes'
<1> USE DEF bookingVars, rowVars, guestVars, planVars, tickVars, sendHistory, marks, Types,
     RowTypes, Planned
<1>1. ASSUME NEW b \in Bookings, NEW m \in Updates, BookingChanges(b, m)
      PROVE  RowTypes'
  BY <1>1 DEF BookingChanges, Statuses
<1>2. ASSUME NEW b \in Bookings, BookingCancelled(b) PROVE RowTypes'
  BY <1>2 DEF BookingCancelled, Statuses
<1>3. ASSUME NEW b \in Bookings, StayPasses(b) PROVE RowTypes'
  BY <1>3 DEF StayPasses, Statuses
<1>4. ASSUME NEW b \in Bookings, CancelForBooking(b) PROVE RowTypes'
  BY <1>4 DEF CancelForBooking, Revoke, Of, Pending, Statuses
<1>5. ASSUME NEW w \in Workers, NEW b \in Bookings, TakePlanJob(w, b)
      PROVE  RowTypes'
  BY <1>5 DEF TakePlanJob, Statuses
<1>6. ASSUME NEW w \in Workers, NEW b \in Bookings, Reconcile(w, b)
      PROVE  RowTypes'
  BY <1>6 DEF Reconcile, Statuses
<1>7. ASSUME NEW w \in Workers, RevokeForPlan(w) PROVE RowTypes'
  BY <1>7 DEF RevokeForPlan, Revoke, Of, Pending, LetGo, Statuses
<1>8. ASSUME NEW w \in Workers, LeavesAsIs(w) PROVE RowTypes'
  BY <1>8 DEF LeavesAsIs, LetGo, Statuses
<1>9. ASSUME NEW w \in Workers, Plan(w) PROVE RowTypes'
  BY <1>9 DEF Plan, Statuses
<1>10. ASSUME NEW w \in Workers, NEW s \in Sends, WriteSend(w, s)
      PROVE  RowTypes'
  <2>1. snap[w].phone \in Phones
    BY <1>10 DEF WriteSend
  <2>2. clock' \in [Sends -> {"early", "due", "late"}]
    BY <1>10 DEF WriteSend, PlannedClock
  <2> QED
    BY <1>10, <2>1, <2>2 DEF WriteSend, LetGo, Writable, Bind, Statuses
<1>11. ASSUME NEW w \in Workers, PlanFails(w) PROVE RowTypes'
  BY <1>11 DEF PlanFails, Fault, LetGo, Statuses
<1>12. ASSUME NEW g \in Phones, FindLead(g) PROVE RowTypes'
  BY <1>12 DEF FindLead, Statuses
<1>13. ASSUME NEW g \in Phones, CountLeads(g) PROVE RowTypes'
  BY <1>13 DEF CountLeads, Statuses
<1>14. ASSUME NEW g \in Phones, OptIn(g) PROVE RowTypes'
  BY <1>14 DEF OptIn, Statuses
<1>15. ASSUME NEW g \in Phones, Stop(g) PROVE RowTypes'
  BY <1>15 DEF Stop, Pending, Statuses
<1>16. ASSUME NEW g \in Phones, NEW s \in Sends, ScheduleLead(g, s)
      PROVE  RowTypes'
  BY <1>16 DEF ScheduleLead, Statuses
<1>17. ASSUME NEW s \in Sends, Age(s) PROVE RowTypes'
  BY <1>17 DEF Age
<1>18. ASSUME NEW k \in Ticks, NEW s \in Sends, SkipByMirror(k, s)
      PROVE  RowTypes'
  BY <1>18 DEF SkipByMirror, NextRow, Resolve, Pending, Done, Statuses
<1>19. ASSUME NEW k \in Ticks, NEW s \in Sends, DeferByMirror(k, s)
      PROVE  RowTypes'
  BY <1>19 DEF DeferByMirror, NextRow, Done, Statuses
<1>20. ASSUME NEW k \in Ticks, NEW s \in Sends, PassMirror(k, s) PROVE RowTypes'
  BY <1>20 DEF PassMirror, NextRow, Statuses
<1>21. ASSUME NEW k \in Ticks, SkipByGuest(k) PROVE RowTypes'
  BY <1>21 DEF SkipByGuest, Resolve, Pending, Drop, LetRowGo, Done, Statuses
<1>22. ASSUME NEW k \in Ticks, PassConsent(k) PROVE RowTypes'
  BY <1>22 DEF PassConsent
<1>23. ASSUME NEW k \in Ticks, DeferByGuest(k) PROVE RowTypes'
  BY <1>23 DEF DeferByGuest, Drop, LetRowGo, Done, Statuses
<1>24. ASSUME NEW k \in Ticks, PassGuest(k) PROVE RowTypes'
  BY <1>24 DEF PassGuest, Statuses
<1>25. ASSUME NEW k \in Ticks, Claim(k) PROVE RowTypes'
  BY <1>25 DEF Claim, Claimable, Statuses
<1>26. ASSUME NEW k \in Ticks, LoseClaim(k) PROVE RowTypes'
  BY <1>26 DEF LoseClaim, Drop, LetRowGo, Done, Statuses
<1>27. ASSUME NEW k \in Ticks, PostLands(k) PROVE RowTypes'
  BY <1>27 DEF PostLands, Posted, Drop, LetRowGo, Done, Statuses
<1>28. ASSUME NEW k \in Ticks, ParamsRejected(k) PROVE RowTypes'
  BY <1>28 DEF ParamsRejected, Fault, Resolve, Pending, Drop, LetRowGo, Done, Statuses
<1>29. ASSUME NEW k \in Ticks, PostRetryable(k) PROVE RowTypes'
  BY <1>29 DEF PostRetryable, Fault, Posted, ReArm, LetRowGo, Done, Statuses
<1>30. ASSUME NEW k \in Ticks, PostFails(k) PROVE RowTypes'
  BY <1>30 DEF PostFails, Fault, Drop, LetRowGo, Done, Statuses
<1>31. ASSUME NEW k \in Ticks, NEW B \in SUBSET Due, TickReads(k, B)
      PROVE  RowTypes'
  BY <1>31 DEF TickReads, Idle, Due, Pending, Statuses
<1>32. CASE Crash
  BY <1>32 DEF Crash, Fault, Statuses
<1>33. CASE UNCHANGED vars
  BY <1>33 DEF vars, Statuses
<1> QED
  BY <1>1, <1>2, <1>3, <1>4, <1>5, <1>6, <1>7, <1>8, <1>9, <1>10, <1>11, <1>12, <1>13, <1>14,
     <1>15, <1>16, <1>17, <1>18, <1>19, <1>20, <1>21, <1>22, <1>23, <1>24, <1>25, <1>26, <1>27,
     <1>28, <1>29, <1>30, <1>31, <1>32, <1>33
     DEF Next, PlanStep, TickStep

(* Plans keep to theirs. *)
LEMMA PlanTypeStep ==
  ASSUME Types, [Next]_vars
  PROVE  PlanTypes'
<1> USE DEF bookingVars, rowVars, guestVars, planVars, tickVars, sendHistory, marks, Types,
     PlanTypes, BookingTypes, Of
<1>1. ASSUME NEW b \in Bookings, NEW m \in Updates, BookingChanges(b, m)
      PROVE  PlanTypes'
  BY <1>1, AbsentRow DEF BookingChanges
<1>2. ASSUME NEW b \in Bookings, BookingCancelled(b) PROVE PlanTypes'
  BY <1>2, AbsentRow DEF BookingCancelled
<1>3. ASSUME NEW b \in Bookings, StayPasses(b) PROVE PlanTypes'
  BY <1>3, AbsentRow DEF StayPasses
<1>4. ASSUME NEW b \in Bookings, CancelForBooking(b) PROVE PlanTypes'
  BY <1>4, AbsentRow DEF CancelForBooking, Revoke, Of, Pending
<1>5. ASSUME NEW w \in Workers, NEW b \in Bookings, TakePlanJob(w, b)
      PROVE  PlanTypes'
  BY <1>5, AbsentRow DEF TakePlanJob
<1>6. ASSUME NEW w \in Workers, NEW b \in Bookings, Reconcile(w, b)
      PROVE  PlanTypes'
  BY <1>6, AbsentRow DEF Reconcile
<1>7. ASSUME NEW w \in Workers, RevokeForPlan(w) PROVE PlanTypes'
  BY <1>7, AbsentRow DEF RevokeForPlan, Revoke, Of, Pending, LetGo
<1>8. ASSUME NEW w \in Workers, LeavesAsIs(w) PROVE PlanTypes'
  BY <1>8, AbsentRow DEF LeavesAsIs, LetGo
<1>9. ASSUME NEW w \in Workers, Plan(w) PROVE PlanTypes'
  BY <1>9, AbsentRow DEF Plan
<1>10. ASSUME NEW w \in Workers, NEW s \in Sends, WriteSend(w, s)
      PROVE  PlanTypes'
  BY <1>10, AbsentRow DEF WriteSend, LetGo, Writable, Bind
<1>11. ASSUME NEW w \in Workers, PlanFails(w) PROVE PlanTypes'
  BY <1>11, AbsentRow DEF PlanFails, Fault, LetGo
<1>12. ASSUME NEW g \in Phones, FindLead(g) PROVE PlanTypes'
  BY <1>12, AbsentRow DEF FindLead
<1>13. ASSUME NEW g \in Phones, CountLeads(g) PROVE PlanTypes'
  BY <1>13, AbsentRow DEF CountLeads
<1>14. ASSUME NEW g \in Phones, OptIn(g) PROVE PlanTypes'
  BY <1>14, AbsentRow DEF OptIn
<1>15. ASSUME NEW g \in Phones, Stop(g) PROVE PlanTypes'
  BY <1>15, AbsentRow DEF Stop, Pending
<1>16. ASSUME NEW g \in Phones, NEW s \in Sends, ScheduleLead(g, s)
      PROVE  PlanTypes'
  BY <1>16, AbsentRow DEF ScheduleLead
<1>17. ASSUME NEW s \in Sends, Age(s) PROVE PlanTypes'
  BY <1>17, AbsentRow DEF Age
<1>18. ASSUME NEW k \in Ticks, NEW s \in Sends, SkipByMirror(k, s)
      PROVE  PlanTypes'
  BY <1>18, AbsentRow DEF SkipByMirror, NextRow, Resolve, Pending, Done
<1>19. ASSUME NEW k \in Ticks, NEW s \in Sends, DeferByMirror(k, s)
      PROVE  PlanTypes'
  BY <1>19, AbsentRow DEF DeferByMirror, NextRow, Done
<1>20. ASSUME NEW k \in Ticks, NEW s \in Sends, PassMirror(k, s) PROVE PlanTypes'
  BY <1>20, AbsentRow DEF PassMirror, NextRow
<1>21. ASSUME NEW k \in Ticks, SkipByGuest(k) PROVE PlanTypes'
  BY <1>21, AbsentRow DEF SkipByGuest, Resolve, Pending, Drop, LetRowGo, Done
<1>22. ASSUME NEW k \in Ticks, PassConsent(k) PROVE PlanTypes'
  BY <1>22, AbsentRow DEF PassConsent
<1>23. ASSUME NEW k \in Ticks, DeferByGuest(k) PROVE PlanTypes'
  BY <1>23, AbsentRow DEF DeferByGuest, Drop, LetRowGo, Done
<1>24. ASSUME NEW k \in Ticks, PassGuest(k) PROVE PlanTypes'
  BY <1>24, AbsentRow DEF PassGuest
<1>25. ASSUME NEW k \in Ticks, Claim(k) PROVE PlanTypes'
  BY <1>25, AbsentRow DEF Claim, Claimable
<1>26. ASSUME NEW k \in Ticks, LoseClaim(k) PROVE PlanTypes'
  BY <1>26, AbsentRow DEF LoseClaim, Drop, LetRowGo, Done
<1>27. ASSUME NEW k \in Ticks, PostLands(k) PROVE PlanTypes'
  BY <1>27, AbsentRow DEF PostLands, Posted, Drop, LetRowGo, Done
<1>28. ASSUME NEW k \in Ticks, ParamsRejected(k) PROVE PlanTypes'
  BY <1>28, AbsentRow DEF ParamsRejected, Fault, Resolve, Pending, Drop, LetRowGo, Done
<1>29. ASSUME NEW k \in Ticks, PostRetryable(k) PROVE PlanTypes'
  BY <1>29, AbsentRow DEF PostRetryable, Fault, Posted, ReArm, LetRowGo, Done
<1>30. ASSUME NEW k \in Ticks, PostFails(k) PROVE PlanTypes'
  BY <1>30, AbsentRow DEF PostFails, Fault, Drop, LetRowGo, Done
<1>31. ASSUME NEW k \in Ticks, NEW B \in SUBSET Due, TickReads(k, B)
      PROVE  PlanTypes'
  BY <1>31, AbsentRow DEF TickReads, Idle, Due, Pending
<1>32. CASE Crash
  BY <1>32, AbsentRow DEF Crash, Fault
<1>33. CASE UNCHANGED vars
  BY <1>33, AbsentRow DEF vars
<1> QED
  BY <1>1, <1>2, <1>3, <1>4, <1>5, <1>6, <1>7, <1>8, <1>9, <1>10, <1>11, <1>12, <1>13, <1>14,
     <1>15, <1>16, <1>17, <1>18, <1>19, <1>20, <1>21, <1>22, <1>23, <1>24, <1>25, <1>26, <1>27,
     <1>28, <1>29, <1>30, <1>31, <1>32, <1>33
     DEF Next, PlanStep, TickStep

(* Who writes knows for whom. *)
LEMMA PlannedStep ==
  ASSUME Types, Planned, [Next]_vars
  PROVE  Planned'
<1> USE DEF bookingVars, rowVars, guestVars, planVars, tickVars, sendHistory, marks, Types,
     PlanTypes, Planned, BookingTypes
<1>1. ASSUME NEW b \in Bookings, NEW m \in Updates, BookingChanges(b, m)
      PROVE  Planned'
  BY <1>1, SendsAssumption DEF BookingChanges, Planning
<1>2. ASSUME NEW b \in Bookings, BookingCancelled(b) PROVE Planned'
  BY <1>2, SendsAssumption DEF BookingCancelled, Planning
<1>3. ASSUME NEW b \in Bookings, StayPasses(b) PROVE Planned'
  BY <1>3, SendsAssumption DEF StayPasses, Planning
<1>4. ASSUME NEW b \in Bookings, CancelForBooking(b) PROVE Planned'
  BY <1>4, SendsAssumption DEF CancelForBooking, Revoke, Of, Pending, Planning
<1>5. ASSUME NEW w \in Workers, NEW b \in Bookings, TakePlanJob(w, b)
      PROVE  Planned'
  BY <1>5, SendsAssumption DEF TakePlanJob, Planning
<1>6. ASSUME NEW w \in Workers, NEW b \in Bookings, Reconcile(w, b)
      PROVE  Planned'
  BY <1>6, SendsAssumption DEF Reconcile, Planning
<1>7. ASSUME NEW w \in Workers, RevokeForPlan(w) PROVE Planned'
  BY <1>7, SendsAssumption DEF RevokeForPlan, Revoke, Of, Pending, LetGo, Planning
<1>8. ASSUME NEW w \in Workers, LeavesAsIs(w) PROVE Planned'
  BY <1>8, SendsAssumption DEF LeavesAsIs, LetGo, Planning
<1>9. ASSUME NEW w \in Workers, Plan(w) PROVE Planned'
  <2>1. snap[w] \in MirrorRows /\ snap[w].phone # Nobody
    BY <1>9 DEF Plan, Refused, Gated
  <2>2. snap[w].phone \in Phones
    BY <2>1, RowFields
  <2> QED
    BY <1>9, <2>2 DEF Plan, Planning
<1>10. ASSUME NEW w \in Workers, NEW s \in Sends, WriteSend(w, s)
      PROVE  Planned'
  BY <1>10, SendsAssumption DEF WriteSend, LetGo, Writable, Bind, Planning
<1>11. ASSUME NEW w \in Workers, PlanFails(w) PROVE Planned'
  BY <1>11, SendsAssumption DEF PlanFails, Fault, LetGo, Planning
<1>12. ASSUME NEW g \in Phones, FindLead(g) PROVE Planned'
  BY <1>12, SendsAssumption DEF FindLead, Planning
<1>13. ASSUME NEW g \in Phones, CountLeads(g) PROVE Planned'
  BY <1>13, SendsAssumption DEF CountLeads, Planning
<1>14. ASSUME NEW g \in Phones, OptIn(g) PROVE Planned'
  BY <1>14, SendsAssumption DEF OptIn, Planning
<1>15. ASSUME NEW g \in Phones, Stop(g) PROVE Planned'
  BY <1>15, SendsAssumption DEF Stop, Pending, Planning
<1>16. ASSUME NEW g \in Phones, NEW s \in Sends, ScheduleLead(g, s)
      PROVE  Planned'
  BY <1>16, SendsAssumption DEF ScheduleLead, Planning
<1>17. ASSUME NEW s \in Sends, Age(s) PROVE Planned'
  BY <1>17, SendsAssumption DEF Age, Planning
<1>18. ASSUME NEW k \in Ticks, NEW s \in Sends, SkipByMirror(k, s)
      PROVE  Planned'
  BY <1>18, SendsAssumption DEF SkipByMirror, NextRow, Resolve, Pending, Done, Planning
<1>19. ASSUME NEW k \in Ticks, NEW s \in Sends, DeferByMirror(k, s)
      PROVE  Planned'
  BY <1>19, SendsAssumption DEF DeferByMirror, NextRow, Done, Planning
<1>20. ASSUME NEW k \in Ticks, NEW s \in Sends, PassMirror(k, s) PROVE Planned'
  BY <1>20, SendsAssumption DEF PassMirror, NextRow, Planning
<1>21. ASSUME NEW k \in Ticks, SkipByGuest(k) PROVE Planned'
  BY <1>21, SendsAssumption DEF SkipByGuest, Resolve, Pending, Drop, LetRowGo, Done, Planning
<1>22. ASSUME NEW k \in Ticks, PassConsent(k) PROVE Planned'
  BY <1>22, SendsAssumption DEF PassConsent
<1>23. ASSUME NEW k \in Ticks, DeferByGuest(k) PROVE Planned'
  BY <1>23, SendsAssumption DEF DeferByGuest, Drop, LetRowGo, Done, Planning
<1>24. ASSUME NEW k \in Ticks, PassGuest(k) PROVE Planned'
  BY <1>24, SendsAssumption DEF PassGuest, Planning
<1>25. ASSUME NEW k \in Ticks, Claim(k) PROVE Planned'
  BY <1>25, SendsAssumption DEF Claim, Claimable, Planning
<1>26. ASSUME NEW k \in Ticks, LoseClaim(k) PROVE Planned'
  BY <1>26, SendsAssumption DEF LoseClaim, Drop, LetRowGo, Done, Planning
<1>27. ASSUME NEW k \in Ticks, PostLands(k) PROVE Planned'
  BY <1>27, SendsAssumption DEF PostLands, Posted, Drop, LetRowGo, Done, Planning
<1>28. ASSUME NEW k \in Ticks, ParamsRejected(k) PROVE Planned'
  BY <1>28, SendsAssumption
     DEF ParamsRejected, Fault, Resolve, Pending, Drop, LetRowGo, Done, Planning
<1>29. ASSUME NEW k \in Ticks, PostRetryable(k) PROVE Planned'
  BY <1>29, SendsAssumption DEF PostRetryable, Fault, Posted, ReArm, LetRowGo, Done, Planning
<1>30. ASSUME NEW k \in Ticks, PostFails(k) PROVE Planned'
  BY <1>30, SendsAssumption DEF PostFails, Fault, Drop, LetRowGo, Done, Planning
<1>31. ASSUME NEW k \in Ticks, NEW B \in SUBSET Due, TickReads(k, B)
      PROVE  Planned'
  BY <1>31, SendsAssumption DEF TickReads, Idle, Due, Pending, Planning
<1>32. CASE Crash
  BY <1>32, SendsAssumption DEF Crash, Fault, Planning
<1>33. CASE UNCHANGED vars
  BY <1>33, SendsAssumption DEF vars, Planning
<1> QED
  BY <1>1, <1>2, <1>3, <1>4, <1>5, <1>6, <1>7, <1>8, <1>9, <1>10, <1>11, <1>12, <1>13, <1>14,
     <1>15, <1>16, <1>17, <1>18, <1>19, <1>20, <1>21, <1>22, <1>23, <1>24, <1>25, <1>26, <1>27,
     <1>28, <1>29, <1>30, <1>31, <1>32, <1>33
     DEF Next, PlanStep, TickStep

(* Ticks keep to theirs. *)
LEMMA TickTypeStep ==
  ASSUME Types, [Next]_vars
  PROVE  TickTypes'
<1> USE DEF bookingVars, rowVars, guestVars, planVars, tickVars, sendHistory, marks, Types,
     TickTypes, RowTypes
<1>1. ASSUME NEW b \in Bookings, NEW m \in Updates, BookingChanges(b, m)
      PROVE  TickTypes'
  BY <1>1, BoundsAssumption DEF BookingChanges
<1>2. ASSUME NEW b \in Bookings, BookingCancelled(b) PROVE TickTypes'
  BY <1>2, BoundsAssumption DEF BookingCancelled
<1>3. ASSUME NEW b \in Bookings, StayPasses(b) PROVE TickTypes'
  BY <1>3, BoundsAssumption DEF StayPasses
<1>4. ASSUME NEW b \in Bookings, CancelForBooking(b) PROVE TickTypes'
  BY <1>4, BoundsAssumption DEF CancelForBooking, Revoke, Of, Pending
<1>5. ASSUME NEW w \in Workers, NEW b \in Bookings, TakePlanJob(w, b)
      PROVE  TickTypes'
  BY <1>5, BoundsAssumption DEF TakePlanJob
<1>6. ASSUME NEW w \in Workers, NEW b \in Bookings, Reconcile(w, b)
      PROVE  TickTypes'
  BY <1>6, BoundsAssumption DEF Reconcile
<1>7. ASSUME NEW w \in Workers, RevokeForPlan(w) PROVE TickTypes'
  BY <1>7, BoundsAssumption DEF RevokeForPlan, Revoke, Of, Pending, LetGo
<1>8. ASSUME NEW w \in Workers, LeavesAsIs(w) PROVE TickTypes'
  BY <1>8, BoundsAssumption DEF LeavesAsIs, LetGo
<1>9. ASSUME NEW w \in Workers, Plan(w) PROVE TickTypes'
  BY <1>9, BoundsAssumption DEF Plan
<1>10. ASSUME NEW w \in Workers, NEW s \in Sends, WriteSend(w, s)
      PROVE  TickTypes'
  BY <1>10, BoundsAssumption DEF WriteSend, LetGo, Writable, Bind
<1>11. ASSUME NEW w \in Workers, PlanFails(w) PROVE TickTypes'
  BY <1>11, BoundsAssumption DEF PlanFails, Fault, LetGo
<1>12. ASSUME NEW g \in Phones, FindLead(g) PROVE TickTypes'
  BY <1>12, BoundsAssumption DEF FindLead
<1>13. ASSUME NEW g \in Phones, CountLeads(g) PROVE TickTypes'
  BY <1>13, BoundsAssumption DEF CountLeads
<1>14. ASSUME NEW g \in Phones, OptIn(g) PROVE TickTypes'
  BY <1>14, BoundsAssumption DEF OptIn
<1>15. ASSUME NEW g \in Phones, Stop(g) PROVE TickTypes'
  BY <1>15, BoundsAssumption DEF Stop, Pending
<1>16. ASSUME NEW g \in Phones, NEW s \in Sends, ScheduleLead(g, s)
      PROVE  TickTypes'
  BY <1>16, BoundsAssumption DEF ScheduleLead
<1>17. ASSUME NEW s \in Sends, Age(s) PROVE TickTypes'
  BY <1>17, BoundsAssumption DEF Age
<1>18. ASSUME NEW k \in Ticks, NEW s \in Sends, SkipByMirror(k, s)
      PROVE  TickTypes'
  BY <1>18, BoundsAssumption DEF SkipByMirror, NextRow, Resolve, Pending, Done
<1>19. ASSUME NEW k \in Ticks, NEW s \in Sends, DeferByMirror(k, s)
      PROVE  TickTypes'
  BY <1>19, BoundsAssumption DEF DeferByMirror, NextRow, Done
<1>20. ASSUME NEW k \in Ticks, NEW s \in Sends, PassMirror(k, s) PROVE TickTypes'
  BY <1>20, BoundsAssumption DEF PassMirror, NextRow
<1>21. ASSUME NEW k \in Ticks, SkipByGuest(k) PROVE TickTypes'
  BY <1>21, BoundsAssumption DEF SkipByGuest, Resolve, Pending, Drop, LetRowGo, Done
<1>22. ASSUME NEW k \in Ticks, PassConsent(k) PROVE TickTypes'
  BY <1>22, BoundsAssumption DEF PassConsent
<1>23. ASSUME NEW k \in Ticks, DeferByGuest(k) PROVE TickTypes'
  BY <1>23, BoundsAssumption DEF DeferByGuest, Drop, LetRowGo, Done
<1>24. ASSUME NEW k \in Ticks, PassGuest(k) PROVE TickTypes'
  BY <1>24, BoundsAssumption DEF PassGuest
<1>25. ASSUME NEW k \in Ticks, Claim(k) PROVE TickTypes'
  BY <1>25, BoundsAssumption DEF Claim, Claimable
<1>26. ASSUME NEW k \in Ticks, LoseClaim(k) PROVE TickTypes'
  BY <1>26, BoundsAssumption DEF LoseClaim, Drop, LetRowGo, Done
<1>27. ASSUME NEW k \in Ticks, PostLands(k) PROVE TickTypes'
  BY <1>27, BoundsAssumption DEF PostLands, Posted, Drop, LetRowGo, Done
<1>28. ASSUME NEW k \in Ticks, ParamsRejected(k) PROVE TickTypes'
  BY <1>28, BoundsAssumption DEF ParamsRejected, Fault, Resolve, Pending, Drop, LetRowGo, Done
<1>29. ASSUME NEW k \in Ticks, PostRetryable(k) PROVE TickTypes'
  BY <1>29, BoundsAssumption DEF PostRetryable, Fault, Posted, ReArm, LetRowGo, Done
<1>30. ASSUME NEW k \in Ticks, PostFails(k) PROVE TickTypes'
  BY <1>30, BoundsAssumption DEF PostFails, Fault, Drop, LetRowGo, Done
<1>31. ASSUME NEW k \in Ticks, NEW B \in SUBSET Due, TickReads(k, B)
      PROVE  TickTypes'
  BY <1>31, BoundsAssumption DEF TickReads, Idle, Due, Pending, InHand
<1>32. CASE Crash
  BY <1>32, BoundsAssumption DEF Crash, Fault
<1>33. CASE UNCHANGED vars
  BY <1>33, BoundsAssumption DEF vars
<1> QED
  BY <1>1, <1>2, <1>3, <1>4, <1>5, <1>6, <1>7, <1>8, <1>9, <1>10, <1>11, <1>12, <1>13, <1>14,
     <1>15, <1>16, <1>17, <1>18, <1>19, <1>20, <1>21, <1>22, <1>23, <1>24, <1>25, <1>26, <1>27,
     <1>28, <1>29, <1>30, <1>31, <1>32, <1>33
     DEF Next, PlanStep, TickStep

-----------------------------------------------------------------------------
(***************************************************************************)
(* What happens outside of the sender.  A row that was decided stays as it *)
(* is; a row a tick has in hand is marked if it changes hands; who is      *)
(* withdrawn or says STOP leaves nothing pending.                          *)
(***************************************************************************)
Calm(s) ==
  status'[s] = status[s]
    \/ /\ status[s] \in {"none", "pending"}
       /\ status'[s] \in {"pending", "skipped", "cancelled", "failed"}

Outside ==
  /\ UNCHANGED <<tickVars, sendHistory, rearmed>>
  /\ \A k \in Ticks : rebound[k] \subseteq rebound'[k]
  /\ Withdrawn'
  /\ \A s \in Sends :
       /\ Calm(s)
       /\ guest'[s] = guest[s]
            \/ /\ status[s] \in {"none", "pending"}
               /\ \A k \in Ticks : s \in InHand(k) => s \in rebound'[k]
       /\ BookingOf[s] \in withdrawn' => BookingOf[s] \in withdrawn \/ status'[s] # "pending"
       /\ status'[s] = "pending" /\ KindOf[s] \in MARKETING_KINDS /\ status[s] # "none"
             /\ guest'[s] = guest[s] =>
            consent'[guest[s]] = "in" \/ consent'[guest[s]] = consent[guest[s]]

(* Each of them does so. *)
LEMMA OutsideStep ==
  ASSUME Types, Planned, Withdrawn,
         \/ \E b \in Bookings :
              \/ \E m \in Updates : BookingChanges(b, m)
              \/ BookingCancelled(b) \/ StayPasses(b) \/ CancelForBooking(b)
              \/ \E w \in Workers : TakePlanJob(w, b) \/ Reconcile(w, b)
         \/ \E w \in Workers : PlanStep(w) \/ PlanFails(w)
         \/ \E g \in Phones :
              FindLead(g) \/ CountLeads(g) \/ OptIn(g) \/ Stop(g)
              \/ \E s \in Sends : ScheduleLead(g, s)
         \/ \E s \in Sends : Age(s)
         \/ UNCHANGED vars
  PROVE  Outside
<1> USE DEF bookingVars, rowVars, guestVars, planVars, tickVars, sendHistory, marks, Outside,
     Calm, Withdrawn, Dead, Types, RowTypes, BookingTypes, PlanTypes, Planned
<1>1. ASSUME NEW b \in Bookings, NEW m \in Updates, BookingChanges(b, m)
      PROVE  Outside
  BY <1>1, SendsAssumption, BoundsAssumption DEF BookingChanges, Planning
<1>2. ASSUME NEW b \in Bookings, BookingCancelled(b) PROVE Outside
  BY <1>2, SendsAssumption, BoundsAssumption DEF BookingCancelled, Planning
<1>3. ASSUME NEW b \in Bookings, StayPasses(b) PROVE Outside
  BY <1>3, SendsAssumption, BoundsAssumption DEF StayPasses, Planning
<1>4. ASSUME NEW b \in Bookings, CancelForBooking(b) PROVE Outside
  BY <1>4, SendsAssumption, BoundsAssumption DEF CancelForBooking, Revoke, Of, Pending, Planning
<1>5. ASSUME NEW w \in Workers, NEW b \in Bookings, TakePlanJob(w, b)
      PROVE  Outside
  BY <1>5, SendsAssumption, BoundsAssumption DEF TakePlanJob, Planning
<1>6. ASSUME NEW w \in Workers, NEW b \in Bookings, Reconcile(w, b)
      PROVE  Outside
  BY <1>6, SendsAssumption, BoundsAssumption DEF Reconcile, Planning
<1>7. ASSUME NEW w \in Workers, RevokeForPlan(w) PROVE Outside
  BY <1>7, SendsAssumption, BoundsAssumption DEF RevokeForPlan, Revoke, Of, Pending, LetGo,
       Planning
<1>8. ASSUME NEW w \in Workers, LeavesAsIs(w) PROVE Outside
  BY <1>8, SendsAssumption, BoundsAssumption DEF LeavesAsIs, LetGo, Planning
<1>9. ASSUME NEW w \in Workers, Plan(w) PROVE Outside
  BY <1>9, SendsAssumption, BoundsAssumption DEF Plan, Planning
<1>10. ASSUME NEW w \in Workers, NEW s \in Sends, WriteSend(w, s)
      PROVE  Outside
  <2>1. UNCHANGED <<mirror, consent, tickVars, sendHistory, withdrawn, rearmed>>
    BY <1>10 DEF WriteSend
  <2>2. CASE ~Writable(s)
    <3>1. UNCHANGED <<status, guest, rebound>>
      BY <1>10, <2>2 DEF WriteSend
    <3> QED
      BY <2>1, <3>1
  <2>3. CASE Writable(s)
    <3>1. /\ status' = [status EXCEPT ![s] = "pending"]
          /\ guest' = [guest EXCEPT ![s] = snap[w].phone]
          /\ rebound' = [k \in Ticks |-> IF s \in InHand(k) /\ guest[s] # snap[w].phone
                                         THEN rebound[k] \cup {s} ELSE rebound[k]]
      BY <1>10, <2>3 DEF WriteSend, Bind
    <3> QED
      BY <2>1, <2>3, <3>1, SendsAssumption DEF Writable, TickTypes
  <2> QED
    BY <2>2, <2>3
<1>11. ASSUME NEW w \in Workers, PlanFails(w) PROVE Outside
  BY <1>11, SendsAssumption, BoundsAssumption DEF PlanFails, Fault, LetGo, Planning
<1>12. ASSUME NEW g \in Phones, FindLead(g) PROVE Outside
  BY <1>12, SendsAssumption, BoundsAssumption DEF FindLead, Planning
<1>13. ASSUME NEW g \in Phones, CountLeads(g) PROVE Outside
  BY <1>13, SendsAssumption, BoundsAssumption DEF CountLeads, Planning
<1>14. ASSUME NEW g \in Phones, OptIn(g) PROVE Outside
  BY <1>14, SendsAssumption, BoundsAssumption DEF OptIn, Planning
<1>15. ASSUME NEW g \in Phones, Stop(g) PROVE Outside
  BY <1>15, SendsAssumption, BoundsAssumption DEF Stop, Pending, Planning
<1>16. ASSUME NEW g \in Phones, NEW s \in Sends, ScheduleLead(g, s)
      PROVE  Outside
  BY <1>16, SendsAssumption, BoundsAssumption DEF ScheduleLead, Writable, Planning
<1>17. ASSUME NEW s \in Sends, Age(s) PROVE Outside
  BY <1>17, SendsAssumption, BoundsAssumption DEF Age, Planning
<1>18. CASE UNCHANGED vars
  BY <1>18, SendsAssumption, BoundsAssumption DEF vars, Planning
<1> QED
  BY <1>1, <1>2, <1>3, <1>4, <1>5, <1>6, <1>7, <1>8, <1>9, <1>10, <1>11, <1>12, <1>13, <1>14,
     <1>15, <1>16, <1>17, <1>18
     DEF PlanStep

(* Every other step is one of a tick, or a crash. *)
LEMMA Steps ==
  ASSUME Types, Planned, Withdrawn, [Next]_vars
  PROVE  \/ Outside \/ Crash
         \/ \E k \in Ticks :
              \/ TickStep(k) \/ ParamsRejected(k) \/ PostRetryable(k) \/ PostFails(k)
              \/ \E B \in SUBSET Due : TickReads(k, B)
BY OutsideStep DEF Next

-----------------------------------------------------------------------------
(* Rows are posted once. *)

(* Of the withdrawn, all are dead. *)
LEMMA WithdrawnStep ==
  ASSUME Types, Planned, Withdrawn, [Next]_vars
  PROVE  Withdrawn'
<1> USE DEF bookingVars, rowVars, guestVars, planVars, tickVars, sendHistory, marks, Withdrawn
<1>1. CASE Outside
  BY <1>1 DEF Outside
<1>2. ASSUME NEW k \in Ticks, NEW s \in Sends, SkipByMirror(k, s)
      PROVE  Withdrawn'
  BY <1>2 DEF SkipByMirror, NextRow, Resolve, Pending, Done
<1>3. ASSUME NEW k \in Ticks, NEW s \in Sends, DeferByMirror(k, s)
      PROVE  Withdrawn'
  BY <1>3 DEF DeferByMirror, NextRow, Done
<1>4. ASSUME NEW k \in Ticks, NEW s \in Sends, PassMirror(k, s) PROVE Withdrawn'
  BY <1>4 DEF PassMirror, NextRow
<1>5. ASSUME NEW k \in Ticks, SkipByGuest(k) PROVE Withdrawn'
  BY <1>5 DEF SkipByGuest, Resolve, Pending, Drop, LetRowGo, Done
<1>6. ASSUME NEW k \in Ticks, PassConsent(k) PROVE Withdrawn'
  BY <1>6 DEF PassConsent
<1>7. ASSUME NEW k \in Ticks, DeferByGuest(k) PROVE Withdrawn'
  BY <1>7 DEF DeferByGuest, Drop, LetRowGo, Done
<1>8. ASSUME NEW k \in Ticks, PassGuest(k) PROVE Withdrawn'
  BY <1>8 DEF PassGuest
<1>9. ASSUME NEW k \in Ticks, Claim(k) PROVE Withdrawn'
  BY <1>9 DEF Claim, Claimable
<1>10. ASSUME NEW k \in Ticks, LoseClaim(k) PROVE Withdrawn'
  BY <1>10 DEF LoseClaim, Drop, LetRowGo, Done
<1>11. ASSUME NEW k \in Ticks, PostLands(k) PROVE Withdrawn'
  BY <1>11 DEF PostLands, Posted, Drop, LetRowGo, Done
<1>12. ASSUME NEW k \in Ticks, ParamsRejected(k) PROVE Withdrawn'
  BY <1>12 DEF ParamsRejected, Fault, Resolve, Pending, Drop, LetRowGo, Done
<1>13. ASSUME NEW k \in Ticks, PostRetryable(k) PROVE Withdrawn'
  BY <1>13 DEF PostRetryable, Fault, Posted, ReArm, LetRowGo, Done
<1>14. ASSUME NEW k \in Ticks, PostFails(k) PROVE Withdrawn'
  BY <1>14 DEF PostFails, Fault, Drop, LetRowGo, Done
<1>15. ASSUME NEW k \in Ticks, NEW B \in SUBSET Due, TickReads(k, B)
      PROVE  Withdrawn'
  BY <1>15 DEF TickReads, Idle, Due, Pending
<1>16. CASE Crash
  BY <1>16 DEF Crash, Fault
<1> QED
  BY Steps, <1>1, <1>2, <1>3, <1>4, <1>5, <1>6, <1>7, <1>8, <1>9, <1>10, <1>11, <1>12, <1>13,
     <1>14, <1>15, <1>16
     DEF TickStep

(* What a tick has in hand are rows. *)
LEMMA HandlingStep ==
  ASSUME Types, Planned, Withdrawn, Handling, [Next]_vars
  PROVE  Handling'
<1> USE DEF bookingVars, rowVars, guestVars, planVars, tickVars, sendHistory, marks, Types,
     RowTypes, TickTypes, PlanTypes, Handling
<1>1. CASE Outside
  <2>1. \A s \in Sends : status[s] # "none" => status'[s] # "none"
    BY <1>1 DEF Outside, Calm
  <2>2. UNCHANGED <<batch, cur, pc>>
    BY <1>1 DEF Outside
  <2>3. \A k \in Ticks : batch[k] \subseteq Sends
    OBVIOUS
  <2> QED
    BY <2>1, <2>2, <2>3
<1>2. ASSUME NEW k \in Ticks, NEW s \in Sends, SkipByMirror(k, s)
      PROVE  Handling'
  BY <1>2 DEF SkipByMirror, NextRow, Resolve, Pending, Done
<1>3. ASSUME NEW k \in Ticks, NEW s \in Sends, DeferByMirror(k, s)
      PROVE  Handling'
  BY <1>3 DEF DeferByMirror, NextRow, Done
<1>4. ASSUME NEW k \in Ticks, NEW s \in Sends, PassMirror(k, s) PROVE Handling'
  BY <1>4 DEF PassMirror, NextRow
<1>5. ASSUME NEW k \in Ticks, SkipByGuest(k) PROVE Handling'
  BY <1>5 DEF SkipByGuest, Resolve, Pending, Drop, LetRowGo, Done
<1>6. ASSUME NEW k \in Ticks, PassConsent(k) PROVE Handling'
  BY <1>6 DEF PassConsent
<1>7. ASSUME NEW k \in Ticks, DeferByGuest(k) PROVE Handling'
  BY <1>7 DEF DeferByGuest, Drop, LetRowGo, Done
<1>8. ASSUME NEW k \in Ticks, PassGuest(k) PROVE Handling'
  BY <1>8 DEF PassGuest
<1>9. ASSUME NEW k \in Ticks, Claim(k) PROVE Handling'
  BY <1>9 DEF Claim, Claimable
<1>10. ASSUME NEW k \in Ticks, LoseClaim(k) PROVE Handling'
  BY <1>10 DEF LoseClaim, Drop, LetRowGo, Done
<1>11. ASSUME NEW k \in Ticks, PostLands(k) PROVE Handling'
  BY <1>11 DEF PostLands, Posted, Drop, LetRowGo, Done
<1>12. ASSUME NEW k \in Ticks, ParamsRejected(k) PROVE Handling'
  BY <1>12 DEF ParamsRejected, Fault, Resolve, Pending, Drop, LetRowGo, Done
<1>13. ASSUME NEW k \in Ticks, PostRetryable(k) PROVE Handling'
  BY <1>13 DEF PostRetryable, Fault, Posted, ReArm, LetRowGo, Done
<1>14. ASSUME NEW k \in Ticks, PostFails(k) PROVE Handling'
  BY <1>14 DEF PostFails, Fault, Drop, LetRowGo, Done
<1>15. ASSUME NEW k \in Ticks, NEW B \in SUBSET Due, TickReads(k, B)
      PROVE  Handling'
  BY <1>15 DEF TickReads, Idle, Due, Pending
<1>16. CASE Crash
  BY <1>16 DEF Crash, Fault
<1> QED
  BY Steps, <1>1, <1>2, <1>3, <1>4, <1>5, <1>6, <1>7, <1>8, <1>9, <1>10, <1>11, <1>12, <1>13,
     <1>14, <1>15, <1>16
     DEF TickStep

(* Nobody else has what a tick posts. *)
LEMMA PostingStep ==
  ASSUME Types, Planned, Withdrawn, Handling, Posting, [Next]_vars
  PROVE  Posting'
<1> USE DEF bookingVars, rowVars, guestVars, planVars, tickVars, sendHistory, marks, Types,
     RowTypes, TickTypes, PlanTypes, Handling, Posting
<1>1. CASE Outside
  BY <1>1 DEF Outside, Calm
<1>2. ASSUME NEW k \in Ticks, NEW s \in Sends, SkipByMirror(k, s)
      PROVE  Posting'
  BY <1>2 DEF SkipByMirror, NextRow, Resolve, Pending, Done
<1>3. ASSUME NEW k \in Ticks, NEW s \in Sends, DeferByMirror(k, s)
      PROVE  Posting'
  BY <1>3 DEF DeferByMirror, NextRow, Done
<1>4. ASSUME NEW k \in Ticks, NEW s \in Sends, PassMirror(k, s) PROVE Posting'
  BY <1>4 DEF PassMirror, NextRow
<1>5. ASSUME NEW k \in Ticks, SkipByGuest(k) PROVE Posting'
  BY <1>5 DEF SkipByGuest, Resolve, Pending, Drop, LetRowGo, Done
<1>6. ASSUME NEW k \in Ticks, PassConsent(k) PROVE Posting'
  BY <1>6 DEF PassConsent
<1>7. ASSUME NEW k \in Ticks, DeferByGuest(k) PROVE Posting'
  BY <1>7 DEF DeferByGuest, Drop, LetRowGo, Done
<1>8. ASSUME NEW k \in Ticks, PassGuest(k) PROVE Posting'
  BY <1>8 DEF PassGuest
<1>9. ASSUME NEW k \in Ticks, Claim(k) PROVE Posting'
  BY <1>9 DEF Claim, Claimable
<1>10. ASSUME NEW k \in Ticks, LoseClaim(k) PROVE Posting'
  BY <1>10 DEF LoseClaim, Drop, LetRowGo, Done
<1>11. ASSUME NEW k \in Ticks, PostLands(k) PROVE Posting'
  BY <1>11 DEF PostLands, Posted, Drop, LetRowGo, Done
<1>12. ASSUME NEW k \in Ticks, ParamsRejected(k) PROVE Posting'
  BY <1>12 DEF ParamsRejected, Fault, Resolve, Pending, Drop, LetRowGo, Done
<1>13. ASSUME NEW k \in Ticks, PostRetryable(k) PROVE Posting'
  BY <1>13 DEF PostRetryable, Fault, Posted, ReArm, LetRowGo, Done
<1>14. ASSUME NEW k \in Ticks, PostFails(k) PROVE Posting'
  BY <1>14 DEF PostFails, Fault, Drop, LetRowGo, Done
<1>15. ASSUME NEW k \in Ticks, NEW B \in SUBSET Due, TickReads(k, B)
      PROVE  Posting'
  BY <1>15 DEF TickReads, Idle, Due, Pending
<1>16. CASE Crash
  BY <1>16 DEF Crash, Fault
<1> QED
  BY Steps, <1>1, <1>2, <1>3, <1>4, <1>5, <1>6, <1>7, <1>8, <1>9, <1>10, <1>11, <1>12, <1>13,
     <1>14, <1>15, <1>16
     DEF TickStep

(* A row claimed once is posted once. *)
LEMMA CopiesStep ==
  ASSUME Types, Planned, Withdrawn, Handling, Posting, Copies, [Next]_vars
  PROVE  Copies'
<1> USE DEF bookingVars, rowVars, guestVars, planVars, tickVars, sendHistory, marks, Types,
     RowTypes, TickTypes, PlanTypes, Handling, Posting, Copies, Landed
<1>1. CASE Outside
  BY <1>1 DEF Outside, Calm
<1>2. ASSUME NEW k \in Ticks, NEW s \in Sends, SkipByMirror(k, s)
      PROVE  Copies'
  BY <1>2 DEF SkipByMirror, NextRow, Resolve, Pending, Done
<1>3. ASSUME NEW k \in Ticks, NEW s \in Sends, DeferByMirror(k, s)
      PROVE  Copies'
  BY <1>3 DEF DeferByMirror, NextRow, Done
<1>4. ASSUME NEW k \in Ticks, NEW s \in Sends, PassMirror(k, s) PROVE Copies'
  BY <1>4 DEF PassMirror, NextRow
<1>5. ASSUME NEW k \in Ticks, SkipByGuest(k) PROVE Copies'
  BY <1>5 DEF SkipByGuest, Resolve, Pending, Drop, LetRowGo, Done
<1>6. ASSUME NEW k \in Ticks, PassConsent(k) PROVE Copies'
  BY <1>6 DEF PassConsent
<1>7. ASSUME NEW k \in Ticks, DeferByGuest(k) PROVE Copies'
  BY <1>7 DEF DeferByGuest, Drop, LetRowGo, Done
<1>8. ASSUME NEW k \in Ticks, PassGuest(k) PROVE Copies'
  BY <1>8 DEF PassGuest
<1>9. ASSUME NEW k \in Ticks, Claim(k) PROVE Copies'
  BY <1>9 DEF Claim, Claimable
<1>10. ASSUME NEW k \in Ticks, LoseClaim(k) PROVE Copies'
  BY <1>10 DEF LoseClaim, Drop, LetRowGo, Done
<1>11. ASSUME NEW k \in Ticks, PostLands(k) PROVE Copies'
  BY <1>11 DEF PostLands, Posted, Drop, LetRowGo, Done
<1>12. ASSUME NEW k \in Ticks, ParamsRejected(k) PROVE Copies'
  BY <1>12 DEF ParamsRejected, Fault, Resolve, Pending, Drop, LetRowGo, Done
<1>13. ASSUME NEW k \in Ticks, PostRetryable(k) PROVE Copies'
  <2>1. cur[k] \in Sends /\ copies[cur[k]] <= doubts[cur[k]]
    BY <1>13 DEF PostRetryable
  <2>2. \A j \in Ticks : pc'[j] = "post" => pc[j] = "post" /\ cur'[j] = cur[j]
    BY <1>13 DEF PostRetryable, LetRowGo, Done
  <2>3. \A s \in Sends \ {cur[k]} :
          copies'[s] = copies[s] /\ doubts'[s] = doubts[s] /\ status'[s] = status[s]
    BY <1>13 DEF PostRetryable, Posted, ReArm
  <2>4. copies'[cur[k]] <= doubts'[cur[k]]
    BY <1>13, <2>1 DEF PostRetryable, Posted
  <2>5. copies' \in [Sends -> Nat] /\ doubts' \in [Sends -> Nat]
    <3>1. CASE UNCHANGED <<copies, doubts>>
      BY <3>1
    <3>2. CASE Posted(cur[k]) /\ doubts' = [doubts EXCEPT ![cur[k]] = @ + 1]
      BY <2>1, <3>2 DEF Posted
    <3> QED
      BY <1>13, <3>1, <3>2 DEF PostRetryable
  <2> QED
    BY <2>2, <2>3, <2>4, <2>5
<1>14. ASSUME NEW k \in Ticks, PostFails(k) PROVE Copies'
  BY <1>14 DEF PostFails, Fault, Drop, LetRowGo, Done
<1>15. ASSUME NEW k \in Ticks, NEW B \in SUBSET Due, TickReads(k, B)
      PROVE  Copies'
  BY <1>15 DEF TickReads, Idle, Due, Pending
<1>16. CASE Crash
  <2>1. PICK landed \in SUBSET {k \in Ticks : pc[k] = "post"} :
          copies' = [s \in Sends |-> copies[s] + Cardinality({k \in landed : cur[k] = s})]
    BY <1>16 DEF Crash
  <2> SUFFICES ASSUME NEW s \in Sends
               PROVE  /\ copies'[s] \in Nat /\ copies'[s] <= doubts[s] + 1
                      /\ status[s] # "sent" => copies'[s] <= doubts[s]
    BY <1>16, <2>1 DEF Crash
  <2> DEFINE L == {k \in landed : cur[k] = s}
  <2>2. CASE L = {}
    <3>1. copies'[s] = copies[s] + Cardinality(L) /\ Cardinality(L) = 0
      BY <2>1, <2>2, FS_EmptySet
    <3> QED
      BY <3>1
  <2>3. CASE L # {}
    <3>1. PICK k \in L : TRUE
      BY <2>3
    <3>2. pc[k] = "post" /\ cur[k] = s /\ status[s] = "sent" /\ L = {k}
      BY <2>1, <3>1
    <3>3. Cardinality({k}) = 1
      BY FS_Singleton
    <3>4. copies[s] <= doubts[s]
      BY <3>2
    <3>5. copies'[s] = copies[s] + 1
      BY <2>1, <3>2, <3>3
    <3> QED
      BY <3>2, <3>4, <3>5
  <2> QED
    BY <2>2, <2>3
<1> QED
  BY Steps, <1>1, <1>2, <1>3, <1>4, <1>5, <1>6, <1>7, <1>8, <1>9, <1>10, <1>11, <1>12, <1>13,
     <1>14, <1>15, <1>16
     DEF TickStep

-----------------------------------------------------------------------------
(* What a tick found out stands. *)

(* What a tick found alive is alive, or no longer pending, or armed anew. *)
LEMMA AliveStep ==
  ASSUME Types, Planned, Withdrawn, Handling, Posting, Alive, [Next]_vars
  PROVE  Alive'
<1> USE DEF bookingVars, rowVars, guestVars, planVars, tickVars, sendHistory, marks, Types,
     RowTypes, TickTypes, PlanTypes, Handling, Alive
<1>1. CASE Outside
  <2> SUFFICES ASSUME NEW k \in Ticks, NEW s \in Sends, pc[k] \in {"guest", "cap", "claim"},
                      cur[k] = s, status'[s] = "pending", k \notin rearmed
               PROVE  BookingOf[s] \notin withdrawn'
    BY <1>1 DEF Outside
  <2>1. status[s] = "pending"
    BY <1>1 DEF Outside, Calm
  <2> QED
    BY <1>1, <2>1 DEF Outside
<1>2. ASSUME NEW k \in Ticks, NEW s \in Sends, SkipByMirror(k, s)
      PROVE  Alive'
  BY <1>2 DEF SkipByMirror, NextRow, Resolve, Pending, Done
<1>3. ASSUME NEW k \in Ticks, NEW s \in Sends, DeferByMirror(k, s)
      PROVE  Alive'
  BY <1>3 DEF DeferByMirror, NextRow, Done
<1>4. ASSUME NEW k \in Ticks, NEW s \in Sends, PassMirror(k, s) PROVE Alive'
  <2>1. BookingOf[s] \notin withdrawn
    <3>1. CASE BookingOf[s] = Nobody
      BY <3>1, SendsAssumption DEF BookingTypes
    <3>2. CASE BookingOf[s] # Nobody
      BY <1>4, <3>2 DEF PassMirror, Skips, MirrorSkips, Withdrawn
    <3> QED
      BY <3>1, <3>2
  <2> QED
    BY <1>4, <2>1 DEF PassMirror, NextRow
<1>5. ASSUME NEW k \in Ticks, SkipByGuest(k) PROVE Alive'
  BY <1>5 DEF SkipByGuest, Resolve, Pending, Drop, LetRowGo, Done
<1>6. ASSUME NEW k \in Ticks, PassConsent(k) PROVE Alive'
  BY <1>6 DEF PassConsent
<1>7. ASSUME NEW k \in Ticks, DeferByGuest(k) PROVE Alive'
  BY <1>7 DEF DeferByGuest, Drop, LetRowGo, Done
<1>8. ASSUME NEW k \in Ticks, PassGuest(k) PROVE Alive'
  BY <1>8 DEF PassGuest
<1>9. ASSUME NEW k \in Ticks, Claim(k) PROVE Alive'
  BY <1>9 DEF Claim, Claimable
<1>10. ASSUME NEW k \in Ticks, LoseClaim(k) PROVE Alive'
  BY <1>10 DEF LoseClaim, Drop, LetRowGo, Done
<1>11. ASSUME NEW k \in Ticks, PostLands(k) PROVE Alive'
  BY <1>11 DEF PostLands, Posted, Drop, LetRowGo, Done
<1>12. ASSUME NEW k \in Ticks, ParamsRejected(k) PROVE Alive'
  BY <1>12 DEF ParamsRejected, Fault, Resolve, Pending, Drop, LetRowGo, Done
<1>13. ASSUME NEW k \in Ticks, PostRetryable(k) PROVE Alive'
  <2> SUFFICES ASSUME NEW j \in Ticks, NEW s \in Sends, pc'[j] \in {"guest", "cap", "claim"},
                      cur'[j] = s, status'[s] = "pending", j \notin rearmed'
               PROVE  BookingOf[s] \notin withdrawn'
    OBVIOUS
  <2>1. j # k /\ pc[j] = pc'[j] /\ cur[j] = s /\ withdrawn' = withdrawn
    BY <1>13 DEF PostRetryable, LetRowGo, Done
  <2>2. j \notin rearmed /\ status[s] = "pending"
    BY <1>13, <2>1 DEF PostRetryable, ReArm
  <2> QED
    BY <2>1, <2>2
<1>14. ASSUME NEW k \in Ticks, PostFails(k) PROVE Alive'
  BY <1>14 DEF PostFails, Fault, Drop, LetRowGo, Done
<1>15. ASSUME NEW k \in Ticks, NEW B \in SUBSET Due, TickReads(k, B)
      PROVE  Alive'
  BY <1>15 DEF TickReads, Idle, Due, Pending
<1>16. CASE Crash
  BY <1>16 DEF Crash, Fault
<1> QED
  BY Steps, <1>1, <1>2, <1>3, <1>4, <1>5, <1>6, <1>7, <1>8, <1>9, <1>10, <1>11, <1>12, <1>13,
     <1>14, <1>15, <1>16
     DEF TickStep

(* It goes where it went when it was read, or is marked. *)
LEMMA BoundStep ==
  ASSUME Types, Planned, Withdrawn, Handling, Bound, [Next]_vars
  PROVE  Bound'
<1> USE DEF bookingVars, rowVars, guestVars, planVars, tickVars, sendHistory, marks, Types,
     RowTypes, TickTypes, PlanTypes, Handling, Bound
<1>1. CASE Outside
  <2>1. UNCHANGED <<batch, seen, cur, pc>> /\ \A k \in Ticks : rebound[k] \subseteq rebound'[k]
    BY <1>1 DEF Outside
  <2>2. ASSUME NEW k \in Ticks, NEW s \in Sends, s \in batch[k] \cup {cur[k]},
               s \in rebound[k] \/ seen[k][s] = guest[s]
        PROVE  s \in rebound'[k] \/ seen[k][s] = guest'[s]
    BY <1>1, <2>1, <2>2 DEF Outside, InHand
  <2>3. \A k \in Ticks : batch[k] \subseteq Sends
    OBVIOUS
  <2> QED
    BY <2>1, <2>2, <2>3
<1>2. ASSUME NEW k \in Ticks, NEW s \in Sends, SkipByMirror(k, s)
      PROVE  Bound'
  BY <1>2 DEF SkipByMirror, NextRow, Resolve, Pending, Done
<1>3. ASSUME NEW k \in Ticks, NEW s \in Sends, DeferByMirror(k, s)
      PROVE  Bound'
  BY <1>3 DEF DeferByMirror, NextRow, Done
<1>4. ASSUME NEW k \in Ticks, NEW s \in Sends, PassMirror(k, s) PROVE Bound'
  BY <1>4 DEF PassMirror, NextRow
<1>5. ASSUME NEW k \in Ticks, SkipByGuest(k) PROVE Bound'
  BY <1>5 DEF SkipByGuest, Blocked, Resolve, Pending, Drop, LetRowGo, Done
<1>6. ASSUME NEW k \in Ticks, PassConsent(k) PROVE Bound'
  BY <1>6 DEF PassConsent
<1>7. ASSUME NEW k \in Ticks, DeferByGuest(k) PROVE Bound'
  BY <1>7 DEF DeferByGuest, Drop, LetRowGo, Done
<1>8. ASSUME NEW k \in Ticks, PassGuest(k) PROVE Bound'
  BY <1>8 DEF PassGuest
<1>9. ASSUME NEW k \in Ticks, Claim(k) PROVE Bound'
  BY <1>9 DEF Claim, Claimable
<1>10. ASSUME NEW k \in Ticks, LoseClaim(k) PROVE Bound'
  BY <1>10 DEF LoseClaim, Drop, LetRowGo, Done
<1>11. ASSUME NEW k \in Ticks, PostLands(k) PROVE Bound'
  BY <1>11 DEF PostLands, Posted, Drop, LetRowGo, Done
<1>12. ASSUME NEW k \in Ticks, ParamsRejected(k) PROVE Bound'
  BY <1>12 DEF ParamsRejected, Fault, Resolve, Pending, Drop, LetRowGo, Done
<1>13. ASSUME NEW k \in Ticks, PostRetryable(k) PROVE Bound'
  BY <1>13 DEF PostRetryable, Fault, Posted, ReArm, LetRowGo, Done
<1>14. ASSUME NEW k \in Ticks, PostFails(k) PROVE Bound'
  BY <1>14 DEF PostFails, Fault, Drop, LetRowGo, Done
<1>15. ASSUME NEW k \in Ticks, NEW B \in SUBSET Due, TickReads(k, B)
      PROVE  Bound'
  <2>1. UNCHANGED <<guest, cur, rebound>>
    BY <1>15 DEF TickReads
  <2>2. \A j \in Ticks \ {k} : UNCHANGED <<batch[j], seen[j], pc[j]>>
    BY <1>15 DEF TickReads
  <2>3. pc'[k] = "gates" /\ batch'[k] = B /\ \A s \in B : seen'[k][s] = guest'[s]
    BY <1>15 DEF TickReads, Due, Pending
  <2> QED
    BY <2>1, <2>2, <2>3
<1>16. CASE Crash
  BY <1>16 DEF Crash, Fault
<1> QED
  BY Steps, <1>1, <1>2, <1>3, <1>4, <1>5, <1>6, <1>7, <1>8, <1>9, <1>10, <1>11, <1>12, <1>13,
     <1>14, <1>15, <1>16
     DEF TickStep

(* Whom the gates found willing is so, or the row is not what it was. *)
LEMMA WillingStep ==
  ASSUME Types, Planned, Withdrawn, Handling, Posting, Bound, Willing, [Next]_vars
  PROVE  Willing'
<1> USE DEF bookingVars, rowVars, guestVars, planVars, tickVars, sendHistory, marks, Types,
     RowTypes, TickTypes, PlanTypes, Handling
<1>1. CASE Outside
  <2> SUFFICES ASSUME NEW k \in Ticks, NEW s \in Sends, NEW g \in Phones,
                      pc[k] \in {"cap", "claim"}, cur[k] = s, guest'[s] = g,
                      KindOf[s] \in MARKETING_KINDS,
                      status'[s] = "pending", s \notin rebound'[k], k \notin rearmed
               PROVE  consent'[g] = "in"
    BY <1>1 DEF Outside, Willing
  <2>1. status[s] = "pending" /\ s \notin rebound[k] /\ s \in InHand(k)
    BY <1>1 DEF Outside, Calm, InHand
  <2>2. guest[s] = g
    BY <1>1, <2>1 DEF Outside
  <2>3. consent[g] = "in"
    BY <2>1, <2>2 DEF Willing
  <2> QED
    BY <1>1, <2>1, <2>2, <2>3 DEF Outside
<1>2. ASSUME NEW k \in Ticks, NEW s \in Sends, SkipByMirror(k, s) PROVE Willing'
  BY <1>2 DEF SkipByMirror, NextRow, Resolve, Pending, Done, Willing
<1>3. ASSUME NEW k \in Ticks, NEW s \in Sends, DeferByMirror(k, s) PROVE Willing'
  BY <1>3 DEF DeferByMirror, NextRow, Done, Willing
<1>4. ASSUME NEW k \in Ticks, NEW s \in Sends, PassMirror(k, s) PROVE Willing'
  BY <1>4 DEF PassMirror, NextRow, Willing
<1>5. ASSUME NEW k \in Ticks, SkipByGuest(k) PROVE Willing'
  BY <1>5 DEF SkipByGuest, Resolve, Pending, Drop, LetRowGo, Done, Willing
<1>6. ASSUME NEW k \in Ticks, PassConsent(k) PROVE Willing'
  <2>1. \A j \in Ticks \ {k} : pc'[j] = pc[j]
    BY <1>6 DEF PassConsent
  <2>2. ASSUME NEW s \in Sends, NEW g \in Phones, cur[k] = s, guest[s] = g,
               KindOf[s] \in MARKETING_KINDS, s \notin rebound[k]
        PROVE  consent[g] = "in"
    <3>1. seen[k][s] = g
      BY <1>6, <2>2 DEF PassConsent, Bound
    <3> QED
      BY <1>6, <2>2, <3>1 DEF PassConsent, Blocked, Unwilling, ForMarketing
  <2> QED
    BY <1>6, <2>1, <2>2 DEF PassConsent, Willing
<1>7. ASSUME NEW k \in Ticks, DeferByGuest(k) PROVE Willing'
  BY <1>7 DEF DeferByGuest, Drop, LetRowGo, Done, Willing
<1>8. ASSUME NEW k \in Ticks, PassGuest(k) PROVE Willing'
  BY <1>8 DEF PassGuest, Willing
<1>9. ASSUME NEW k \in Ticks, Claim(k) PROVE Willing'
  BY <1>9 DEF Claim, Claimable, Willing
<1>10. ASSUME NEW k \in Ticks, LoseClaim(k) PROVE Willing'
  BY <1>10 DEF LoseClaim, Drop, LetRowGo, Done, Willing
<1>11. ASSUME NEW k \in Ticks, PostLands(k) PROVE Willing'
  BY <1>11 DEF PostLands, Posted, Drop, LetRowGo, Done, Willing
<1>12. ASSUME NEW k \in Ticks, ParamsRejected(k) PROVE Willing'
  BY <1>12 DEF ParamsRejected, Fault, Resolve, Pending, Drop, LetRowGo, Done, Willing
<1>13. ASSUME NEW k \in Ticks, PostRetryable(k) PROVE Willing'
  <2> SUFFICES ASSUME NEW j \in Ticks, NEW s \in Sends, NEW g \in Phones,
                      pc'[j] \in {"cap", "claim"}, cur'[j] = s, guest'[s] = g,
                      KindOf[s] \in MARKETING_KINDS,
                      status'[s] = "pending", s \notin rebound'[j], j \notin rearmed'
               PROVE  consent'[g] = "in"
    BY DEF Willing
  <2>1. /\ j # k /\ pc[j] \in {"cap", "claim"} /\ cur[j] = s /\ UNCHANGED <<guest, consent>>
        /\ s \notin rebound[j]
    BY <1>13 DEF PostRetryable, LetRowGo, Done
  <2>2. j \notin rearmed /\ status[s] = "pending"
    BY <1>13, <2>1 DEF PostRetryable, ReArm
  <2> QED
    BY <2>1, <2>2 DEF Willing
<1>14. ASSUME NEW k \in Ticks, PostFails(k) PROVE Willing'
  BY <1>14 DEF PostFails, Fault, Drop, LetRowGo, Done, Willing
<1>15. ASSUME NEW k \in Ticks, NEW B \in SUBSET Due, TickReads(k, B)
      PROVE  Willing'
  BY <1>15 DEF TickReads, Idle, Due, Pending, Willing
<1>16. CASE Crash
  BY <1>16 DEF Crash, Fault, Willing
<1> QED
  BY Steps, <1>1, <1>2, <1>3, <1>4, <1>5, <1>6, <1>7, <1>8, <1>9, <1>10, <1>11, <1>12, <1>13,
     <1>14, <1>15, <1>16
     DEF TickStep

-----------------------------------------------------------------------------
(* As long as no tick has outlasted its job, the count that was read stands. *)

(* A tick does not stop outlasting its job. *)
LEMMA OverrunsStep ==
  ASSUME Types, Planned, Withdrawn, [Next]_vars, overruns' = 0
  PROVE  overruns = 0
<1> USE DEF tickVars
<1>1. CASE \E k \in Ticks, B \in SUBSET Due : TickReads(k, B)
  BY <1>1, BoundsAssumption DEF TickReads, Types, TickTypes
<1>2. CASE overruns' = overruns
  BY <1>2
<1> QED
  BY <1>1, <1>2, Steps
     DEF Outside, Crash, TickStep, SkipByMirror, DeferByMirror, PassMirror, SkipByGuest,
         PassConsent, DeferByGuest, PassGuest, Claim, LoseClaim, PostLands, ParamsRejected,
         PostRetryable, PostFails

(* There is one tick at a time. *)
LEMMA AloneStep ==
  ASSUME Types, Planned, Withdrawn, Alone, overruns' = 0, [Next]_vars
  PROVE  Alone'
<1> USE DEF bookingVars, rowVars, guestVars, planVars, tickVars, sendHistory, marks, Types,
     RowTypes, TickTypes, PlanTypes, Alone, Idle
<1>1. CASE Outside
  BY <1>1 DEF Outside
<1>2. ASSUME NEW k \in Ticks, NEW s \in Sends, SkipByMirror(k, s)
      PROVE  Alone'
  BY <1>2 DEF SkipByMirror, NextRow, Resolve, Pending, Done
<1>3. ASSUME NEW k \in Ticks, NEW s \in Sends, DeferByMirror(k, s)
      PROVE  Alone'
  BY <1>3 DEF DeferByMirror, NextRow, Done
<1>4. ASSUME NEW k \in Ticks, NEW s \in Sends, PassMirror(k, s) PROVE Alone'
  BY <1>4 DEF PassMirror, NextRow
<1>5. ASSUME NEW k \in Ticks, SkipByGuest(k) PROVE Alone'
  BY <1>5 DEF SkipByGuest, Blocked, Resolve, Pending, Drop, LetRowGo, Done
<1>6. ASSUME NEW k \in Ticks, PassConsent(k) PROVE Alone'
  BY <1>6 DEF PassConsent
<1>7. ASSUME NEW k \in Ticks, DeferByGuest(k) PROVE Alone'
  BY <1>7 DEF DeferByGuest, Drop, LetRowGo, Done
<1>8. ASSUME NEW k \in Ticks, PassGuest(k) PROVE Alone'
  BY <1>8 DEF PassGuest
<1>9. ASSUME NEW k \in Ticks, Claim(k) PROVE Alone'
  BY <1>9 DEF Claim, Claimable
<1>10. ASSUME NEW k \in Ticks, LoseClaim(k) PROVE Alone'
  BY <1>10 DEF LoseClaim, Drop, LetRowGo, Done
<1>11. ASSUME NEW k \in Ticks, PostLands(k) PROVE Alone'
  BY <1>11 DEF PostLands, Posted, Drop, LetRowGo, Done
<1>12. ASSUME NEW k \in Ticks, ParamsRejected(k) PROVE Alone'
  BY <1>12 DEF ParamsRejected, Fault, Resolve, Pending, Drop, LetRowGo, Done
<1>13. ASSUME NEW k \in Ticks, PostRetryable(k) PROVE Alone'
  BY <1>13 DEF PostRetryable, Fault, Posted, ReArm, LetRowGo, Done
<1>14. ASSUME NEW k \in Ticks, PostFails(k) PROVE Alone'
  BY <1>14 DEF PostFails, Fault, Drop, LetRowGo, Done
<1>15. ASSUME NEW k \in Ticks, NEW B \in SUBSET Due, TickReads(k, B)
      PROVE  Alone'
  <2>1. \A j \in Ticks : pc[j] = "idle"
    BY <1>15, OverrunsStep DEF TickReads
  <2> QED
    BY <1>15, <2>1 DEF TickReads
<1>16. CASE Crash
  BY <1>16 DEF Crash, Fault
<1> QED
  BY Steps, <1>1, <1>2, <1>3, <1>4, <1>5, <1>6, <1>7, <1>8, <1>9, <1>10, <1>11, <1>12, <1>13,
     <1>14, <1>15, <1>16
     DEF TickStep

(* A guest has no more of a kind if nothing more is sent. *)
LEMMA SentStays ==
  ASSUME NEW g \in Phones, NEW kind \in MARKETING_KINDS,
         \A s \in Sends : status'[s] = "sent" => status[s] = "sent" /\ guest'[s] = guest[s]
  PROVE  /\ Cardinality(SentOf(g, kind)) \in Nat /\ Cardinality(SentOf(g, kind)') \in Nat
         /\ Cardinality(SentOf(g, kind)') <= Cardinality(SentOf(g, kind))
<1>1. SentOf(g, kind)' \subseteq SentOf(g, kind) /\ SentOf(g, kind) \subseteq Sends
  BY DEF SentOf
<1>2. IsFiniteSet(SentOf(g, kind))
  BY <1>1, FS_Subset, SendsAssumption
<1> QED
  BY <1>1, <1>2, FS_Subset, FS_CardinalityType

(* Nor has it more of those that were addressed to it. *)
LEMMA AddressedStays ==
  ASSUME NEW g \in Phones, NEW kind \in MARKETING_KINDS, strayed' = strayed,
         \A s \in Sends : status'[s] = "sent" => status[s] = "sent" /\ guest'[s] = guest[s]
  PROVE  /\ Cardinality(Addressed(g, kind)) \in Nat
         /\ Cardinality(Addressed(g, kind)') \in Nat
         /\ Cardinality(Addressed(g, kind)') <= Cardinality(Addressed(g, kind))
<1>1. Addressed(g, kind)' \subseteq Addressed(g, kind) /\ Addressed(g, kind) \subseteq Sends
  BY DEF Addressed, SentOf
<1>2. IsFiniteSet(Addressed(g, kind))
  BY <1>1, FS_Subset, SendsAssumption
<1> QED
  BY <1>1, <1>2, FS_Subset, FS_CardinalityType

(* The caps are numbers. *)
LEMMA CapIsNat == \A kind \in MARKETING_KINDS : Cap(kind) \in Nat
BY BoundsAssumption DEF Cap

(* Outside of the sender, nothing is sent. *)
LEMMA OutsideSendsNothing ==
  ASSUME Types, Outside
  PROVE  \A s \in Sends : status'[s] = "sent" => status[s] = "sent" /\ guest'[s] = guest[s]
BY DEF Outside, Calm

(* What the gates of a guest let through has room, or is marked. *)
LEMMA RoomStep ==
  ASSUME Types, Planned, Withdrawn, Handling, Alone, Bound, Room, overruns' = 0, [Next]_vars
  PROVE  Room'
<1> USE DEF bookingVars, rowVars, guestVars, planVars, tickVars, sendHistory, marks, Types,
     RowTypes, TickTypes, PlanTypes, Handling, Alone
<1>1. CASE Outside
  <2> SUFFICES ASSUME NEW k \in Ticks, NEW s \in Sends, NEW g \in Phones, pc[k] = "claim",
                      cur[k] = s, guest'[s] = g, KindOf[s] \in MARKETING_KINDS,
                      s \notin rebound'[k]
               PROVE  Cardinality(SentOf(g, KindOf[s])') < Cap(KindOf[s])
    BY <1>1 DEF Outside, Room, Cap
  <2>1. s \notin rebound[k] /\ s \in InHand(k)
    BY <1>1 DEF Outside, InHand
  <2>2. guest[s] = g
    BY <1>1, <2>1 DEF Outside
  <2>3. Cardinality(SentOf(g, KindOf[s])) < Cap(KindOf[s])
    BY <2>1, <2>2 DEF Room
  <2>4. /\ Cardinality(SentOf(g, KindOf[s])) \in Nat /\ Cardinality(SentOf(g, KindOf[s])') \in Nat
        /\ Cardinality(SentOf(g, KindOf[s])') <= Cardinality(SentOf(g, KindOf[s]))
    BY <1>1, OutsideSendsNothing, SentStays
  <2>5. Cap(KindOf[s]) \in Nat
    BY CapIsNat
  <2> QED
    BY <2>3, <2>4, <2>5
<1>2. ASSUME NEW k \in Ticks, NEW s \in Sends, SkipByMirror(k, s)
      PROVE  Room'
  <2>1. pc'[k] # "claim" /\ \A j \in Ticks \ {k} : pc'[j] = pc[j] /\ pc[j] # "claim"
    BY <1>2 DEF SkipByMirror, NextRow, Resolve, Pending, Done
  <2> QED
    BY <2>1 DEF Room
<1>3. ASSUME NEW k \in Ticks, NEW s \in Sends, DeferByMirror(k, s)
      PROVE  Room'
  <2>1. pc'[k] # "claim" /\ \A j \in Ticks \ {k} : pc'[j] = pc[j] /\ pc[j] # "claim"
    BY <1>3 DEF DeferByMirror, NextRow, Done
  <2> QED
    BY <2>1 DEF Room
<1>4. ASSUME NEW k \in Ticks, NEW s \in Sends, PassMirror(k, s) PROVE Room'
  <2>1. pc'[k] # "claim" /\ \A j \in Ticks \ {k} : pc'[j] = pc[j] /\ pc[j] # "claim"
    BY <1>4 DEF PassMirror, NextRow
  <2> QED
    BY <2>1 DEF Room
<1>5. ASSUME NEW k \in Ticks, SkipByGuest(k) PROVE Room'
  <2>1. pc'[k] # "claim" /\ \A j \in Ticks \ {k} : pc'[j] = pc[j] /\ pc[j] # "claim"
    BY <1>5 DEF SkipByGuest, Blocked, Resolve, Pending, Drop, LetRowGo, Done
  <2> QED
    BY <2>1 DEF Room
<1>6. ASSUME NEW k \in Ticks, PassConsent(k) PROVE Room'
  <2>1. pc'[k] # "claim" /\ \A j \in Ticks \ {k} : pc'[j] = pc[j] /\ pc[j] # "claim"
    BY <1>6 DEF PassConsent
  <2> QED
    BY <2>1 DEF Room
<1>7. ASSUME NEW k \in Ticks, DeferByGuest(k) PROVE Room'
  <2>1. pc'[k] # "claim" /\ \A j \in Ticks \ {k} : pc'[j] = pc[j] /\ pc[j] # "claim"
    BY <1>7 DEF DeferByGuest, Drop, LetRowGo, Done
  <2> QED
    BY <2>1 DEF Room
<1>8. ASSUME NEW k \in Ticks, PassGuest(k) PROVE Room'
  <2>1. \A j \in Ticks \ {k} : pc'[j] # "claim"
    BY <1>8 DEF PassGuest
  <2> SUFFICES ASSUME NEW s \in Sends, NEW g \in Phones, cur[k] = s, guest[s] = g,
                      KindOf[s] \in MARKETING_KINDS, s \notin rebound[k]
               PROVE  Cardinality(SentOf(g, KindOf[s])') < Cap(KindOf[s])
    BY <1>8, <2>1 DEF PassGuest, Room, Cap
  <2>2. seen[k][s] = g
    BY <1>8 DEF PassGuest, Bound
  <2>3. ~(Cardinality(SentOf(g, KindOf[s])) >= Cap(KindOf[s]))
    BY <1>8, <2>2 DEF PassGuest, Blocked, AtCap, ForMarketing
  <2>4. Cap(KindOf[s]) \in Nat /\ Cardinality(SentOf(g, KindOf[s])) \in Nat
    <3>1. SentOf(g, KindOf[s]) \subseteq Sends
      BY DEF SentOf
    <3> QED
      BY <3>1, CapIsNat, FS_Subset, FS_CardinalityType, SendsAssumption
  <2>5. Cardinality(SentOf(g, KindOf[s])) < Cap(KindOf[s])
    BY <2>3, <2>4
  <2> QED
    BY <1>8, <2>5 DEF PassGuest, SentOf
<1>9. ASSUME NEW k \in Ticks, Claim(k) PROVE Room'
  <2>1. pc[k] = "claim" /\ pc' = [pc EXCEPT ![k] = "post"]
    BY <1>9 DEF Claim
  <2>2. \A j \in Ticks \ {k} : pc[j] = "idle"
    BY <2>1
  <2>3. \A j \in Ticks : pc'[j] # "claim"
    BY <2>1, <2>2
  <2> QED
    BY <2>3 DEF Room
<1>10. ASSUME NEW k \in Ticks, LoseClaim(k) PROVE Room'
  <2>1. pc'[k] # "claim" /\ \A j \in Ticks \ {k} : pc'[j] = pc[j] /\ pc[j] # "claim"
    BY <1>10 DEF LoseClaim, Drop, LetRowGo, Done
  <2> QED
    BY <2>1 DEF Room
<1>11. ASSUME NEW k \in Ticks, PostLands(k) PROVE Room'
  <2>1. pc[k] = "post" /\ pc' = [pc EXCEPT ![k] = IF batch'[k] = {} THEN "idle" ELSE "gates"]
    BY <1>11 DEF PostLands, Drop, LetRowGo, Done
  <2>2. \A j \in Ticks \ {k} : pc[j] = "idle"
    BY <2>1
  <2>3. \A j \in Ticks : pc'[j] # "claim"
    BY <2>1, <2>2
  <2> QED
    BY <2>3 DEF Room
<1>12. ASSUME NEW k \in Ticks, ParamsRejected(k) PROVE Room'
  <2>1. pc'[k] # "claim" /\ \A j \in Ticks \ {k} : pc'[j] = pc[j] /\ pc[j] # "claim"
    BY <1>12 DEF ParamsRejected, Fault, Resolve, Pending, Drop, LetRowGo, Done
  <2> QED
    BY <2>1 DEF Room
<1>13. ASSUME NEW k \in Ticks, PostRetryable(k) PROVE Room'
  <2>1. pc'[k] # "claim" /\ \A j \in Ticks \ {k} : pc'[j] = pc[j] /\ pc[j] # "claim"
    BY <1>13 DEF PostRetryable, Fault, Posted, ReArm, LetRowGo, Done
  <2> QED
    BY <2>1 DEF Room
<1>14. ASSUME NEW k \in Ticks, PostFails(k) PROVE Room'
  <2>1. pc[k] = "post" /\ pc' = [pc EXCEPT ![k] = IF batch'[k] = {} THEN "idle" ELSE "gates"]
    BY <1>14 DEF PostFails, Drop, LetRowGo, Done
  <2>2. \A j \in Ticks \ {k} : pc[j] = "idle"
    BY <2>1
  <2>3. \A j \in Ticks : pc'[j] # "claim"
    BY <2>1, <2>2
  <2> QED
    BY <2>3 DEF Room
<1>15. ASSUME NEW k \in Ticks, NEW B \in SUBSET Due, TickReads(k, B)
      PROVE  Room'
  <2>1. \A j \in Ticks : pc[j] = "idle"
    BY <1>15, OverrunsStep DEF TickReads, Idle
  <2>2. \A j \in Ticks : pc'[j] # "claim"
    BY <1>15, <2>1 DEF TickReads
  <2> QED
    BY <2>2 DEF Room
<1>16. CASE Crash
  <2>1. \A j \in Ticks : pc'[j] # "claim"
    BY <1>16 DEF Crash
  <2> QED
    BY <2>1 DEF Room
<1> QED
  BY Steps, <1>1, <1>2, <1>3, <1>4, <1>5, <1>6, <1>7, <1>8, <1>9, <1>10, <1>11, <1>12, <1>13,
     <1>14, <1>15, <1>16
     DEF TickStep

(* No guest gets more than a cap. *)
LEMMA CappedStep ==
  ASSUME Types, Planned, Withdrawn, Handling, Room, Capped, overruns' = 0,
         [Next]_vars
  PROVE  Capped'
<1> USE DEF bookingVars, rowVars, guestVars, planVars, tickVars, sendHistory, marks, Types,
     RowTypes, TickTypes, PlanTypes, Handling, Capped
<1>1. CASE Outside
  <2>1. strayed' = strayed
    BY <1>1 DEF Outside
  <2> QED
    BY <1>1, <2>1, OutsideSendsNothing, AddressedStays, CapIsNat
<1>2. ASSUME NEW k \in Ticks, NEW s \in Sends, SkipByMirror(k, s)
      PROVE  Capped'
  <2>1. /\ \A t \in Sends : status'[t] = "sent" => status[t] = "sent" /\ guest'[t] = guest[t]
        /\ strayed' = strayed
    BY <1>2 DEF SkipByMirror, NextRow, Resolve, Pending, Done
  <2> QED
    BY <2>1, AddressedStays, CapIsNat
<1>3. ASSUME NEW k \in Ticks, NEW s \in Sends, DeferByMirror(k, s)
      PROVE  Capped'
  <2>1. /\ \A t \in Sends : status'[t] = "sent" => status[t] = "sent" /\ guest'[t] = guest[t]
        /\ strayed' = strayed
    BY <1>3 DEF DeferByMirror, NextRow, Done
  <2> QED
    BY <2>1, AddressedStays, CapIsNat
<1>4. ASSUME NEW k \in Ticks, NEW s \in Sends, PassMirror(k, s) PROVE Capped'
  <2>1. /\ \A t \in Sends : status'[t] = "sent" => status[t] = "sent" /\ guest'[t] = guest[t]
        /\ strayed' = strayed
    BY <1>4 DEF PassMirror, NextRow
  <2> QED
    BY <2>1, AddressedStays, CapIsNat
<1>5. ASSUME NEW k \in Ticks, SkipByGuest(k) PROVE Capped'
  <2>1. /\ \A t \in Sends : status'[t] = "sent" => status[t] = "sent" /\ guest'[t] = guest[t]
        /\ strayed' = strayed
    BY <1>5 DEF SkipByGuest, Resolve, Pending, Drop, LetRowGo, Done
  <2> QED
    BY <2>1, AddressedStays, CapIsNat
<1>6. ASSUME NEW k \in Ticks, PassConsent(k) PROVE Capped'
  <2>1. /\ \A t \in Sends : status'[t] = "sent" => status[t] = "sent" /\ guest'[t] = guest[t]
        /\ strayed' = strayed
    BY <1>6 DEF PassConsent
  <2> QED
    BY <2>1, AddressedStays, CapIsNat
<1>7. ASSUME NEW k \in Ticks, DeferByGuest(k) PROVE Capped'
  <2>1. /\ \A t \in Sends : status'[t] = "sent" => status[t] = "sent" /\ guest'[t] = guest[t]
        /\ strayed' = strayed
    BY <1>7 DEF DeferByGuest, Drop, LetRowGo, Done
  <2> QED
    BY <2>1, AddressedStays, CapIsNat
<1>8. ASSUME NEW k \in Ticks, PassGuest(k) PROVE Capped'
  <2>1. /\ \A t \in Sends : status'[t] = "sent" => status[t] = "sent" /\ guest'[t] = guest[t]
        /\ strayed' = strayed
    BY <1>8 DEF PassGuest
  <2> QED
    BY <2>1, AddressedStays, CapIsNat
<1>9. ASSUME NEW k \in Ticks, Claim(k) PROVE Capped'
  <2> SUFFICES ASSUME NEW g \in Phones, NEW kind \in MARKETING_KINDS
               PROVE  Cardinality(Addressed(g, kind)') <= Cap(kind)
    BY DEF Cap
  <2>1. PICK s \in Sends : s = cur[k]
    BY <1>9 DEF Claim
  <2>2. /\ status[s] = "pending" /\ status' = [status EXCEPT ![s] = "sent"] /\ guest' = guest
        /\ strayed' = IF s \in rebound[k] THEN strayed \cup {s} ELSE strayed
    BY <1>9, <2>1 DEF Claim, Claimable
  <2>3. Addressed(g, kind) \subseteq SentOf(g, kind) /\ SentOf(g, kind) \subseteq Sends
    BY DEF Addressed, SentOf
  <2>4. /\ IsFiniteSet(SentOf(g, kind)) /\ IsFiniteSet(Addressed(g, kind))
        /\ Cardinality(SentOf(g, kind)) \in Nat /\ Cardinality(Addressed(g, kind)) \in Nat
        /\ Cardinality(Addressed(g, kind)) <= Cardinality(SentOf(g, kind))
    BY <2>3, FS_Subset, FS_CardinalityType, SendsAssumption
  <2>5. Cap(kind) \in Nat /\ Cardinality(Addressed(g, kind)) <= Cap(kind)
    BY CapIsNat
  <2>6. CASE guest[s] = g /\ KindOf[s] = kind /\ s \notin rebound[k] /\ s \notin strayed
    <3>1. Addressed(g, kind)' = Addressed(g, kind) \cup {s} /\ s \notin Addressed(g, kind)
      BY <2>2, <2>6 DEF Addressed, SentOf
    <3>2. Cardinality(SentOf(g, kind)) < Cap(kind)
      BY <1>9, <2>1, <2>6 DEF Claim, Room
    <3>3. Cardinality(Addressed(g, kind) \cup {s}) = Cardinality(Addressed(g, kind)) + 1
      BY <2>4, <3>1, FS_AddElement
    <3> QED
      BY <2>4, <2>5, <3>1, <3>2, <3>3
  <2>7. CASE ~(guest[s] = g /\ KindOf[s] = kind /\ s \notin rebound[k] /\ s \notin strayed)
    <3>1. Addressed(g, kind)' = Addressed(g, kind)
      BY <2>2, <2>7 DEF Addressed, SentOf
    <3> QED
      BY <2>5, <3>1
  <2> QED
    BY <2>6, <2>7
<1>10. ASSUME NEW k \in Ticks, LoseClaim(k) PROVE Capped'
  <2>1. /\ \A t \in Sends : status'[t] = "sent" => status[t] = "sent" /\ guest'[t] = guest[t]
        /\ strayed' = strayed
    BY <1>10 DEF LoseClaim, Drop, LetRowGo, Done
  <2> QED
    BY <2>1, AddressedStays, CapIsNat
<1>11. ASSUME NEW k \in Ticks, PostLands(k) PROVE Capped'
  <2>1. /\ \A t \in Sends : status'[t] = "sent" => status[t] = "sent" /\ guest'[t] = guest[t]
        /\ strayed' = strayed
    BY <1>11 DEF PostLands, Posted, Drop, LetRowGo, Done
  <2> QED
    BY <2>1, AddressedStays, CapIsNat
<1>12. ASSUME NEW k \in Ticks, ParamsRejected(k) PROVE Capped'
  <2>1. /\ \A t \in Sends : status'[t] = "sent" => status[t] = "sent" /\ guest'[t] = guest[t]
        /\ strayed' = strayed
    BY <1>12 DEF ParamsRejected, Fault, Resolve, Pending, Drop, LetRowGo, Done
  <2> QED
    BY <2>1, AddressedStays, CapIsNat
<1>13. ASSUME NEW k \in Ticks, PostRetryable(k) PROVE Capped'
  <2>1. /\ \A t \in Sends : status'[t] = "sent" => status[t] = "sent" /\ guest'[t] = guest[t]
        /\ strayed' = strayed
    BY <1>13 DEF PostRetryable, ReArm
  <2> QED
    BY <2>1, AddressedStays, CapIsNat
<1>14. ASSUME NEW k \in Ticks, PostFails(k) PROVE Capped'
  <2>1. /\ \A t \in Sends : status'[t] = "sent" => status[t] = "sent" /\ guest'[t] = guest[t]
        /\ strayed' = strayed
    BY <1>14 DEF PostFails, Fault, Drop, LetRowGo, Done
  <2> QED
    BY <2>1, AddressedStays, CapIsNat
<1>15. ASSUME NEW k \in Ticks, NEW B \in SUBSET Due, TickReads(k, B)
      PROVE  Capped'
  <2>1. /\ \A t \in Sends : status'[t] = "sent" => status[t] = "sent" /\ guest'[t] = guest[t]
        /\ strayed' = strayed
    BY <1>15 DEF TickReads, Idle, Due, Pending
  <2> QED
    BY <2>1, AddressedStays, CapIsNat
<1>16. CASE Crash
  <2>1. /\ \A t \in Sends : status'[t] = "sent" => status[t] = "sent" /\ guest'[t] = guest[t]
        /\ strayed' = strayed
    BY <1>16 DEF Crash, Fault
  <2> QED
    BY <2>1, AddressedStays, CapIsNat
<1> QED
  BY Steps, <1>1, <1>2, <1>3, <1>4, <1>5, <1>6, <1>7, <1>8, <1>9, <1>10, <1>11, <1>12, <1>13,
     <1>14, <1>15, <1>16
     DEF TickStep

-----------------------------------------------------------------------------
(* Together. *)

LEMMA InitInv == Init => Inv
<1> SUFFICES ASSUME Init PROVE Inv
  OBVIOUS
<1>1. PICK p \in [Old -> Phones] :
        /\ mirror = [b \in Bookings |->
                      IF b \in Old THEN [state |-> "lived", phone |-> p[b], source |-> TRUE,
                                         words |-> "ok", stay |-> "over"]
                      ELSE Absent]
        /\ guest = [s \in Sends |-> IF BookingOf[s] \in Old THEN p[BookingOf[s]] ELSE LeadOf[s]]
  BY DEF Init
<1>2. mirror \in [Bookings -> MirrorRows]
  <2>1. \A x \in Phones : [state |-> "lived", phone |-> x, source |-> TRUE,
                            words |-> "ok", stay |-> "over"] \in MirrorRows
    BY DEF MirrorRows, States, Stays
  <2> QED
    BY <1>1, <2>1, AbsentRow, BoundsAssumption
<1>3. guest \in [Sends -> Phones]
  BY <1>1, SendsAssumption, BoundsAssumption
<1>4. BookingTypes /\ Withdrawn
  BY <1>2, BoundsAssumption DEF Init, BookingTypes, Withdrawn
<1>5. RowTypes
  BY <1>3, BoundsAssumption DEF Init, RowTypes, Statuses
<1>6. PlanTypes /\ Planned
  BY AbsentRow DEF Init, PlanTypes, Planned
<1>7. TickTypes /\ Handling /\ Posting /\ Alive /\ Bound /\ Willing /\ Alone /\ Room
  BY BoundsAssumption
     DEF Init, TickTypes, Handling, Posting, Alive, Bound, Willing, Alone, Room
<1>8. Copies
  BY DEF Init, Copies, Landed
<1>9. Capped
  <2> SUFFICES ASSUME NEW g \in Phones, NEW kind \in MARKETING_KINDS
               PROVE  Cardinality(Addressed(g, kind)) <= Cap(kind)
    BY DEF Capped
  <2>1. Addressed(g, kind) = {}
    BY BoundsAssumption DEF Init, Addressed, SentOf, MARKETING_KINDS
  <2> QED
    BY <2>1, FS_EmptySet, CapIsNat
<1> QED
  BY <1>4, <1>5, <1>6, <1>7, <1>8, <1>9 DEF Inv, Types

LEMMA StepInv == Inv /\ [Next]_vars => Inv'
<1> SUFFICES ASSUME Inv, [Next]_vars PROVE Inv'
  OBVIOUS
<1>1. /\ Types /\ Planned /\ Handling /\ Posting /\ Copies /\ Withdrawn
      /\ Alive /\ Bound /\ Willing
  BY DEF Inv
<1>2. Types' /\ Planned'
  BY <1>1, BookingStep, RowStep, PlanTypeStep, TickTypeStep, PlannedStep DEF Types
<1>3. Withdrawn' /\ Handling' /\ Posting' /\ Copies'
  BY <1>1, WithdrawnStep, HandlingStep, PostingStep, CopiesStep
<1>4. Alive' /\ Bound' /\ Willing'
  BY <1>1, AliveStep, BoundStep, WillingStep
<1>5. ASSUME overruns' = 0 PROVE (Alone /\ Room /\ Capped)'
  <2>1. Alone /\ Room /\ Capped
    BY <1>1, <1>5, OverrunsStep DEF Inv
  <2> QED
    BY <1>1, <1>5, <2>1, AloneStep, RoomStep, CappedStep
<1> QED
  BY <1>2, <1>3, <1>4, <1>5 DEF Inv

(* The invariant holds of every behaviour. *)
THEOREM Inductive == Spec => []Inv
BY InitInv, StepInv, PTL DEF Spec

(* Every variable of the engine keeps to its type. *)
THEOREM TypeCorrect == Spec => []TypeOK
<1>1. Inv => TypeOK
  BY DEF Inv, Types, BookingTypes, RowTypes, PlanTypes, TickTypes, Copies, TypeOK
<1> QED
  BY <1>1, Inductive, PTL

(* Meta accepts no second copy of a send, but after a doubtful failure: a   *)
(* row that was claimed once is posted by its own tick alone, and is armed  *)
(* again but by that tick.                                                  *)
THEOREM OneCopySafe == Spec => []OneCopy
<1>1. Inv => OneCopy
  BY DEF Inv, Copies, OneCopy
<1> QED
  BY <1>1, Inductive, PTL

(* Of a send, a guest has got one copy at most besides the doubtful ones,   *)
(* and only if its row says sent.                                           *)
LEMMA GotOnce ==
  ASSUME Types, Copies, NEW g \in Phones, NEW kind \in MARKETING_KINDS
  PROVE  Got(g, kind) \subseteq {<<s, doubts[s] + 1>> : s \in Addressed(g, kind)}
<1> SUFFICES ASSUME NEW s \in Sends, NEW i \in doubts[s] + 1 .. copies[s],
                    KindOf[s] = kind, guest[s] = g, s \notin strayed
             PROVE  i = doubts[s] + 1 /\ s \in Addressed(g, kind)
  BY DEF Got
<1>1. doubts[s] \in Nat /\ copies[s] \in Nat /\ copies[s] <= doubts[s] + 1
  BY DEF Copies
<1>2. i = doubts[s] + 1 /\ ~(copies[s] <= doubts[s])
  BY <1>1
<1>3. status[s] = "sent"
  BY <1>2 DEF Copies, Landed
<1> QED
  BY <1>2, <1>3 DEF Addressed, SentOf

(* No guest gets more of a marketing kind than its cap, whatever plans,     *)
(* leads and bookings change while a batch is under way, as long as no tick *)
(* outlasts its job; not counted, as in the code, are copies that Meta      *)
(* accepted of attempts reported as failed, and rows that changed guests.   *)
THEOREM CapHoldsSafe == Spec => []CapHolds
<1>1. ASSUME Inv, overruns = 0, NEW g \in Phones, NEW kind \in MARKETING_KINDS
      PROVE  Cardinality(Got(g, kind)) <= Cap(kind)
  <2> DEFINE A == Addressed(g, kind)
             f == [s \in A |-> <<s, doubts[s] + 1>>]
             D == {f[s] : s \in A}
  <2>1. IsFiniteSet(A) /\ Cardinality(A) <= Cap(kind)
    <3>1. A \subseteq Sends
      BY DEF Addressed, SentOf
    <3> QED
      BY <1>1, <3>1, FS_Subset, SendsAssumption DEF Inv, Capped
  <2>2. IsFiniteSet(D) /\ Cardinality(D) <= Cardinality(A)
    <3>1. f \in Surjection(A, D)
      BY DEF Surjection
    <3> HIDE DEF f, D, A
    <3> QED
      BY <2>1, <3>1, FS_Surjection
  <2>3. Got(g, kind) \subseteq D
    BY <1>1, GotOnce DEF Inv
  <2>4. IsFiniteSet(Got(g, kind)) /\ Cardinality(Got(g, kind)) <= Cardinality(D)
    BY <2>2, <2>3, FS_Subset
  <2>5. /\ Cardinality(Got(g, kind)) \in Nat /\ Cardinality(A) \in Nat
        /\ Cardinality(D) \in Nat /\ Cap(kind) \in Nat
    BY <2>1, <2>2, <2>4, FS_CardinalityType, CapIsNat
  <2> HIDE DEF A, D
  <2> QED
    BY <2>1, <2>2, <2>4, <2>5
<1>2. Inv => CapHolds
  BY <1>1 DEF CapHolds
<1> QED
  BY <1>2, Inductive, PTL

(* What a step may make of a row that was decided. *)
Kept(s) ==
  /\ status[s] \in {"skipped", "cancelled", "failed"} => status'[s] = status[s]
  /\ status[s] = "sent" /\ status'[s] # "sent" =>
       \E k \in Ticks : pc[k] = "post" /\ cur[k] = s /\ status'[s] \in {"pending", "failed"}

(* Every step keeps it. *)
LEMMA KeptStep ==
  ASSUME Types, Planned, Withdrawn, Handling, Posting, NEW t \in Sends, [Next]_vars
  PROVE  Kept(t)
<1> USE DEF bookingVars, rowVars, guestVars, planVars, tickVars, sendHistory, marks, Types,
     RowTypes, TickTypes, PlanTypes, Handling, Posting, Kept
<1>1. CASE Outside
  BY <1>1 DEF Outside, Calm
<1>2. ASSUME NEW k \in Ticks, NEW s \in Sends, SkipByMirror(k, s)
      PROVE  Kept(t)
  BY <1>2 DEF SkipByMirror, NextRow, Resolve, Pending, Done
<1>3. ASSUME NEW k \in Ticks, NEW s \in Sends, DeferByMirror(k, s)
      PROVE  Kept(t)
  BY <1>3 DEF DeferByMirror, NextRow, Done
<1>4. ASSUME NEW k \in Ticks, NEW s \in Sends, PassMirror(k, s) PROVE Kept(t)
  BY <1>4 DEF PassMirror, NextRow
<1>5. ASSUME NEW k \in Ticks, SkipByGuest(k) PROVE Kept(t)
  BY <1>5 DEF SkipByGuest, Resolve, Pending, Drop, LetRowGo, Done
<1>6. ASSUME NEW k \in Ticks, PassConsent(k) PROVE Kept(t)
  BY <1>6 DEF PassConsent
<1>7. ASSUME NEW k \in Ticks, DeferByGuest(k) PROVE Kept(t)
  BY <1>7 DEF DeferByGuest, Drop, LetRowGo, Done
<1>8. ASSUME NEW k \in Ticks, PassGuest(k) PROVE Kept(t)
  BY <1>8 DEF PassGuest
<1>9. ASSUME NEW k \in Ticks, Claim(k) PROVE Kept(t)
  BY <1>9 DEF Claim, Claimable
<1>10. ASSUME NEW k \in Ticks, LoseClaim(k) PROVE Kept(t)
  BY <1>10 DEF LoseClaim, Drop, LetRowGo, Done
<1>11. ASSUME NEW k \in Ticks, PostLands(k) PROVE Kept(t)
  BY <1>11 DEF PostLands, Posted, Drop, LetRowGo, Done
<1>12. ASSUME NEW k \in Ticks, ParamsRejected(k) PROVE Kept(t)
  BY <1>12 DEF ParamsRejected, Fault, Resolve, Pending, Drop, LetRowGo, Done
<1>13. ASSUME NEW k \in Ticks, PostRetryable(k) PROVE Kept(t)
  BY <1>13 DEF PostRetryable, Fault, Posted, ReArm, LetRowGo, Done
<1>14. ASSUME NEW k \in Ticks, PostFails(k) PROVE Kept(t)
  BY <1>14 DEF PostFails, Fault, Drop, LetRowGo, Done
<1>15. ASSUME NEW k \in Ticks, NEW B \in SUBSET Due, TickReads(k, B)
      PROVE  Kept(t)
  BY <1>15 DEF TickReads, Idle, Due, Pending
<1>16. CASE Crash
  BY <1>16 DEF Crash, Fault
<1> QED
  BY Steps, <1>1, <1>2, <1>3, <1>4, <1>5, <1>6, <1>7, <1>8, <1>9, <1>10, <1>11, <1>12, <1>13,
     <1>14, <1>15, <1>16
     DEF TickStep

(* Only a claim sends a row out. *)
LEMMA GoesByClaim ==
  ASSUME Types, Planned, Withdrawn, Handling, NEW t \in Sends, Goes(t), [Next]_vars
  PROVE  \E j \in Ticks : Claim(j) /\ cur[j] = t
<1> USE DEF bookingVars, rowVars, guestVars, planVars, tickVars, sendHistory, marks, Types,
     RowTypes, TickTypes, PlanTypes, Handling, Goes
<1>1. CASE Outside
  BY <1>1, OutsideSendsNothing
<1>2. ASSUME NEW k \in Ticks, NEW s \in Sends, SkipByMirror(k, s)
      PROVE  \E j \in Ticks : Claim(j) /\ cur[j] = t
  BY <1>2 DEF SkipByMirror, NextRow, Resolve, Pending, Done
<1>3. ASSUME NEW k \in Ticks, NEW s \in Sends, DeferByMirror(k, s)
      PROVE  \E j \in Ticks : Claim(j) /\ cur[j] = t
  BY <1>3 DEF DeferByMirror, NextRow, Done
<1>4. ASSUME NEW k \in Ticks, NEW s \in Sends, PassMirror(k, s)
      PROVE  \E j \in Ticks : Claim(j) /\ cur[j] = t
  BY <1>4 DEF PassMirror, NextRow
<1>5. ASSUME NEW k \in Ticks, SkipByGuest(k) PROVE \E j \in Ticks : Claim(j) /\ cur[j] = t
  BY <1>5 DEF SkipByGuest, Resolve, Pending, Drop, LetRowGo, Done
<1>6. ASSUME NEW k \in Ticks, PassConsent(k) PROVE \E j \in Ticks : Claim(j) /\ cur[j] = t
  BY <1>6 DEF PassConsent
<1>7. ASSUME NEW k \in Ticks, DeferByGuest(k) PROVE \E j \in Ticks : Claim(j) /\ cur[j] = t
  BY <1>7 DEF DeferByGuest, Drop, LetRowGo, Done
<1>8. ASSUME NEW k \in Ticks, PassGuest(k) PROVE \E j \in Ticks : Claim(j) /\ cur[j] = t
  BY <1>8 DEF PassGuest
<1>9. ASSUME NEW k \in Ticks, Claim(k) PROVE \E j \in Ticks : Claim(j) /\ cur[j] = t
  <2>1. cur[k] = t
    BY <1>9 DEF Claim
  <2> QED
    BY <1>9, <2>1
<1>10. ASSUME NEW k \in Ticks, LoseClaim(k) PROVE \E j \in Ticks : Claim(j) /\ cur[j] = t
  BY <1>10 DEF LoseClaim, Drop, LetRowGo, Done
<1>11. ASSUME NEW k \in Ticks, PostLands(k) PROVE \E j \in Ticks : Claim(j) /\ cur[j] = t
  BY <1>11 DEF PostLands, Posted, Drop, LetRowGo, Done
<1>12. ASSUME NEW k \in Ticks, ParamsRejected(k) PROVE \E j \in Ticks : Claim(j) /\ cur[j] = t
  BY <1>12 DEF ParamsRejected, Fault, Resolve, Pending, Drop, LetRowGo, Done
<1>13. ASSUME NEW k \in Ticks, PostRetryable(k) PROVE \E j \in Ticks : Claim(j) /\ cur[j] = t
  BY <1>13 DEF PostRetryable, Fault, Posted, ReArm, LetRowGo, Done
<1>14. ASSUME NEW k \in Ticks, PostFails(k) PROVE \E j \in Ticks : Claim(j) /\ cur[j] = t
  BY <1>14 DEF PostFails, Fault, Drop, LetRowGo, Done
<1>15. ASSUME NEW k \in Ticks, NEW B \in SUBSET Due, TickReads(k, B)
      PROVE  \E j \in Ticks : Claim(j) /\ cur[j] = t
  BY <1>15 DEF TickReads, Idle, Due, Pending
<1>16. CASE Crash
  BY <1>16 DEF Crash, Fault
<1> QED
  BY Steps, <1>1, <1>2, <1>3, <1>4, <1>5, <1>6, <1>7, <1>8, <1>9, <1>10, <1>11, <1>12, <1>13,
     <1>14, <1>15, <1>16
     DEF TickStep

(* A row once sent, skipped, cancelled or failed is history, for all that    *)
(* overlaps: only the tick that posts it may re-arm or fail it.              *)
THEOREM OutcomeIsFinalSafe == Spec => OutcomeIsFinal
<1>1. Inv /\ [Next]_vars =>
        [\A s \in Sends :
           /\ status[s] \in {"skipped", "cancelled", "failed"} => status'[s] = status[s]
           /\ status[s] = "sent" /\ status'[s] # "sent" =>
                \E k \in Ticks :
                  pc[k] = "post" /\ cur[k] = s /\ status'[s] \in {"pending", "failed"}]_vars
  BY KeptStep DEF Inv, Kept
<1> QED
  BY <1>1, Inductive, PTL DEF Spec, OutcomeIsFinal

(* The tick that claims a row is the one that sends it out. *)
LEMMA GoesBy ==
  ASSUME Inv, [Next]_vars, NEW s \in Sends, Goes(s)
  PROVE  \E k \in Ticks : By(k, s) /\ status[s] = "pending"
<1>1. PICK k \in Ticks : Claim(k) /\ cur[k] = s
  BY GoesByClaim DEF Inv
<1> QED
  BY <1>1 DEF By, Claim, Claimable, Inv, Types, TickTypes

(* Once the rows of a dead booking are withdrawn, none goes out, however    *)
(* ticks overlap: what a tick judged alive is no longer pending, and a late *)
(* plan is stopped at the gate.  Only a row that another tick has posted    *)
(* and armed again under the eyes of the one that sends it may go.          *)
THEOREM SilentAfterCancelSafe == Spec => SilentAfterCancel
<1>1. Inv /\ [Next]_vars =>
        [\A s \in Sends : Goes(s) /\ BookingOf[s] # Nobody =>
           \E k \in Ticks : By(k, s) /\ (k \in rearmed \/ BookingOf[s] \notin withdrawn)]_vars
  <2> SUFFICES ASSUME Inv, [Next]_vars, NEW s \in Sends, Goes(s)
               PROVE  \E k \in Ticks :
                        By(k, s) /\ (k \in rearmed \/ BookingOf[s] \notin withdrawn)
    OBVIOUS
  <2>1. PICK k \in Ticks : By(k, s) /\ status[s] = "pending"
    BY GoesBy
  <2> QED
    BY <2>1 DEF Inv, Alive, By
<1> QED
  BY <1>1, Inductive, PTL DEF Spec, SilentAfterCancel

(* Marketing goes to guests who have asked for it and not said STOP since,  *)
(* however ticks overlap: a STOP takes back what the gates let through.     *)
(* The exceptions are a row that a plan has given to another guest since it *)
(* was read, and one that another tick has armed again.                     *)
THEOREM StopIsFinalSafe == Spec => StopIsFinal
<1>1. Inv /\ [Next]_vars =>
        [\A s \in Sends : Goes(s) /\ KindOf[s] \in MARKETING_KINDS =>
           \E k \in Ticks :
             By(k, s) /\ (k \in rearmed \/ s \in rebound[k] \/ consent[guest[s]] = "in")]_vars
  <2> SUFFICES ASSUME Inv, [Next]_vars, NEW s \in Sends, Goes(s),
                      KindOf[s] \in MARKETING_KINDS
               PROVE  \E k \in Ticks :
                        By(k, s) /\ (k \in rearmed \/ s \in rebound[k] \/ consent[guest[s]] = "in")
    OBVIOUS
  <2>1. PICK k \in Ticks : By(k, s) /\ status[s] = "pending"
    BY GoesBy
  <2>2. guest[s] \in Phones
    BY DEF Inv, Types, RowTypes
  <2> QED
    BY <2>1, <2>2 DEF Inv, Willing, By
<1> QED
  BY <1>1, Inductive, PTL DEF Spec, StopIsFinal

=============================================================================
