-------------------------- MODULE BookingMirrorProofs --------------------------
(***************************************************************************)
(* Theorems about the mirror of eZee's bookings, for every number of       *)
(* bookings, rooms and days, every length of their history and every       *)
(* number of faults.                                                       *)
(***************************************************************************)
EXTENDS BookingMirror, FunctionTheorems, FiniteSetTheorems, TLAPS

-----------------------------------------------------------------------------
(* Types. *)

EzeeTypes ==
  /\ life \in [Bookings -> Facts]
  /\ gone \in [Bookings -> SUBSET Nat] /\ \A b \in Bookings : gone[b] \subseteq 1 .. Rooms[b]
  /\ queue \subseteq Items
  /\ changes \in 0 .. MaxChanges

MirrorTypes ==
  /\ mirror \in [Bookings -> [status : Statuses, day : Days \cup {Nothing}, rooms : Nat]]
  /\ \A b \in Bookings : mirror[b].rooms \in 0 .. Rooms[b]
  /\ stubs \subseteq Bookings \X Nat
  /\ jobs \subseteq Kinds \X Bookings
  /\ alerted \subseteq Bookings
  /\ told \in [Bookings -> Facts]

PollTypes ==
  /\ hand \subseteq Items /\ acks \subseteq Items
  /\ pc \in {"idle", "items", "ack"}

TaskTypes ==
  /\ task \in [Bookings -> {"none", "open", "closed", "cancelled"}]
  /\ deadline \in [Bookings -> Days \cup {Nothing}]
  /\ \A b \in Bookings : deadline[b] \in Days \/ task[b] = "none"
  /\ raced \subseteq Bookings

WorkTypes ==
  /\ job \in [Kinds -> Bookings \cup {Nothing}]
  /\ step \in [Kinds -> Steps]
  /\ day \in [Kinds -> Days \cup {Nothing}]
  /\ faults \in 0 .. MaxFaults

Types == EzeeTypes /\ MirrorTypes /\ PollTypes /\ TaskTypes /\ WorkTypes

(* A worker has a booking in hand, and a day once it has read the booking. *)
Working ==
  \A q \in Kinds :
    /\ step[q] = "idle" <=> job[q] = Nothing
    /\ step[q] \in {"find", "insert", "anchor"} => day[q] \in Days

(***************************************************************************)
(* The queue and the poll.  An item in hand, or done with, is held by      *)
(* eZee still, or is a reservation that eZee holds a later payload of.     *)
(* There is one payload of a booking at a time, and cancels come last.     *)
(***************************************************************************)
Begun == {"checked_in", "checked_out"}
Booked == {"unknown", "confirmed", "checked_in", "checked_out", "no_show", "cancelled"}

IsReservation(i, b) == i.b = b /\ i.kind = "reservation"
IsCancel(i, b) == i.b = b /\ i.kind = "cancel"
TellsEnd(i, b) == i.b = b /\ i.status = "cancelled"

Formed(i) ==
  /\ i.kind = "reservation" => i.status \in Booked /\ (i.status # "cancelled" => i.day \in Days)
  /\ i.kind = "cancel" => i = Cancel(i.b, i.room)

Taken == hand \cup acks

OnePayload(S) == \A i, j \in S : i.kind = "reservation" /\ IsReservation(j, i.b) => i = j

Polling ==
  /\ \A i \in queue \cup Taken : Formed(i)
  /\ \A i \in Taken : i.kind = "cancel" => i \in queue
  /\ \A i \in Taken : i.kind = "reservation" => \E j \in queue : IsReservation(j, i.b)
  /\ OnePayload(queue) /\ OnePayload(Taken)
  /\ pc # "items" => hand = {}
  /\ pc = "idle" => acks = {}
  /\ (\E i \in acks : i.kind = "cancel") => \A i \in hand : i.kind = "cancel"

(* The booking at eZee, and what its queue says of it. *)
LifeOf(b) ==
  /\ \A i \in queue : IsReservation(i, b) =>
       i.day = life[b].day /\ life[b].status \in {i.status, "cancelled"}
  /\ \A i \in queue \cup Taken : IsReservation(i, b) /\ i.status \in Begun => life[b].status \in Begun
  /\ \A i \in queue \cup Taken : IsReservation(i, b) /\ i.status = "cancelled" =>
       life[b].status \in {"cancelled"} \cup Begun
  /\ \A i \in queue : IsCancel(i, b) =>
       i.room \in gone[b] \/ (i.room = 0 /\ gone[b] = 1 .. Rooms[b])
  /\ gone[b] # {} => life[b].status # "none"
  /\ gone[b] = 1 .. Rooms[b] => life[b].status = "cancelled"

(* A row of the mirror: a stay that has begun is never cancelled, and a    *)
(* tombstone stays one until the guest is there, or ops has been told.     *)
MirrorOf(b) ==
  /\ mirror[b].status \in Begun =>
       life[b].status \in Begun /\ \A i \in hand : IsReservation(i, b) => i.status \in Begun
  /\ mirror[b].status \notin {"none", "cancelled"} =>
       mirror[b].rooms = Rooms[b] /\ mirror[b].day \in Days
  /\ b \notin alerted /\ (\E s \in stubs : s[1] = b) => mirror[b].status \in {"cancelled"} \cup Begun

(***************************************************************************)
(* The mirror agrees with eZee as far as the poll has come: with an item   *)
(* that it is about to ACK, unless a cancel has come after it; with the    *)
(* booking, once its payload is no longer waiting; and on its end, once    *)
(* no item that tells it is.                                               *)
(***************************************************************************)
Agrees(b, f) == mirror[b].status = f.status /\ mirror[b].day = f.day

PayloadDone(b) == \A i \in queue : IsReservation(i, b) => i \in acks
CancelsDone(b) == \A i \in queue : TellsEnd(i, b) => i \in acks

AckedOf(b) ==
  \A i \in acks : IsReservation(i, b) =>
    \/ Agrees(b, i)
    \/ /\ mirror[b].status = "cancelled" /\ life[b].status = "cancelled"
       /\ \E j \in acks : IsCancel(j, b)

AliveOf(b) == life[b].status # "cancelled" /\ PayloadDone(b) => Agrees(b, life[b])

EndedOf(b) == life[b].status = "cancelled" /\ CancelsDone(b) => mirror[b].status = "cancelled"

AgreeOf(b) == b \notin alerted => AckedOf(b) /\ AliveOf(b) /\ EndedOf(b)

(* The last event told what the row says, but for the day of a cancel. *)
ToldOf(b) ==
  /\ told[b].status = mirror[b].status
  /\ mirror[b].status # "cancelled" => told[b].day = mirror[b].day

(* A job that will take the task of a dead booking back. *)
Coming(b) == \E q \in Kinds : <<q, b>> \in jobs \/ (job[q] = b /\ step[q] \in {"read", "cancel"})

TaskOf(b) == b \notin raced /\ mirror[b].status \in Dead /\ task[b] = "open" => Coming(b)

(* Every step keeps the types of eZee. *)
LEMMA EzeeTypesStep ==
  ASSUME Types, [Next]_vars
  PROVE  EzeeTypes'
<1> USE ConstantsAssumption DEF Types, EzeeTypes, PollTypes, ezeeVars, mirrorVars, pollVars,
     taskVars, workVars
<1>1. ASSUME NEW c \in Bookings, NEW f \in Facts, EzeeUpdates(c, f) PROVE EzeeTypes'
  BY <1>1 DEF EzeeUpdates, Change, Latest, Reservation, Facts, Items, Statuses, Kinds
<1>2. ASSUME NEW c \in Bookings, NEW R \in SUBSET (1 .. Rooms[c]), EzeeCancels(c, R)
      PROVE  EzeeTypes'
  <2>1. \A r \in R \cup {0} : Cancel(c, r) \in Items
    BY DEF Cancel, Items, Statuses
  <2>3. gone' \in [Bookings -> SUBSET Nat] /\ \A b \in Bookings : gone'[b] \subseteq 1 .. Rooms[b]
    BY <1>2 DEF EzeeCancels
  <2>4. PICK s \in Statuses : life' = [life EXCEPT ![c].status = s]
    <3>1. CASE gone[c] \cup R = 1 .. Rooms[c]
      <4>1. "cancelled" \in Statuses
        BY DEF Statuses
      <4>2. life' = [life EXCEPT ![c].status = "cancelled"]
        BY <1>2, <3>1 DEF EzeeCancels
      <4> QED
        BY <4>1, <4>2
    <3>2. CASE gone[c] \cup R # 1 .. Rooms[c]
      <4>1. life[c].status \in Statuses
        BY DEF Facts
      <4>2. life' = [life EXCEPT ![c].status = life[c].status]
        BY <1>2, <3>2 DEF EzeeCancels
      <4> QED
        BY <4>1, <4>2
    <3> QED
      BY <3>1, <3>2
  <2>5. life' \in [Bookings -> Facts]
    BY <2>4 DEF Facts
  <2>6. queue' \subseteq Items
    <3>1. Reservation(c, life'[c]) \in Items
      BY <2>5 DEF Reservation, Items, Facts
    <3>2. queue' \subseteq queue \cup {Cancel(c, r) : r \in R \cup {0}} \cup {Reservation(c, life'[c])}
      BY <1>2 DEF EzeeCancels, Latest
    <3> QED
      BY <2>1, <3>1, <3>2
  <2> QED
    BY <1>2, <2>3, <2>5, <2>6 DEF EzeeCancels, Change
<1>3. ASSUME NEW c \in Bookings, TransactionFails(c) PROVE EzeeTypes'
  BY <1>3 DEF TransactionFails, Fault, ItemsDone, CancelsOf, Group
<1>4. ASSUME NEW c \in Bookings, TaskCloses(c) PROVE EzeeTypes'
  BY <1>4 DEF TaskCloses
<1>5. ASSUME NEW c \in Bookings, NEW q \in Kinds, TakeJob(q, c) PROVE EzeeTypes'
  BY <1>5 DEF TakeJob
<1>6. ASSUME NEW S \in SUBSET queue, FetchPendingBookings(S) PROVE EzeeTypes'
  BY <1>6 DEF FetchPendingBookings
<1>7. ASSUME NEW i \in hand, ProcessReservation(i) PROVE EzeeTypes'
  BY <1>7 DEF ProcessReservation, ItemsDone, Emit, Silent, Acks
<1>8. ASSUME NEW c \in Bookings, NEW first \in Group(c), InsertCancelStubs(c, first)
      PROVE  EzeeTypes'
  BY <1>8 DEF InsertCancelStubs, CancelsOf, Group, ItemsDone, Emit
<1>9. ASSUME NEW c \in Bookings, NEW first \in Group(c), SuspectPartialCancel(c, first)
      PROVE  EzeeTypes'
  BY <1>9 DEF SuspectPartialCancel, CancelsOf, Group, ItemsDone
<1>10. ASSUME NEW c \in Bookings, NEW first \in Group(c), MarkBookingCancelled(c, first)
      PROVE  EzeeTypes'
  BY <1>10 DEF MarkBookingCancelled, CancelsOf, Group, ItemsDone, Emit, Silent
<1>11. CASE AckBookings
  BY <1>11 DEF AckBookings
<1>12. CASE AckFails
  BY <1>12 DEF AckFails, Fault
<1>13. CASE Crash
  BY <1>13 DEF Crash, Fault
<1>14. ASSUME NEW q \in Kinds, ReadMirror(q) PROVE EzeeTypes'
  BY <1>14 DEF ReadMirror, Goto
<1>15. ASSUME NEW q \in Kinds, CancelArrivalTask(q) PROVE EzeeTypes'
  BY <1>15 DEF CancelArrivalTask, JobDone
<1>16. ASSUME NEW q \in Kinds, Warrants(q) PROVE EzeeTypes'
  BY <1>16 DEF Warrants, Goto
<1>17. ASSUME NEW q \in Kinds, NoTaskWanted(q) PROVE EzeeTypes'
  BY <1>17 DEF NoTaskWanted, JobDone
<1>18. ASSUME NEW q \in Kinds, FindTask(q) PROVE EzeeTypes'
  BY <1>18 DEF FindTask, Goto, JobDone
<1>19. ASSUME NEW q \in Kinds, InsertTask(q) PROVE EzeeTypes'
  BY <1>19 DEF InsertTask, JobDone
<1>20. ASSUME NEW q \in Kinds, AnchorDeadline(q) PROVE EzeeTypes'
  BY <1>20 DEF AnchorDeadline, JobDone
<1>21. ASSUME NEW q \in Kinds, JobThrows(q) PROVE EzeeTypes'
  BY <1>21 DEF JobThrows, Fault, JobDone
<1>22. CASE UNCHANGED vars
  BY <1>22 DEF vars
<1> QED
  BY <1>1, <1>2, <1>3, <1>4, <1>5, <1>6, <1>7, <1>8, <1>9, <1>10, <1>11, <1>12, <1>13,
     <1>14, <1>15, <1>16, <1>17, <1>18, <1>19, <1>20, <1>21, <1>22
     DEF Next, PollStep, CancelStep, JobStep

(* Of the mirror. *)
LEMMA MirrorTypesStep ==
  ASSUME Types, Working, [Next]_vars
  PROVE  MirrorTypes'
<1> USE ConstantsAssumption DEF Types, MirrorTypes, PollTypes, WorkTypes, Working, ezeeVars,
     mirrorVars, pollVars, taskVars, workVars
<1>1. ASSUME NEW c \in Bookings, NEW f \in Facts, EzeeUpdates(c, f) PROVE MirrorTypes'
  BY <1>1 DEF EzeeUpdates, Change, Reservation
<1>2. ASSUME NEW c \in Bookings, NEW R \in SUBSET (1 .. Rooms[c]), EzeeCancels(c, R)
      PROVE  MirrorTypes'
  BY <1>2 DEF EzeeCancels, Change, Cancel
<1>3. ASSUME NEW c \in Bookings, TransactionFails(c) PROVE MirrorTypes'
  BY <1>3 DEF TransactionFails, Fault, ItemsDone, CancelsOf, Group
<1>4. ASSUME NEW c \in Bookings, TaskCloses(c) PROVE MirrorTypes'
  BY <1>4 DEF TaskCloses
<1>5. ASSUME NEW c \in Bookings, NEW q \in Kinds, TakeJob(q, c) PROVE MirrorTypes'
  BY <1>5 DEF TakeJob
<1>6. ASSUME NEW S \in SUBSET queue, FetchPendingBookings(S) PROVE MirrorTypes'
  BY <1>6 DEF FetchPendingBookings
<1>7. ASSUME NEW i \in hand, ProcessReservation(i) PROVE MirrorTypes'
  <2>1. i.b \in Bookings /\ i.status \in Statuses /\ i.day \in Days \cup {Nothing}
    BY DEF Items
  <2>2. PICK next \in [status : Statuses, day : Days \cup {Nothing}, rooms : Nat] :
          /\ next.rooms = Rooms[i.b]
          /\ mirror' = [mirror EXCEPT ![i.b] = next]
          /\ \/ UNCHANGED <<jobs, told>>
             \/ \E kind \in Kinds : Emit(kind, i.b, next)
    <3> DEFINE prev == mirror[i.b]
               blocked == prev.status = "cancelled" /\ ~Revives(i.status)
               next == [status |-> IF blocked THEN "cancelled" ELSE i.status,
                        day |-> i.day, rooms |-> Rooms[i.b]]
    <3>1. next \in [status : Statuses, day : Days \cup {Nothing}, rooms : Nat]
      BY <2>1 DEF Statuses
    <3>2. mirror' = [mirror EXCEPT ![i.b] = next]
      BY <1>7 DEF ProcessReservation
    <3>3. \/ UNCHANGED <<jobs, told>>
          \/ \E kind \in Kinds : Emit(kind, i.b, next)
      BY <1>7 DEF ProcessReservation, Silent, EventKinds, Kinds
    <3>4. next.rooms = Rooms[i.b]
      OBVIOUS
    <3> HIDE DEF next
    <3> QED
      BY <3>1, <3>2, <3>3, <3>4
  <2>3. alerted' \subseteq Bookings /\ stubs' = stubs
    BY <1>7, <2>1 DEF ProcessReservation
  <2>4. jobs' \subseteq Kinds \X Bookings /\ told' \in [Bookings -> Facts]
    BY <2>1, <2>2 DEF Emit, Kinds, Facts
  <2>5. \A b \in Bookings : Rooms[b] \in 0 .. Rooms[b]
    OBVIOUS
  <2>6. mirror' \in [Bookings -> [status : Statuses, day : Days \cup {Nothing}, rooms : Nat]]
    BY <2>1, <2>2
  <2>7. \A b \in Bookings : mirror'[b].rooms \in 0 .. Rooms[b]
    BY <2>1, <2>2, <2>5
  <2> QED
    BY <2>3, <2>4, <2>6, <2>7
<1>8. ASSUME NEW c \in Bookings, NEW first \in Group(c), InsertCancelStubs(c, first)
      PROVE  MirrorTypes'
  BY <1>8 DEF InsertCancelStubs, CancelsOf, Group, ItemsDone, Emit, Facts, Items, Statuses,
       Kinds, Steps
<1>9. ASSUME NEW c \in Bookings, NEW first \in Group(c), SuspectPartialCancel(c, first)
      PROVE  MirrorTypes'
  BY <1>9 DEF SuspectPartialCancel, CancelsOf, Group, ItemsDone, Facts, Items, Statuses, Kinds,
       Steps
<1>10. ASSUME NEW c \in Bookings, NEW first \in Group(c), MarkBookingCancelled(c, first)
      PROVE  MirrorTypes'
  <2>1. \/ UNCHANGED <<mirror, jobs, told>>
        \/ /\ mirror' = [mirror EXCEPT ![c].status = "cancelled"]
           /\ Emit("cancelled", c, mirror'[c])
    BY <1>10 DEF MarkBookingCancelled, Silent
  <2>2. mirror' \in [Bookings -> [status : Statuses, day : Days \cup {Nothing}, rooms : Nat]]
    BY <2>1 DEF Statuses
  <2>3. \A b \in Bookings : mirror'[b].rooms \in 0 .. Rooms[b]
    BY <2>1
  <2>4. mirror'[c].status \in Statuses /\ mirror'[c].day \in Days \cup {Nothing}
    BY <2>2
  <2>5. jobs' \subseteq Kinds \X Bookings /\ told' \in [Bookings -> Facts]
    <3>1. CASE UNCHANGED <<mirror, jobs, told>>
      BY <3>1
    <3>2. CASE Emit("cancelled", c, mirror'[c])
      <4>1. [status |-> mirror'[c].status, day |-> mirror'[c].day] \in Facts
        BY <2>4 DEF Facts
      <4>2. told' \in [Bookings -> Facts]
        BY <3>2, <4>1 DEF Emit
      <4>3. jobs' \subseteq Kinds \X Bookings
        BY <3>2 DEF Emit, Kinds
      <4> QED
        BY <4>2, <4>3
    <3> QED
      BY <2>1, <3>1, <3>2
  <2> QED
    BY <1>10, <2>2, <2>3, <2>5 DEF MarkBookingCancelled
<1>11. CASE AckBookings
  BY <1>11 DEF AckBookings
<1>12. CASE AckFails
  BY <1>12 DEF AckFails, Fault
<1>13. CASE Crash
  BY <1>13 DEF Crash, Fault, Facts, Items, Statuses, Kinds, Steps
<1>14. ASSUME NEW q \in Kinds, ReadMirror(q) PROVE MirrorTypes'
  BY <1>14 DEF ReadMirror, Goto
<1>15. ASSUME NEW q \in Kinds, CancelArrivalTask(q) PROVE MirrorTypes'
  BY <1>15 DEF CancelArrivalTask, JobDone
<1>16. ASSUME NEW q \in Kinds, Warrants(q) PROVE MirrorTypes'
  BY <1>16 DEF Warrants, Goto
<1>17. ASSUME NEW q \in Kinds, NoTaskWanted(q) PROVE MirrorTypes'
  BY <1>17 DEF NoTaskWanted, JobDone
<1>18. ASSUME NEW q \in Kinds, FindTask(q) PROVE MirrorTypes'
  BY <1>18 DEF FindTask, Goto, JobDone
<1>19. ASSUME NEW q \in Kinds, InsertTask(q) PROVE MirrorTypes'
  BY <1>19 DEF InsertTask, JobDone
<1>20. ASSUME NEW q \in Kinds, AnchorDeadline(q) PROVE MirrorTypes'
  BY <1>20 DEF AnchorDeadline, JobDone
<1>21. ASSUME NEW q \in Kinds, JobThrows(q) PROVE MirrorTypes'
  BY <1>21 DEF JobThrows, Fault, JobDone, Facts, Items, Statuses, Kinds, Steps
<1>22. CASE UNCHANGED vars
  BY <1>22 DEF vars
<1> QED
  BY <1>1, <1>2, <1>3, <1>4, <1>5, <1>6, <1>7, <1>8, <1>9, <1>10, <1>11, <1>12, <1>13,
     <1>14, <1>15, <1>16, <1>17, <1>18, <1>19, <1>20, <1>21, <1>22
     DEF Next, PollStep, CancelStep, JobStep

(* Of the poll. *)
LEMMA PollTypesStep ==
  ASSUME Types, [Next]_vars
  PROVE  PollTypes'
<1> USE ConstantsAssumption DEF Types, EzeeTypes, PollTypes, ezeeVars, mirrorVars, pollVars,
     taskVars, workVars
<1>1. ASSUME NEW c \in Bookings, NEW f \in Facts, EzeeUpdates(c, f) PROVE PollTypes'
  BY <1>1 DEF EzeeUpdates, Change, Reservation
<1>2. ASSUME NEW c \in Bookings, NEW R \in SUBSET (1 .. Rooms[c]), EzeeCancels(c, R)
      PROVE  PollTypes'
  BY <1>2 DEF EzeeCancels, Change, Cancel
<1>3. ASSUME NEW c \in Bookings, TransactionFails(c) PROVE PollTypes'
  BY <1>3 DEF TransactionFails, Fault, ItemsDone, CancelsOf, Group
<1>4. ASSUME NEW c \in Bookings, TaskCloses(c) PROVE PollTypes'
  BY <1>4 DEF TaskCloses
<1>5. ASSUME NEW c \in Bookings, NEW q \in Kinds, TakeJob(q, c) PROVE PollTypes'
  BY <1>5 DEF TakeJob
<1>6. ASSUME NEW S \in SUBSET queue, FetchPendingBookings(S) PROVE PollTypes'
  BY <1>6 DEF FetchPendingBookings
<1>7. ASSUME NEW i \in hand, ProcessReservation(i) PROVE PollTypes'
  BY <1>7 DEF ProcessReservation, ItemsDone, Emit, Silent, Acks
<1>8. ASSUME NEW c \in Bookings, NEW first \in Group(c), InsertCancelStubs(c, first)
      PROVE  PollTypes'
  BY <1>8 DEF InsertCancelStubs, CancelsOf, Group, ItemsDone, Emit
<1>9. ASSUME NEW c \in Bookings, NEW first \in Group(c), SuspectPartialCancel(c, first)
      PROVE  PollTypes'
  BY <1>9 DEF SuspectPartialCancel, CancelsOf, Group, ItemsDone
<1>10. ASSUME NEW c \in Bookings, NEW first \in Group(c), MarkBookingCancelled(c, first)
      PROVE  PollTypes'
  BY <1>10 DEF MarkBookingCancelled, CancelsOf, Group, ItemsDone, Emit, Silent
<1>11. CASE AckBookings
  BY <1>11 DEF AckBookings
<1>12. CASE AckFails
  BY <1>12 DEF AckFails, Fault
<1>13. CASE Crash
  BY <1>13 DEF Crash, Fault
<1>14. ASSUME NEW q \in Kinds, ReadMirror(q) PROVE PollTypes'
  BY <1>14 DEF ReadMirror, Goto
<1>15. ASSUME NEW q \in Kinds, CancelArrivalTask(q) PROVE PollTypes'
  BY <1>15 DEF CancelArrivalTask, JobDone
<1>16. ASSUME NEW q \in Kinds, Warrants(q) PROVE PollTypes'
  BY <1>16 DEF Warrants, Goto
<1>17. ASSUME NEW q \in Kinds, NoTaskWanted(q) PROVE PollTypes'
  BY <1>17 DEF NoTaskWanted, JobDone
<1>18. ASSUME NEW q \in Kinds, FindTask(q) PROVE PollTypes'
  BY <1>18 DEF FindTask, Goto, JobDone
<1>19. ASSUME NEW q \in Kinds, InsertTask(q) PROVE PollTypes'
  BY <1>19 DEF InsertTask, JobDone
<1>20. ASSUME NEW q \in Kinds, AnchorDeadline(q) PROVE PollTypes'
  BY <1>20 DEF AnchorDeadline, JobDone
<1>21. ASSUME NEW q \in Kinds, JobThrows(q) PROVE PollTypes'
  BY <1>21 DEF JobThrows, Fault, JobDone
<1>22. CASE UNCHANGED vars
  BY <1>22 DEF vars
<1> QED
  BY <1>1, <1>2, <1>3, <1>4, <1>5, <1>6, <1>7, <1>8, <1>9, <1>10, <1>11, <1>12, <1>13,
     <1>14, <1>15, <1>16, <1>17, <1>18, <1>19, <1>20, <1>21, <1>22
     DEF Next, PollStep, CancelStep, JobStep

(* Of the workers. *)
LEMMA WorkTypesStep ==
  ASSUME Types, Working, [Next]_vars
  PROVE  WorkTypes'
<1> USE ConstantsAssumption DEF Types, WorkTypes, MirrorTypes, Kinds, Steps, ezeeVars,
     mirrorVars, pollVars, taskVars, workVars
<1>1. ASSUME NEW c \in Bookings, NEW f \in Facts, EzeeUpdates(c, f) PROVE WorkTypes'
  BY <1>1 DEF EzeeUpdates, Change, Reservation
<1>2. ASSUME NEW c \in Bookings, NEW R \in SUBSET (1 .. Rooms[c]), EzeeCancels(c, R)
      PROVE  WorkTypes'
  BY <1>2 DEF EzeeCancels, Change, Cancel
<1>3. ASSUME NEW c \in Bookings, TransactionFails(c) PROVE WorkTypes'
  BY <1>3 DEF TransactionFails, Fault, ItemsDone, CancelsOf, Group
<1>4. ASSUME NEW c \in Bookings, TaskCloses(c) PROVE WorkTypes'
  BY <1>4 DEF TaskCloses
<1>5. ASSUME NEW c \in Bookings, NEW q \in Kinds, TakeJob(q, c) PROVE WorkTypes'
  BY <1>5 DEF TakeJob
<1>6. ASSUME NEW S \in SUBSET queue, FetchPendingBookings(S) PROVE WorkTypes'
  BY <1>6 DEF FetchPendingBookings
<1>7. ASSUME NEW i \in hand, ProcessReservation(i) PROVE WorkTypes'
  BY <1>7 DEF ProcessReservation, ItemsDone, Emit, Silent, Acks
<1>8. ASSUME NEW c \in Bookings, NEW first \in Group(c), InsertCancelStubs(c, first)
      PROVE  WorkTypes'
  BY <1>8 DEF InsertCancelStubs, CancelsOf, Group, ItemsDone, Emit
<1>9. ASSUME NEW c \in Bookings, NEW first \in Group(c), SuspectPartialCancel(c, first)
      PROVE  WorkTypes'
  BY <1>9 DEF SuspectPartialCancel, CancelsOf, Group, ItemsDone
<1>10. ASSUME NEW c \in Bookings, NEW first \in Group(c), MarkBookingCancelled(c, first)
      PROVE  WorkTypes'
  BY <1>10 DEF MarkBookingCancelled, CancelsOf, Group, ItemsDone, Emit, Silent
<1>11. CASE AckBookings
  BY <1>11 DEF AckBookings
<1>12. CASE AckFails
  BY <1>12 DEF AckFails, Fault
<1>13. CASE Crash
  BY <1>13 DEF Crash, Fault
<1>14. ASSUME NEW q \in Kinds, ReadMirror(q) PROVE WorkTypes'
  BY <1>14 DEF ReadMirror, Goto
<1>15. ASSUME NEW q \in Kinds, CancelArrivalTask(q) PROVE WorkTypes'
  BY <1>15 DEF CancelArrivalTask, JobDone
<1>16. ASSUME NEW q \in Kinds, Warrants(q) PROVE WorkTypes'
  <2>1. job[q] \in Bookings
    BY <1>16 DEF Warrants, Working
  <2>2. mirror[job[q]].day \in Days \cup {Nothing}
    BY <2>1
  <2> QED
    BY <1>16, <2>2 DEF Warrants, Goto
<1>17. ASSUME NEW q \in Kinds, NoTaskWanted(q) PROVE WorkTypes'
  BY <1>17 DEF NoTaskWanted, JobDone
<1>18. ASSUME NEW q \in Kinds, FindTask(q) PROVE WorkTypes'
  BY <1>18 DEF FindTask, Goto, JobDone
<1>19. ASSUME NEW q \in Kinds, InsertTask(q) PROVE WorkTypes'
  BY <1>19 DEF InsertTask, JobDone
<1>20. ASSUME NEW q \in Kinds, AnchorDeadline(q) PROVE WorkTypes'
  BY <1>20 DEF AnchorDeadline, JobDone
<1>21. ASSUME NEW q \in Kinds, JobThrows(q) PROVE WorkTypes'
  BY <1>21 DEF JobThrows, Fault, JobDone
<1>22. CASE UNCHANGED vars
  BY <1>22 DEF vars
<1> QED
  BY <1>1, <1>2, <1>3, <1>4, <1>5, <1>6, <1>7, <1>8, <1>9, <1>10, <1>11, <1>12, <1>13,
     <1>14, <1>15, <1>16, <1>17, <1>18, <1>19, <1>20, <1>21, <1>22
     DEF Next, PollStep, CancelStep, JobStep

(* Of the tasks. *)
LEMMA TaskTypesStep ==
  ASSUME Types, Working, [Next]_vars
  PROVE  TaskTypes'
<1> USE ConstantsAssumption DEF Types, TaskTypes, WorkTypes, Working, Steps, Kinds, ezeeVars,
     mirrorVars, pollVars, taskVars, workVars
<1>1. ASSUME NEW c \in Bookings, NEW f \in Facts, EzeeUpdates(c, f) PROVE TaskTypes'
  BY <1>1 DEF EzeeUpdates, Change, Reservation
<1>2. ASSUME NEW c \in Bookings, NEW R \in SUBSET (1 .. Rooms[c]), EzeeCancels(c, R)
      PROVE  TaskTypes'
  BY <1>2 DEF EzeeCancels, Change, Cancel
<1>3. ASSUME NEW c \in Bookings, TransactionFails(c) PROVE TaskTypes'
  BY <1>3 DEF TransactionFails, Fault, ItemsDone, CancelsOf, Group
<1>4. ASSUME NEW c \in Bookings, TaskCloses(c) PROVE TaskTypes'
  BY <1>4 DEF TaskCloses
<1>5. ASSUME NEW c \in Bookings, NEW q \in Kinds, TakeJob(q, c) PROVE TaskTypes'
  BY <1>5 DEF TakeJob
<1>6. ASSUME NEW S \in SUBSET queue, FetchPendingBookings(S) PROVE TaskTypes'
  BY <1>6 DEF FetchPendingBookings
<1>7. ASSUME NEW i \in hand, ProcessReservation(i) PROVE TaskTypes'
  BY <1>7 DEF ProcessReservation, ItemsDone, Emit, Silent, Acks
<1>8. ASSUME NEW c \in Bookings, NEW first \in Group(c), InsertCancelStubs(c, first)
      PROVE  TaskTypes'
  BY <1>8 DEF InsertCancelStubs, CancelsOf, Group, ItemsDone, Emit
<1>9. ASSUME NEW c \in Bookings, NEW first \in Group(c), SuspectPartialCancel(c, first)
      PROVE  TaskTypes'
  BY <1>9 DEF SuspectPartialCancel, CancelsOf, Group, ItemsDone
<1>10. ASSUME NEW c \in Bookings, NEW first \in Group(c), MarkBookingCancelled(c, first)
      PROVE  TaskTypes'
  BY <1>10 DEF MarkBookingCancelled, CancelsOf, Group, ItemsDone, Emit, Silent
<1>11. CASE AckBookings
  BY <1>11 DEF AckBookings
<1>12. CASE AckFails
  BY <1>12 DEF AckFails, Fault
<1>13. CASE Crash
  BY <1>13 DEF Crash, Fault
<1>14. ASSUME NEW q \in Kinds, ReadMirror(q) PROVE TaskTypes'
  BY <1>14 DEF ReadMirror, Goto
<1>15. ASSUME NEW q \in Kinds, CancelArrivalTask(q) PROVE TaskTypes'
  BY <1>15 DEF CancelArrivalTask, JobDone
<1>16. ASSUME NEW q \in Kinds, Warrants(q) PROVE TaskTypes'
  BY <1>16 DEF Warrants, Goto
<1>17. ASSUME NEW q \in Kinds, NoTaskWanted(q) PROVE TaskTypes'
  BY <1>17 DEF NoTaskWanted, JobDone
<1>18. ASSUME NEW q \in Kinds, FindTask(q) PROVE TaskTypes'
  BY <1>18 DEF FindTask, Goto, JobDone
<1>19. ASSUME NEW q \in Kinds, InsertTask(q) PROVE TaskTypes'
  BY <1>19 DEF InsertTask, JobDone
<1>20. ASSUME NEW q \in Kinds, AnchorDeadline(q) PROVE TaskTypes'
  BY <1>20 DEF AnchorDeadline, JobDone
<1>21. ASSUME NEW q \in Kinds, JobThrows(q) PROVE TaskTypes'
  BY <1>21 DEF JobThrows, Fault, JobDone
<1>22. CASE UNCHANGED vars
  BY <1>22 DEF vars
<1> QED
  BY <1>1, <1>2, <1>3, <1>4, <1>5, <1>6, <1>7, <1>8, <1>9, <1>10, <1>11, <1>12, <1>13,
     <1>14, <1>15, <1>16, <1>17, <1>18, <1>19, <1>20, <1>21, <1>22
     DEF Next, PollStep, CancelStep, JobStep

(* So it keeps all of them. *)
LEMMA TypesStep == ASSUME Types, Working, [Next]_vars PROVE Types'
  BY EzeeTypesStep, MirrorTypesStep, PollTypesStep, WorkTypesStep, TaskTypesStep DEF Types

(* Every step keeps what a worker has in hand. *)
LEMMA WorkingStep ==
  ASSUME Types, Working, \A b \in Bookings : MirrorOf(b), [Next]_vars
  PROVE  Working'
<1> USE ConstantsAssumption DEF Types, WorkTypes, MirrorTypes, Working, Kinds, Steps, ezeeVars,
     mirrorVars, pollVars, taskVars, workVars
<1>1. ASSUME NEW c \in Bookings, NEW f \in Facts, EzeeUpdates(c, f) PROVE Working'
  BY <1>1 DEF EzeeUpdates, Change, Reservation
<1>2. ASSUME NEW c \in Bookings, NEW R \in SUBSET (1 .. Rooms[c]), EzeeCancels(c, R)
      PROVE  Working'
  BY <1>2 DEF EzeeCancels, Change, Cancel
<1>3. ASSUME NEW c \in Bookings, TransactionFails(c) PROVE Working'
  BY <1>3 DEF TransactionFails, Fault, ItemsDone, CancelsOf, Group
<1>4. ASSUME NEW c \in Bookings, TaskCloses(c) PROVE Working'
  BY <1>4 DEF TaskCloses
<1>5. ASSUME NEW c \in Bookings, NEW q \in Kinds, TakeJob(q, c) PROVE Working'
  BY <1>5 DEF TakeJob
<1>6. ASSUME NEW S \in SUBSET queue, FetchPendingBookings(S) PROVE Working'
  BY <1>6 DEF FetchPendingBookings
<1>7. ASSUME NEW i \in hand, ProcessReservation(i) PROVE Working'
  BY <1>7 DEF ProcessReservation, ItemsDone, Emit, Silent, Acks
<1>8. ASSUME NEW c \in Bookings, NEW first \in Group(c), InsertCancelStubs(c, first)
      PROVE  Working'
  BY <1>8 DEF InsertCancelStubs, CancelsOf, Group, ItemsDone, Emit
<1>9. ASSUME NEW c \in Bookings, NEW first \in Group(c), SuspectPartialCancel(c, first)
      PROVE  Working'
  BY <1>9 DEF SuspectPartialCancel, CancelsOf, Group, ItemsDone
<1>10. ASSUME NEW c \in Bookings, NEW first \in Group(c), MarkBookingCancelled(c, first)
      PROVE  Working'
  BY <1>10 DEF MarkBookingCancelled, CancelsOf, Group, ItemsDone, Emit, Silent
<1>11. CASE AckBookings
  BY <1>11 DEF AckBookings
<1>12. CASE AckFails
  BY <1>12 DEF AckFails, Fault
<1>13. CASE Crash
  BY <1>13 DEF Crash, Fault
<1>14. ASSUME NEW q \in Kinds, ReadMirror(q) PROVE Working'
  BY <1>14 DEF ReadMirror, Goto
<1>15. ASSUME NEW q \in Kinds, CancelArrivalTask(q) PROVE Working'
  BY <1>15 DEF CancelArrivalTask, JobDone
<1>16. ASSUME NEW q \in Kinds, Warrants(q) PROVE Working'
  <2>1. job[q] \in Bookings
    BY <1>16 DEF Warrants
  <2>2. mirror[job[q]].day \in Days
    BY <1>16, <2>1 DEF Warrants, MirrorOf
  <2> QED
    BY <1>16, <2>2 DEF Warrants, Goto
<1>17. ASSUME NEW q \in Kinds, NoTaskWanted(q) PROVE Working'
  BY <1>17 DEF NoTaskWanted, JobDone
<1>18. ASSUME NEW q \in Kinds, FindTask(q) PROVE Working'
  BY <1>18 DEF FindTask, Goto, JobDone
<1>19. ASSUME NEW q \in Kinds, InsertTask(q) PROVE Working'
  BY <1>19 DEF InsertTask, JobDone
<1>20. ASSUME NEW q \in Kinds, AnchorDeadline(q) PROVE Working'
  BY <1>20 DEF AnchorDeadline, JobDone
<1>21. ASSUME NEW q \in Kinds, JobThrows(q) PROVE Working'
  BY <1>21 DEF JobThrows, Fault, JobDone
<1>22. CASE UNCHANGED vars
  BY <1>22 DEF vars
<1> QED
  BY <1>1, <1>2, <1>3, <1>4, <1>5, <1>6, <1>7, <1>8, <1>9, <1>10, <1>11, <1>12, <1>13,
     <1>14, <1>15, <1>16, <1>17, <1>18, <1>19, <1>20, <1>21, <1>22
     DEF Next, PollStep, CancelStep, JobStep

(* Items taken out of hand leave the poll as well formed as it was, when   *)
(* those that are done with include a cancel only after the reservations.  *)
LEMMA ItemsDoneKeeps ==
  ASSUME Polling, pc = "items", queue' = queue, NEW I \in SUBSET hand, NEW C \in BOOLEAN, ItemsDone(I, C),
         C /\ (\E i \in I : i.kind = "cancel") => \A i \in hand : i.kind = "cancel"
  PROVE  Polling' /\ hand' = hand \ I /\ acks' = (IF C THEN acks \cup I ELSE acks)
<1>1. hand' = hand \ I /\ acks' = (IF C THEN acks \cup I ELSE acks)
  BY DEF ItemsDone
<1>2. hand' \subseteq hand /\ acks \subseteq acks' /\ acks' \subseteq acks \cup I /\ Taken' \subseteq Taken
  BY <1>1 DEF Taken
<1>3. pc' = IF hand' # {} THEN "items" ELSE IF acks' # {} THEN "ack" ELSE "idle"
  BY DEF ItemsDone
<1>4. (\A i \in queue \cup Taken : Formed(i))'
  BY <1>2 DEF Polling, Formed
<1>5. (\A i \in Taken : i.kind = "cancel" => i \in queue)'
  BY <1>2 DEF Polling
<1>6. (\A i \in Taken : i.kind = "reservation" => \E j \in queue : IsReservation(j, i.b))'
  BY <1>2 DEF Polling, IsReservation
<1>7. OnePayload(queue)' /\ OnePayload(Taken)'
  BY <1>2 DEF Polling, OnePayload
<1>8. (pc' # "items" => hand' = {}) /\ (pc' = "idle" => acks' = {})
  BY <1>3
<1>9. (\E i \in acks' : i.kind = "cancel") => \A i \in hand' : i.kind = "cancel"
  <2>1. CASE C
    BY <1>2, <2>1 DEF Polling
  <2>2. CASE ~C
    BY <1>1, <2>2 DEF Polling
  <2> QED
    BY <2>1, <2>2
<1> QED
  BY <1>1, <1>4, <1>5, <1>6, <1>7, <1>8, <1>9 DEF Polling

(* What a step that ends the handling of a group of cancels does to the poll. *)
LEMMA HandledItems ==
  ASSUME Polling, NEW c \in Bookings, CancelsOf(c), queue' = queue, NEW C \in BOOLEAN, ItemsDone(Group(c), C)
  PROVE  Polling' /\ hand' = hand \ Group(c) /\ acks' = (IF C THEN acks \cup Group(c) ELSE acks)
<1>1. Group(c) \in SUBSET hand /\ pc = "items" /\ \A i \in hand : i.kind = "cancel"
  BY DEF CancelsOf, Group
<1> QED
  BY <1>1, ItemsDoneKeeps

(* And one that ends the handling of a payload. *)
LEMMA HandledPayload ==
  ASSUME Polling, NEW i \in hand, i.kind = "reservation", pc = "items", queue' = queue, NEW C \in BOOLEAN,
         ItemsDone({i}, C)
  PROVE  Polling' /\ hand' = hand \ {i} /\ acks' = (IF C THEN acks \cup {i} ELSE acks)
<1>1. {i} \in SUBSET hand /\ C /\ (\E j \in {i} : j.kind = "cancel") => \A j \in hand : j.kind = "cancel"
  OBVIOUS
<1> QED
  BY <1>1, ItemsDoneKeeps

(* So does a payload that takes the place of the one before it. *)
LEMMA LatestKeeps ==
  ASSUME Polling, NEW c \in Bookings, NEW f, Formed(Reservation(c, f)), queue' = Latest(c, f),
         UNCHANGED <<hand, acks, pc>>
  PROVE  Polling'
<1>1. Taken' = Taken
  BY DEF Taken
<1>2. /\ \A i \in queue' : i = Reservation(c, f) \/ (i \in queue /\ (i.b # c \/ i.kind # "reservation"))
      /\ Reservation(c, f) \in queue'
      /\ \A i \in queue : i.b # c \/ i.kind # "reservation" => i \in queue'
  BY DEF Latest
<1>3. Reservation(c, f).b = c /\ Reservation(c, f).kind = "reservation"
  BY DEF Reservation
<1> HIDE DEF Reservation
<1>4. \A i \in queue' \cup Taken' : Formed(i)
  BY <1>1, <1>2 DEF Polling
<1>5. \A i \in Taken' : i.kind = "cancel" => i \in queue'
  BY <1>1, <1>2 DEF Polling
<1>6. \A i \in Taken' : i.kind = "reservation" => \E j \in queue' : IsReservation(j, i.b)
  BY <1>1, <1>2, <1>3 DEF Polling, IsReservation
<1>7. OnePayload(queue') /\ OnePayload(Taken')
  BY <1>1, <1>2, <1>3 DEF Polling, IsReservation, OnePayload
<1> QED
  BY <1>1, <1>4, <1>5, <1>6, <1>7 DEF Polling, Formed, OnePayload

(* Every step keeps the queue and the poll. *)
LEMMA PollingStep ==
  ASSUME Types, Polling, [Next]_vars
  PROVE  Polling'
<1> USE DEF ezeeVars, mirrorVars, pollVars, taskVars, workVars
<1>1. ASSUME NEW c \in Bookings, NEW f \in Facts, EzeeUpdates(c, f) PROVE Polling'
  <2>1. f.status \in Booked /\ f.day \in Days
    BY <1>1 DEF EzeeUpdates, MayBecome, Booked
  <2>2. UNCHANGED <<hand, acks, pc>> /\ Taken' = Taken
    BY <1>1 DEF EzeeUpdates, Taken
  <2>3. queue' = Latest(c, f) /\ Formed(Reservation(c, f))
    BY <1>1, <2>1 DEF EzeeUpdates, Reservation, Formed
  <2> QED
    BY <2>2, <2>3, LatestKeeps
<1>2. ASSUME NEW c \in Bookings, NEW R \in SUBSET (1 .. Rooms[c]), EzeeCancels(c, R)
      PROVE  Polling'
  <2>1. UNCHANGED <<hand, acks, pc>> /\ Taken' = Taken
    BY <1>2 DEF EzeeCancels, Taken
  <2>2. CASE /\ queue \subseteq queue'
             /\ \A i \in queue' : i \in queue \/ \E r \in R \cup {0} : i = Cancel(c, r)
    <3>1. \A r \in R \cup {0} : Formed(Cancel(c, r)) /\ Cancel(c, r).kind = "cancel"
      BY DEF Formed, Cancel
    <3> HIDE DEF Cancel
    <3>2. \A i \in queue' \cup Taken' : Formed(i)
      BY <2>1, <2>2, <3>1 DEF Polling
    <3>3. OnePayload(queue') /\ OnePayload(Taken')
      BY <2>1, <2>2, <3>1 DEF Polling, IsReservation, OnePayload
    <3>4. \A i \in Taken' : i.kind = "reservation" => \E j \in queue' : IsReservation(j, i.b)
      BY <2>1, <2>2 DEF Polling
    <3> QED
      BY <2>1, <2>2, <3>2, <3>3, <3>4 DEF Polling, Formed, OnePayload
  <2>3. CASE life'[c].status = "cancelled" /\ queue' = Latest(c, life'[c])
    <3>1. \A f : f.status = "cancelled" => Formed(Reservation(c, f))
      BY DEF Reservation, Formed, Booked
    <3> QED
      BY <2>1, <2>3, <3>1, LatestKeeps
  <2> QED
    BY <1>2, <2>2, <2>3 DEF EzeeCancels
<1>3. ASSUME NEW c \in Bookings, TransactionFails(c) PROVE Polling'
  <2>1. queue' = queue /\ pc = "items"
    BY <1>3 DEF TransactionFails, ezeeVars
  <2>2. CASE \E i \in hand : i.b = c /\ i.kind = "reservation" /\ ItemsDone({i}, FALSE)
    BY <2>1, <2>2, HandledPayload
  <2>3. CASE CancelsOf(c) /\ ItemsDone(Group(c), FALSE)
    BY <2>1, <2>3, HandledItems
  <2> QED
    BY <1>3, <2>2, <2>3 DEF TransactionFails
<1>4. ASSUME NEW c \in Bookings, TaskCloses(c) PROVE Polling'
  <2>1. UNCHANGED <<queue, hand, acks, pc>>
    BY <1>4 DEF TaskCloses
  <2> QED
    BY <2>1 DEF Polling, Taken, OnePayload, Formed, IsReservation
<1>5. ASSUME NEW c \in Bookings, NEW q \in Kinds, TakeJob(q, c) PROVE Polling'
  <2>1. UNCHANGED <<queue, hand, acks, pc>>
    BY <1>5 DEF TakeJob
  <2> QED
    BY <2>1 DEF Polling, Taken, OnePayload, Formed, IsReservation
<1>6. ASSUME NEW S \in SUBSET queue, FetchPendingBookings(S) PROVE Polling'
  <2>1. UNCHANGED <<queue, acks>> /\ acks = {} /\ hand' = S /\ pc' = "items" /\ Taken' = S
    BY <1>6 DEF FetchPendingBookings, ezeeVars, Polling, Taken
  <2> QED
    BY <2>1 DEF Polling, Taken, OnePayload, Formed, IsReservation
<1>7. ASSUME NEW i \in hand, ProcessReservation(i) PROVE Polling'
  <2>1. i.kind = "reservation" /\ pc = "items" /\ queue' = queue /\ ItemsDone({i}, TRUE)
    BY <1>7 DEF ProcessReservation, ezeeVars, Acks
  <2> QED
    BY <2>1, HandledPayload
<1>8. ASSUME NEW c \in Bookings, NEW first \in Group(c), InsertCancelStubs(c, first)
      PROVE  Polling'
  <2>1. CancelsOf(c) /\ queue' = queue /\ ItemsDone(Group(c), TRUE)
    BY <1>8 DEF InsertCancelStubs, ezeeVars
  <2> QED
    BY <2>1, HandledItems
<1>9. ASSUME NEW c \in Bookings, NEW first \in Group(c), SuspectPartialCancel(c, first)
      PROVE  Polling'
  <2>1. CancelsOf(c) /\ queue' = queue /\ ItemsDone(Group(c), TRUE)
    BY <1>9 DEF SuspectPartialCancel, ezeeVars
  <2> QED
    BY <2>1, HandledItems
<1>10. ASSUME NEW c \in Bookings, NEW first \in Group(c), MarkBookingCancelled(c, first)
      PROVE  Polling'
  <2>1. CancelsOf(c) /\ queue' = queue /\ ItemsDone(Group(c), TRUE)
    BY <1>10 DEF MarkBookingCancelled, ezeeVars
  <2> QED
    BY <2>1, HandledItems
<1>11. CASE AckBookings
  <2>1. hand' = {} /\ acks' = {} /\ queue' \subseteq queue /\ Taken' = {} /\ pc' = "idle"
    BY <1>11 DEF AckBookings, Polling, Taken
  <2> QED
    BY <2>1 DEF Polling, Taken, OnePayload, Formed, IsReservation
<1>12. CASE AckFails
  <2>1. hand' = {} /\ acks' = {} /\ queue' \subseteq queue /\ Taken' = {} /\ pc' = "idle"
    BY <1>12 DEF AckFails, Polling, Taken
  <2> QED
    BY <2>1 DEF Polling, Taken, OnePayload, Formed, IsReservation
<1>13. CASE Crash
  <2>1. hand' = {} /\ acks' = {} /\ queue' = queue /\ Taken' = {} /\ pc' = "idle"
    BY <1>13 DEF Crash, Taken, ezeeVars
  <2> QED
    BY <2>1 DEF Polling, Taken, OnePayload, Formed, IsReservation
<1>14. ASSUME NEW q \in Kinds, ReadMirror(q) PROVE Polling'
  <2>1. UNCHANGED <<queue, hand, acks, pc>>
    BY <1>14 DEF ReadMirror, Goto
  <2> QED
    BY <2>1 DEF Polling, Taken, OnePayload, Formed, IsReservation
<1>15. ASSUME NEW q \in Kinds, CancelArrivalTask(q) PROVE Polling'
  <2>1. UNCHANGED <<queue, hand, acks, pc>>
    BY <1>15 DEF CancelArrivalTask, JobDone
  <2> QED
    BY <2>1 DEF Polling, Taken, OnePayload, Formed, IsReservation
<1>16. ASSUME NEW q \in Kinds, Warrants(q) PROVE Polling'
  <2>1. UNCHANGED <<queue, hand, acks, pc>>
    BY <1>16 DEF Warrants, Goto
  <2> QED
    BY <2>1 DEF Polling, Taken, OnePayload, Formed, IsReservation
<1>17. ASSUME NEW q \in Kinds, NoTaskWanted(q) PROVE Polling'
  <2>1. UNCHANGED <<queue, hand, acks, pc>>
    BY <1>17 DEF NoTaskWanted, JobDone
  <2> QED
    BY <2>1 DEF Polling, Taken, OnePayload, Formed, IsReservation
<1>18. ASSUME NEW q \in Kinds, FindTask(q) PROVE Polling'
  <2>1. UNCHANGED <<queue, hand, acks, pc>>
    BY <1>18 DEF FindTask, Goto, JobDone
  <2> QED
    BY <2>1 DEF Polling, Taken, OnePayload, Formed, IsReservation
<1>19. ASSUME NEW q \in Kinds, InsertTask(q) PROVE Polling'
  <2>1. UNCHANGED <<queue, hand, acks, pc>>
    BY <1>19 DEF InsertTask, JobDone
  <2> QED
    BY <2>1 DEF Polling, Taken, OnePayload, Formed, IsReservation
<1>20. ASSUME NEW q \in Kinds, AnchorDeadline(q) PROVE Polling'
  <2>1. UNCHANGED <<queue, hand, acks, pc>>
    BY <1>20 DEF AnchorDeadline, JobDone
  <2> QED
    BY <2>1 DEF Polling, Taken, OnePayload, Formed, IsReservation
<1>21. ASSUME NEW q \in Kinds, JobThrows(q) PROVE Polling'
  <2>1. UNCHANGED <<queue, hand, acks, pc>>
    BY <1>21 DEF JobThrows, Fault, JobDone
  <2> QED
    BY <2>1 DEF Polling, Taken, OnePayload, Formed, IsReservation
<1>22. CASE UNCHANGED vars
  <2>1. UNCHANGED <<queue, hand, acks, pc>>
    BY <1>22 DEF vars
  <2> QED
    BY <2>1 DEF Polling, Taken, OnePayload, Formed, IsReservation
<1> QED
  BY <1>1, <1>2, <1>3, <1>4, <1>5, <1>6, <1>7, <1>8, <1>9, <1>10, <1>11, <1>12, <1>13,
     <1>14, <1>15, <1>16, <1>17, <1>18, <1>19, <1>20, <1>21, <1>22
     DEF Next, PollStep, CancelStep, JobStep

-----------------------------------------------------------------------------
(* The row that a payload makes of the one before. *)
Blocked(i) == mirror[i.b].status = "cancelled" /\ ~Revives(i.status)

Row(i) == [status |-> IF Blocked(i) THEN "cancelled" ELSE i.status, day |-> i.day, rooms |-> Rooms[i.b]]

(* Mirroring a payload, without the definitions that are local to it. *)
LEMMA Processed ==
  ASSUME NEW i \in hand, ProcessReservation(i)
  PROVE  /\ pc = "items" /\ i.kind = "reservation" /\ ItemsDone({i}, TRUE)
         /\ mirror' = [mirror EXCEPT ![i.b] = Row(i)]
         /\ alerted' = IF Blocked(i) THEN alerted \cup {i.b} ELSE alerted
         /\ \/ Blocked(i) /\ Silent
            \/ ~Blocked(i) /\ mirror[i.b].status # "none" /\ ~Differs(mirror[i.b], Row(i)) /\ Silent
            \/ /\ ~Blocked(i) /\ (mirror[i.b].status = "none" \/ Differs(mirror[i.b], Row(i)))
               /\ \E kind \in Kinds : Emit(kind, i.b, Row(i))
         /\ UNCHANGED <<stubs, ezeeVars, taskVars, workVars>>
<1>1. \A prev, next : Acks(prev, next) = TRUE
  BY DEF Acks
<1>2. EventKinds(mirror[i.b], Row(i)) \subseteq Kinds
  BY DEF EventKinds, Kinds
<1>3. mirror' = [mirror EXCEPT ![i.b] = Row(i)]
  BY DEF ProcessReservation, Row, Blocked
<1>4. alerted' = IF Blocked(i) THEN alerted \cup {i.b} ELSE alerted
  BY DEF ProcessReservation, Blocked
<1>5. pc = "items" /\ i.kind = "reservation" /\ ItemsDone({i}, TRUE)
  BY <1>1 DEF ProcessReservation
<1>6. \/ Blocked(i) /\ Silent
      \/ ~Blocked(i) /\ mirror[i.b].status # "none" /\ ~Differs(mirror[i.b], Row(i)) /\ Silent
      \/ /\ ~Blocked(i) /\ (mirror[i.b].status = "none" \/ Differs(mirror[i.b], Row(i)))
         /\ \E kind \in EventKinds(mirror[i.b], Row(i)) : Emit(kind, i.b, Row(i))
  <2>1. IF Blocked(i) \/ (mirror[i.b].status # "none" /\ ~Differs(mirror[i.b], Row(i))) THEN Silent
        ELSE \E kind \in EventKinds(mirror[i.b], Row(i)) : Emit(kind, i.b, Row(i))
    BY DEF ProcessReservation, Row, Blocked
  <2> QED
    BY <2>1
<1>7. UNCHANGED <<stubs, ezeeVars, taskVars, workVars>>
  BY DEF ProcessReservation
<1> QED
  BY <1>2, <1>3, <1>4, <1>5, <1>6, <1>7

(* What an end makes of one. *)
LEMMA Marked ==
  ASSUME NEW c \in Bookings, NEW first \in Group(c), MarkBookingCancelled(c, first)
  PROVE  /\ CancelsOf(c) /\ ItemsDone(Group(c), TRUE)
         /\ \/ UNCHANGED <<mirror, jobs, told>> /\ (FoundExactly(first) \/ mirror[c].status = "cancelled")
            \/ /\ ~FoundExactly(first)
               /\ mirror' = [mirror EXCEPT ![c].status = "cancelled"] /\ Emit("cancelled", c, mirror'[c])
         /\ FoundExactly(first) \/ (mirror[c].status # "none" /\ ~Partial(c, first))
         /\ UNCHANGED <<stubs, alerted, ezeeVars, taskVars, workVars>>
BY DEF MarkBookingCancelled, Silent

(* Every step keeps what the last event told. *)
LEMMA ToldOfStep ==
  ASSUME Types, NEW b \in Bookings, ToldOf(b), [Next]_vars
  PROVE  ToldOf(b)'
<1> USE DEF ezeeVars, mirrorVars, pollVars, taskVars, workVars
<1>1. ASSUME NEW c \in Bookings, NEW f \in Facts, EzeeUpdates(c, f) PROVE ToldOf(b)'
  <2>1. UNCHANGED <<mirror, told>>
    BY <1>1 DEF EzeeUpdates, Change, Reservation
  <2> QED
    BY <2>1 DEF ToldOf
<1>2. ASSUME NEW c \in Bookings, NEW R \in SUBSET (1 .. Rooms[c]), EzeeCancels(c, R)
      PROVE  ToldOf(b)'
  <2>1. UNCHANGED <<mirror, told>>
    BY <1>2 DEF EzeeCancels, Change, Cancel
  <2> QED
    BY <2>1 DEF ToldOf
<1>3. ASSUME NEW c \in Bookings, TransactionFails(c) PROVE ToldOf(b)'
  <2>1. UNCHANGED <<mirror, told>>
    BY <1>3 DEF TransactionFails, Fault, ItemsDone, CancelsOf, Group
  <2> QED
    BY <2>1 DEF ToldOf
<1>4. ASSUME NEW c \in Bookings, TaskCloses(c) PROVE ToldOf(b)'
  <2>1. UNCHANGED <<mirror, told>>
    BY <1>4 DEF TaskCloses
  <2> QED
    BY <2>1 DEF ToldOf
<1>5. ASSUME NEW c \in Bookings, NEW q \in Kinds, TakeJob(q, c) PROVE ToldOf(b)'
  <2>1. UNCHANGED <<mirror, told>>
    BY <1>5 DEF TakeJob
  <2> QED
    BY <2>1 DEF ToldOf
<1>6. ASSUME NEW S \in SUBSET queue, FetchPendingBookings(S) PROVE ToldOf(b)'
  <2>1. UNCHANGED <<mirror, told>>
    BY <1>6 DEF FetchPendingBookings
  <2> QED
    BY <2>1 DEF ToldOf
<1>7. ASSUME NEW i \in hand, ProcessReservation(i) PROVE ToldOf(b)'
  <2>1. CASE Silent /\ i.b = b
    <3>1. told' = told /\ mirror' = [mirror EXCEPT ![b] = Row(i)]
      BY <1>7, <2>1, Processed DEF Silent
    <3>2. mirror'[b] = Row(i)
      BY <3>1 DEF Types, MirrorTypes
    <3>3. \/ Row(i).status = "cancelled" /\ mirror[b].status = "cancelled"
          \/ ~Differs(mirror[b], Row(i))
      <4>1. CASE Blocked(i)
        BY <2>1, <4>1 DEF Blocked, Row
      <4>2. CASE ~Blocked(i) /\ ~Differs(mirror[b], Row(i))
        BY <4>2
      <4>3. CASE ~Blocked(i) /\ Differs(mirror[b], Row(i))
        <5>1. PICK kind \in Kinds : Emit(kind, b, Row(i))
          BY <1>7, <2>1, <4>3, Processed
        <5>2. told'[b] = [status |-> Row(i).status, day |-> Row(i).day]
          BY <5>1 DEF Emit, Types, MirrorTypes
        <5> QED
          BY <3>1, <4>3, <5>2 DEF Differs, ToldOf
      <4> QED
        BY <4>1, <4>2, <4>3
    <3> QED
      BY <3>1, <3>2, <3>3 DEF ToldOf, Differs
  <2>2. CASE ~Silent /\ i.b = b
    <3>1. PICK kind \in Kinds : Emit(kind, b, Row(i))
      BY <1>7, <2>2, Processed
    <3>2. mirror'[b] = Row(i) /\ told'[b] = [status |-> Row(i).status, day |-> Row(i).day]
      BY <1>7, <2>2, <3>1, Processed DEF Types, MirrorTypes, Emit
    <3> QED
      BY <3>2 DEF ToldOf
  <2>3. CASE i.b # b
    <3>1. mirror'[b] = mirror[b] /\ told'[b] = told[b]
      BY <1>7, <2>3, Processed DEF Types, MirrorTypes, Emit, Silent
    <3> QED
      BY <3>1 DEF ToldOf
  <2> QED
    BY <2>1, <2>2, <2>3
<1>8. ASSUME NEW c \in Bookings, NEW first \in Group(c), InsertCancelStubs(c, first)
      PROVE  ToldOf(b)'
  <2>1. mirror' = [mirror EXCEPT ![c] = [status |-> "cancelled", day |-> Nothing, rooms |-> 0]]
    BY <1>8 DEF InsertCancelStubs
  <2>2. told' = [told EXCEPT ![c] = [status |-> mirror'[c].status, day |-> mirror'[c].day]]
    BY <1>8 DEF InsertCancelStubs, Emit
  <2> QED
    BY <2>1, <2>2 DEF ToldOf, Types, MirrorTypes
<1>9. ASSUME NEW c \in Bookings, NEW first \in Group(c), SuspectPartialCancel(c, first)
      PROVE  ToldOf(b)'
  <2>1. UNCHANGED <<mirror, told>>
    BY <1>9 DEF SuspectPartialCancel, CancelsOf, Group, ItemsDone
  <2> QED
    BY <2>1 DEF ToldOf
<1>10. ASSUME NEW c \in Bookings, NEW first \in Group(c), MarkBookingCancelled(c, first)
      PROVE  ToldOf(b)'
  <2>1. CASE UNCHANGED <<mirror, jobs, told>>
    BY <2>1 DEF ToldOf
  <2>2. CASE /\ mirror' = [mirror EXCEPT ![c].status = "cancelled"]
             /\ told' = [told EXCEPT ![c] = [status |-> mirror'[c].status, day |-> mirror'[c].day]]
    BY <2>2 DEF ToldOf, Types, MirrorTypes
  <2> QED
    BY <1>10, <2>1, <2>2, Marked DEF Emit
<1>11. CASE AckBookings
  <2>1. UNCHANGED <<mirror, told>>
    BY <1>11 DEF AckBookings
  <2> QED
    BY <2>1 DEF ToldOf
<1>12. CASE AckFails
  <2>1. UNCHANGED <<mirror, told>>
    BY <1>12 DEF AckFails, Fault
  <2> QED
    BY <2>1 DEF ToldOf
<1>13. CASE Crash
  <2>1. UNCHANGED <<mirror, told>>
    BY <1>13 DEF Crash, Fault
  <2> QED
    BY <2>1 DEF ToldOf
<1>14. ASSUME NEW q \in Kinds, ReadMirror(q) PROVE ToldOf(b)'
  <2>1. UNCHANGED <<mirror, told>>
    BY <1>14 DEF ReadMirror, Goto
  <2> QED
    BY <2>1 DEF ToldOf
<1>15. ASSUME NEW q \in Kinds, CancelArrivalTask(q) PROVE ToldOf(b)'
  <2>1. UNCHANGED <<mirror, told>>
    BY <1>15 DEF CancelArrivalTask, JobDone
  <2> QED
    BY <2>1 DEF ToldOf
<1>16. ASSUME NEW q \in Kinds, Warrants(q) PROVE ToldOf(b)'
  <2>1. UNCHANGED <<mirror, told>>
    BY <1>16 DEF Warrants, Goto
  <2> QED
    BY <2>1 DEF ToldOf
<1>17. ASSUME NEW q \in Kinds, NoTaskWanted(q) PROVE ToldOf(b)'
  <2>1. UNCHANGED <<mirror, told>>
    BY <1>17 DEF NoTaskWanted, JobDone
  <2> QED
    BY <2>1 DEF ToldOf
<1>18. ASSUME NEW q \in Kinds, FindTask(q) PROVE ToldOf(b)'
  <2>1. UNCHANGED <<mirror, told>>
    BY <1>18 DEF FindTask, Goto, JobDone
  <2> QED
    BY <2>1 DEF ToldOf
<1>19. ASSUME NEW q \in Kinds, InsertTask(q) PROVE ToldOf(b)'
  <2>1. UNCHANGED <<mirror, told>>
    BY <1>19 DEF InsertTask, JobDone
  <2> QED
    BY <2>1 DEF ToldOf
<1>20. ASSUME NEW q \in Kinds, AnchorDeadline(q) PROVE ToldOf(b)'
  <2>1. UNCHANGED <<mirror, told>>
    BY <1>20 DEF AnchorDeadline, JobDone
  <2> QED
    BY <2>1 DEF ToldOf
<1>21. ASSUME NEW q \in Kinds, JobThrows(q) PROVE ToldOf(b)'
  <2>1. UNCHANGED <<mirror, told>>
    BY <1>21 DEF JobThrows, Fault, JobDone
  <2> QED
    BY <2>1 DEF ToldOf
<1>22. CASE UNCHANGED vars
  <2>1. UNCHANGED <<mirror, told>>
    BY <1>22 DEF vars
  <2> QED
    BY <2>1 DEF ToldOf
<1> QED
  BY <1>1, <1>2, <1>3, <1>4, <1>5, <1>6, <1>7, <1>8, <1>9, <1>10, <1>11, <1>12, <1>13,
     <1>14, <1>15, <1>16, <1>17, <1>18, <1>19, <1>20, <1>21, <1>22
     DEF Next, PollStep, CancelStep, JobStep

(* Every step keeps that a dead booking has a job that takes its task back. *)
LEMMA TaskOfStep ==
  ASSUME Types, Working, NEW b \in Bookings, TaskOf(b), [Next]_vars
  PROVE  TaskOf(b)'
<1> USE DEF ezeeVars, mirrorVars, pollVars, taskVars, workVars
<1>1. ASSUME NEW c \in Bookings, NEW f \in Facts, EzeeUpdates(c, f) PROVE TaskOf(b)'
  <2>1. UNCHANGED <<mirror, task, raced, jobs, job, step>>
    BY <1>1 DEF EzeeUpdates, Change, Reservation
  <2> QED
    BY <2>1 DEF TaskOf, Coming
<1>2. ASSUME NEW c \in Bookings, NEW R \in SUBSET (1 .. Rooms[c]), EzeeCancels(c, R)
      PROVE  TaskOf(b)'
  <2>1. UNCHANGED <<mirror, task, raced, jobs, job, step>>
    BY <1>2 DEF EzeeCancels, Change, Cancel
  <2> QED
    BY <2>1 DEF TaskOf, Coming
<1>3. ASSUME NEW c \in Bookings, TransactionFails(c) PROVE TaskOf(b)'
  <2>1. UNCHANGED <<mirror, task, raced, jobs, job, step>>
    BY <1>3 DEF TransactionFails, Fault, ItemsDone, CancelsOf, Group
  <2> QED
    BY <2>1 DEF TaskOf, Coming
<1>4. ASSUME NEW c \in Bookings, TaskCloses(c) PROVE TaskOf(b)'
  BY <1>4 DEF TaskCloses, Goto, JobDone, Ends, TaskOf, Coming, Types, TaskTypes, WorkTypes,
       MirrorTypes, Working, Kinds, Dead, Steps
<1>5. ASSUME NEW c \in Bookings, NEW q \in Kinds, TakeJob(q, c) PROVE TaskOf(b)'
  BY <1>5 DEF TakeJob, Goto, JobDone, Ends, TaskOf, Coming, Types, TaskTypes, WorkTypes,
       MirrorTypes, Working, Kinds, Dead, Steps
<1>6. ASSUME NEW S \in SUBSET queue, FetchPendingBookings(S) PROVE TaskOf(b)'
  <2>1. UNCHANGED <<mirror, task, raced, jobs, job, step>>
    BY <1>6 DEF FetchPendingBookings
  <2> QED
    BY <2>1 DEF TaskOf, Coming
<1>7. ASSUME NEW i \in hand, ProcessReservation(i) PROVE TaskOf(b)'
  <2>1. UNCHANGED <<task, raced, job, step>> /\ jobs \subseteq jobs'
    BY <1>7, Processed DEF Emit, Silent
  <2>2. mirror'[b].status = mirror[b].status \/ \E kind \in Kinds : <<kind, b>> \in jobs'
    <3>1. CASE i.b # b
      BY <1>7, <3>1, Processed DEF Types, MirrorTypes
    <3>2. CASE i.b = b
      <4>1. mirror'[b] = Row(i)
        BY <1>7, <3>2, Processed DEF Types, MirrorTypes
      <4>2. CASE Blocked(i)
        BY <3>2, <4>1, <4>2 DEF Row, Blocked
      <4>3. CASE ~Differs(mirror[b], Row(i))
        BY <4>1, <4>3 DEF Differs
      <4>4. CASE ~Blocked(i) /\ Differs(mirror[b], Row(i))
        BY <1>7, <3>2, <4>4, Processed DEF Emit
      <4> QED
        BY <4>2, <4>3, <4>4
    <3> QED
      BY <3>1, <3>2
  <2> QED
    BY <2>1, <2>2 DEF TaskOf, Coming
<1>8. ASSUME NEW c \in Bookings, NEW first \in Group(c), InsertCancelStubs(c, first)
      PROVE  TaskOf(b)'
  <2>1. UNCHANGED <<task, raced, job, step>> /\ jobs' = jobs \cup {<<"cancelled", c>>}
    BY <1>8 DEF InsertCancelStubs, Emit
  <2>2. mirror'[b] = mirror[b] \/ b = c
    BY <1>8 DEF InsertCancelStubs, Types, MirrorTypes
  <2> QED
    BY <2>1, <2>2 DEF TaskOf, Coming, Kinds
<1>9. ASSUME NEW c \in Bookings, NEW first \in Group(c), SuspectPartialCancel(c, first)
      PROVE  TaskOf(b)'
  <2>1. UNCHANGED <<mirror, task, raced, jobs, job, step>>
    BY <1>9 DEF SuspectPartialCancel, CancelsOf, Group, ItemsDone
  <2> QED
    BY <2>1 DEF TaskOf, Coming
<1>10. ASSUME NEW c \in Bookings, NEW first \in Group(c), MarkBookingCancelled(c, first)
      PROVE  TaskOf(b)'
  <2>1. UNCHANGED <<task, raced, job, step>>
    BY <1>10, Marked
  <2>2. CASE UNCHANGED <<mirror, jobs, told>>
    BY <2>1, <2>2 DEF TaskOf, Coming
  <2>3. CASE /\ mirror' = [mirror EXCEPT ![c].status = "cancelled"]
             /\ jobs' = jobs \cup {<<"cancelled", c>>}
    <3>1. mirror'[b] = mirror[b] \/ b = c
      BY <2>3 DEF Types, MirrorTypes
    <3> QED
      BY <2>1, <2>3, <3>1 DEF TaskOf, Coming, Kinds
  <2> QED
    BY <1>10, <2>2, <2>3, Marked DEF Emit
<1>11. CASE AckBookings
  <2>1. UNCHANGED <<mirror, task, raced, jobs, job, step>>
    BY <1>11 DEF AckBookings
  <2> QED
    BY <2>1 DEF TaskOf, Coming
<1>12. CASE AckFails
  <2>1. UNCHANGED <<mirror, task, raced, jobs, job, step>>
    BY <1>12 DEF AckFails, Fault
  <2> QED
    BY <2>1 DEF TaskOf, Coming
<1>13. CASE Crash
  BY <1>13 DEF Crash, Fault, Goto, JobDone, Ends, TaskOf, Coming, Types, TaskTypes, WorkTypes,
       MirrorTypes, Working, Kinds, Dead, Steps
<1>14. ASSUME NEW q \in Kinds, ReadMirror(q) PROVE TaskOf(b)'
  BY <1>14 DEF ReadMirror, Goto, Goto, JobDone, Ends, TaskOf, Coming, Types, TaskTypes,
       WorkTypes, MirrorTypes, Working, Kinds, Dead, Steps
<1>15. ASSUME NEW q \in Kinds, CancelArrivalTask(q) PROVE TaskOf(b)'
  BY <1>15 DEF CancelArrivalTask, JobDone, Goto, JobDone, Ends, TaskOf, Coming, Types, TaskTypes,
       WorkTypes, MirrorTypes, Working, Kinds, Dead, Steps
<1>16. ASSUME NEW q \in Kinds, Warrants(q) PROVE TaskOf(b)'
  BY <1>16 DEF Warrants, Goto, Goto, JobDone, Ends, TaskOf, Coming, Types, TaskTypes, WorkTypes,
       MirrorTypes, Working, Kinds, Dead, Steps
<1>17. ASSUME NEW q \in Kinds, NoTaskWanted(q) PROVE TaskOf(b)'
  BY <1>17 DEF NoTaskWanted, JobDone, Goto, JobDone, Ends, TaskOf, Coming, Types, TaskTypes,
       WorkTypes, MirrorTypes, Working, Kinds, Dead, Steps
<1>18. ASSUME NEW q \in Kinds, FindTask(q) PROVE TaskOf(b)'
  BY <1>18 DEF FindTask, Goto, JobDone, Goto, JobDone, Ends, TaskOf, Coming, Types, TaskTypes,
       WorkTypes, MirrorTypes, Working, Kinds, Dead, Steps
<1>19. ASSUME NEW q \in Kinds, InsertTask(q) PROVE TaskOf(b)'
  BY <1>19 DEF InsertTask, JobDone, Goto, JobDone, Ends, TaskOf, Coming, Types, TaskTypes,
       WorkTypes, MirrorTypes, Working, Kinds, Dead, Steps
<1>20. ASSUME NEW q \in Kinds, AnchorDeadline(q) PROVE TaskOf(b)'
  BY <1>20 DEF AnchorDeadline, JobDone, Goto, JobDone, Ends, TaskOf, Coming, Types, TaskTypes,
       WorkTypes, MirrorTypes, Working, Kinds, Dead, Steps
<1>21. ASSUME NEW q \in Kinds, JobThrows(q) PROVE TaskOf(b)'
  BY <1>21 DEF JobThrows, Fault, JobDone, Goto, JobDone, Ends, TaskOf, Coming, Types, TaskTypes,
       WorkTypes, MirrorTypes, Working, Kinds, Dead, Steps
<1>22. CASE UNCHANGED vars
  <2>1. UNCHANGED <<mirror, task, raced, jobs, job, step>>
    BY <1>22 DEF vars
  <2> QED
    BY <2>1 DEF TaskOf, Coming
<1> QED
  BY <1>1, <1>2, <1>3, <1>4, <1>5, <1>6, <1>7, <1>8, <1>9, <1>10, <1>11, <1>12, <1>13,
     <1>14, <1>15, <1>16, <1>17, <1>18, <1>19, <1>20, <1>21, <1>22
     DEF Next, PollStep, CancelStep, JobStep

-----------------------------------------------------------------------------
Narrows == UNCHANGED <<life, gone>> /\ queue' \subseteq queue /\ Taken' \subseteq queue \cup Taken

(* But for what happens at eZee, a step brings nothing new to its queue, or *)
(* to the poll that was not in it.                                          *)
LEMMA PollNarrows ==
  ASSUME Polling, [Next]_vars,
         \A c \in Bookings : /\ \A f \in Facts : ~EzeeUpdates(c, f)
                             /\ \A R \in SUBSET (1 .. Rooms[c]) : ~EzeeCancels(c, R)
  PROVE  Narrows
<1> USE DEF Narrows, ezeeVars, mirrorVars, pollVars, taskVars, workVars
<1>1. ASSUME NEW c \in Bookings, NEW f \in Facts, EzeeUpdates(c, f) PROVE Narrows
  BY <1>1
<1>2. ASSUME NEW c \in Bookings, NEW R \in SUBSET (1 .. Rooms[c]), EzeeCancels(c, R)
      PROVE  Narrows
  BY <1>2
<1>3. ASSUME NEW c \in Bookings, TransactionFails(c) PROVE Narrows
  BY <1>3 DEF TransactionFails, Fault, ItemsDone, CancelsOf, Group, Taken, ItemsDone, Goto,
       JobDone
<1>4. ASSUME NEW c \in Bookings, TaskCloses(c) PROVE Narrows
  BY <1>4 DEF TaskCloses, Taken, ItemsDone, Goto, JobDone
<1>5. ASSUME NEW c \in Bookings, NEW q \in Kinds, TakeJob(q, c) PROVE Narrows
  BY <1>5 DEF TakeJob, Taken, ItemsDone, Goto, JobDone
<1>6. ASSUME NEW S \in SUBSET queue, FetchPendingBookings(S) PROVE Narrows
  BY <1>6 DEF FetchPendingBookings, Taken, ItemsDone, Goto, JobDone
<1>7. ASSUME NEW i \in hand, ProcessReservation(i) PROVE Narrows
  BY <1>7, Processed DEF ItemsDone, Taken
<1>8. ASSUME NEW c \in Bookings, NEW first \in Group(c), InsertCancelStubs(c, first)
      PROVE  Narrows
  BY <1>8 DEF InsertCancelStubs, CancelsOf, Group, ItemsDone, Emit, Taken, ItemsDone, Goto,
       JobDone
<1>9. ASSUME NEW c \in Bookings, NEW first \in Group(c), SuspectPartialCancel(c, first)
      PROVE  Narrows
  BY <1>9 DEF SuspectPartialCancel, CancelsOf, Group, ItemsDone, Taken, ItemsDone, Goto, JobDone
<1>10. ASSUME NEW c \in Bookings, NEW first \in Group(c), MarkBookingCancelled(c, first)
      PROVE  Narrows
  BY <1>10, Marked DEF ItemsDone, Taken, Group
<1>11. CASE AckBookings
  BY <1>11 DEF AckBookings, Taken, ItemsDone, Goto, JobDone
<1>12. CASE AckFails
  BY <1>12 DEF AckFails, Fault, Taken, ItemsDone, Goto, JobDone
<1>13. CASE Crash
  BY <1>13 DEF Crash, Fault, Taken, ItemsDone, Goto, JobDone
<1>14. ASSUME NEW q \in Kinds, ReadMirror(q) PROVE Narrows
  BY <1>14 DEF ReadMirror, Goto, Taken, ItemsDone, Goto, JobDone
<1>15. ASSUME NEW q \in Kinds, CancelArrivalTask(q) PROVE Narrows
  BY <1>15 DEF CancelArrivalTask, JobDone, Taken, ItemsDone, Goto, JobDone
<1>16. ASSUME NEW q \in Kinds, Warrants(q) PROVE Narrows
  BY <1>16 DEF Warrants, Goto, Taken, ItemsDone, Goto, JobDone
<1>17. ASSUME NEW q \in Kinds, NoTaskWanted(q) PROVE Narrows
  BY <1>17 DEF NoTaskWanted, JobDone, Taken, ItemsDone, Goto, JobDone
<1>18. ASSUME NEW q \in Kinds, FindTask(q) PROVE Narrows
  BY <1>18 DEF FindTask, Goto, JobDone, Taken, ItemsDone, Goto, JobDone
<1>19. ASSUME NEW q \in Kinds, InsertTask(q) PROVE Narrows
  BY <1>19 DEF InsertTask, JobDone, Taken, ItemsDone, Goto, JobDone
<1>20. ASSUME NEW q \in Kinds, AnchorDeadline(q) PROVE Narrows
  BY <1>20 DEF AnchorDeadline, JobDone, Taken, ItemsDone, Goto, JobDone
<1>21. ASSUME NEW q \in Kinds, JobThrows(q) PROVE Narrows
  BY <1>21 DEF JobThrows, Fault, JobDone, Taken, ItemsDone, Goto, JobDone
<1>22. CASE UNCHANGED vars
  BY <1>22 DEF vars, Taken, ItemsDone, Goto, JobDone
<1> QED
  BY <1>1, <1>2, <1>3, <1>4, <1>5, <1>6, <1>7, <1>8, <1>9, <1>10, <1>11, <1>12, <1>13,
     <1>14, <1>15, <1>16, <1>17, <1>18, <1>19, <1>20, <1>21, <1>22
     DEF Next, PollStep, CancelStep, JobStep

(* Every step keeps that eZee's queue tells the life of a booking. *)
LEMMA LifeOfStep ==
  ASSUME Types, Polling, [Next]_vars, NEW b \in Bookings, LifeOf(b)
  PROVE  LifeOf(b)'
<1>1. CASE \E c \in Bookings, f \in Facts : EzeeUpdates(c, f)
  <2>1. PICK c \in Bookings, f \in Facts : EzeeUpdates(c, f)
    BY <1>1
  <2>2. UNCHANGED <<hand, acks>> /\ Taken' = Taken
    BY <2>1 DEF EzeeUpdates, pollVars, Taken
  <2>3. \A i \in queue' : i = Reservation(c, f) \/ (i \in queue /\ ~IsReservation(i, c))
    BY <2>1 DEF EzeeUpdates, Latest, IsReservation
  <2>4. CASE b # c
    <3>1. life'[b] = life[b] /\ gone'[b] = gone[b]
      BY <2>1, <2>4 DEF EzeeUpdates, Types, EzeeTypes
    <3>2. \A i \in queue' : i.b = b => i \in queue
      BY <2>3, <2>4 DEF Reservation
    <3> QED
      BY <2>2, <3>1, <3>2 DEF LifeOf, IsReservation, IsCancel
  <2>5. CASE b = c
    <3>1. life'[b] = f /\ gone'[b] = IF life[b].status = "cancelled" THEN {} ELSE gone[b]
      BY <2>1, <2>5 DEF EzeeUpdates, Types, EzeeTypes
    <3>2. /\ f.status # "none" /\ f.status # "cancelled"
          /\ life[b].status \in {"cancelled"} \cup Begun => f.status \in Begun
      BY <2>1, <2>5 DEF EzeeUpdates, MayBecome, Begun
    <3>3. \A i \in queue' : IsReservation(i, b) => i.day = f.day /\ i.status = f.status
      BY <2>3, <2>5 DEF Reservation
    <3>4. \A i \in queue' : IsCancel(i, b) => i \in queue /\ life[b].status # "cancelled"
      BY <2>1, <2>3, <2>5 DEF EzeeUpdates, Reservation, IsCancel
    <3>5. \A i \in queue' \cup Taken' : IsReservation(i, b) /\ i.status \in Begun => f.status \in Begun
      BY <2>2, <3>2, <3>3 DEF LifeOf
    <3>8. \A i \in queue' \cup Taken' : IsReservation(i, b) /\ i.status = "cancelled" => f.status \in Begun
      BY <2>2, <3>2, <3>3 DEF LifeOf
    <3>6. gone'[b] # 1 .. Rooms[b]
      <4>1. 1 \in 1 .. Rooms[b]
        BY ConstantsAssumption
      <4>2. CASE life[b].status = "cancelled"
        BY <3>1, <4>1, <4>2
      <4>3. CASE life[b].status # "cancelled"
        BY <3>1, <4>3 DEF LifeOf
      <4> QED
        BY <4>2, <4>3
    <3>7. \A i \in queue' : IsCancel(i, b) => i.room \in gone'[b] \/ (i.room = 0 /\ gone'[b] = 1 .. Rooms[b])
      BY <3>1, <3>4 DEF LifeOf
    <3> QED
      BY <3>1, <3>2, <3>3, <3>5, <3>6, <3>7, <3>8 DEF LifeOf, IsReservation, IsCancel
  <2> QED
    BY <2>4, <2>5
<1>2. CASE \E c \in Bookings : \E R \in SUBSET (1 .. Rooms[c]) : EzeeCancels(c, R)
  <2>1. PICK c \in Bookings : \E R \in SUBSET (1 .. Rooms[c]) : EzeeCancels(c, R)
    BY <1>2
  <2>2. PICK R \in SUBSET (1 .. Rooms[c]) : EzeeCancels(c, R)
    BY <2>1
  <2>3. UNCHANGED <<hand, acks>> /\ Taken' = Taken
    BY <2>2 DEF EzeeCancels, pollVars, Taken
  <2>4. \/ \A i \in queue' : i \in queue \/ \E r \in R : i = Cancel(c, r)
        \/ R = 1 .. Rooms[c] /\ \A i \in queue' : i \in queue \/ i = Cancel(c, 0)
        \/ /\ life'[c].status = "cancelled"
           /\ \A i \in queue' : (i \in queue /\ ~IsReservation(i, c)) \/ i = Reservation(c, life'[c])
    BY <2>2 DEF EzeeCancels, Latest, IsReservation
  <2>5. CASE b # c
    <3>1. life'[b] = life[b] /\ gone'[b] = gone[b]
      BY <2>2, <2>5 DEF EzeeCancels, Types, EzeeTypes
    <3>2. \A i \in queue' : i.b = b => i \in queue
      BY <2>4, <2>5 DEF Cancel, Reservation
    <3> QED
      BY <2>3, <3>1, <3>2 DEF LifeOf, IsReservation, IsCancel
  <2>6. CASE b = c
    <3>1. /\ life[b].status \in {"unknown", "confirmed"} /\ gone'[b] = gone[b] \cup R
          /\ R # {} /\ R \subseteq (1 .. Rooms[b]) \ gone[b]
      BY <2>2, <2>6 DEF EzeeCancels, Types, EzeeTypes
    <3>2. /\ life'[b].day = life[b].day
          /\ life'[b].status = IF gone'[b] = 1 .. Rooms[b] THEN "cancelled" ELSE life[b].status
      <4>1. life' = [life EXCEPT ![b].status = IF gone[b] \cup R = 1 .. Rooms[b] THEN "cancelled" ELSE @]
        BY <2>2, <2>6 DEF EzeeCancels
      <4>2. life[b] \in Facts
        BY DEF Types, EzeeTypes
      <4>3. life'[b] = [life[b] EXCEPT !.status = IF gone[b] \cup R = 1 .. Rooms[b]
                                                  THEN "cancelled" ELSE @]
        BY <4>1 DEF Types, EzeeTypes
      <4> QED
        BY <3>1, <4>2, <4>3 DEF Facts
    <3>3. \A i \in queue' : IsReservation(i, b) =>
            i \in queue \/ (i = Reservation(b, life'[b]) /\ life'[b].status = "cancelled")
      BY <2>4, <2>6 DEF Cancel, IsReservation
    <3>4. \A i \in queue \cup Taken :
            IsReservation(i, b) => i.status \notin Begun /\ i.status # "cancelled"
      BY <3>1 DEF LifeOf, Begun
    <3>5. gone[b] # 1 .. Rooms[b]
      <4>1. PICK r \in R : r \in 1 .. Rooms[b] /\ r \notin gone[b]
        BY <3>1
      <4> QED
        BY <4>1
    <3>6. R = 1 .. Rooms[b] => gone'[b] = 1 .. Rooms[b]
      BY <3>1 DEF Types, EzeeTypes
    <3>7. \A i \in queue' : IsCancel(i, b) => i.room \in gone'[b] \/ (i.room = 0 /\ gone'[b] = 1 .. Rooms[b])
      <4>1. ASSUME NEW i \in queue', IsCancel(i, b), i \in queue
            PROVE i.room \in gone'[b]
        BY <3>1, <3>5, <4>1 DEF LifeOf
      <4>2. ASSUME NEW i \in queue', IsCancel(i, b), i \notin queue
            PROVE i.room \in R \/ (i.room = 0 /\ R = 1 .. Rooms[b])
        BY <2>4, <2>6, <4>2 DEF Cancel, Reservation, IsCancel
      <4> QED
        BY <3>1, <3>6, <4>1, <4>2
    <3>8. \A i \in queue' : IsReservation(i, b) =>
            i.day = life'[b].day /\ life'[b].status \in {i.status, "cancelled"}
      BY <3>1, <3>2, <3>3 DEF LifeOf, Reservation
    <3>9. life'[b].status # "none" /\ (gone'[b] = 1 .. Rooms[b] => life'[b].status = "cancelled")
      BY <3>1, <3>2
    <3>10. \A i \in queue' \cup Taken' :
             IsReservation(i, b) => /\ i.status \notin Begun
                                    /\ i.status = "cancelled" => life'[b].status = "cancelled"
      BY <2>3, <3>3, <3>4 DEF Reservation, Begun
    <3> QED
      BY <3>7, <3>8, <3>9, <3>10 DEF LifeOf, IsReservation, IsCancel
  <2> QED
    BY <2>5, <2>6
<1>3. CASE \A c \in Bookings : /\ \A f \in Facts : ~EzeeUpdates(c, f)
                               /\ \A R \in SUBSET (1 .. Rooms[c]) : ~EzeeCancels(c, R)
  <2>1. UNCHANGED <<life, gone>> /\ queue' \subseteq queue /\ Taken' \subseteq queue \cup Taken
    BY <1>3, PollNarrows DEF Narrows
  <2> QED
    BY <2>1 DEF LifeOf, IsReservation, IsCancel
<1> QED
  BY <1>1, <1>2, <1>3

(* Every step keeps the rows of the mirror true to what has begun. *)
LEMMA MirrorOfStep ==
  ASSUME Types, Polling, NEW b \in Bookings, LifeOf(b), MirrorOf(b), [Next]_vars
  PROVE  MirrorOf(b)'
<1> USE DEF ezeeVars, mirrorVars, pollVars, taskVars, workVars
<1>1. ASSUME NEW c \in Bookings, NEW f \in Facts, EzeeUpdates(c, f) PROVE MirrorOf(b)'
  <2>1. UNCHANGED <<mirror, stubs, alerted, hand>>
    BY <1>1 DEF EzeeUpdates
  <2>2. life[b].status \in Begun => life'[b].status \in Begun
    BY <1>1 DEF EzeeUpdates, MayBecome, Begun, Types, EzeeTypes
  <2> QED
    BY <2>1, <2>2 DEF MirrorOf, IsReservation
<1>2. ASSUME NEW c \in Bookings, NEW R \in SUBSET (1 .. Rooms[c]), EzeeCancels(c, R)
      PROVE  MirrorOf(b)'
  <2>1. UNCHANGED <<mirror, stubs, alerted, hand>>
    BY <1>2 DEF EzeeCancels
  <2>2. life[b].status \in Begun => life'[b] = life[b]
    BY <1>2 DEF EzeeCancels, Begun, Types, EzeeTypes
  <2> QED
    BY <2>1, <2>2 DEF MirrorOf, IsReservation
<1>3. ASSUME NEW c \in Bookings, TransactionFails(c) PROVE MirrorOf(b)'
  <2>1. UNCHANGED <<mirror, stubs, alerted, life>> /\ hand' \subseteq hand
    BY <1>3 DEF TransactionFails, Fault, ItemsDone, CancelsOf, Group
  <2> QED
    BY <2>1 DEF MirrorOf, IsReservation
<1>4. ASSUME NEW c \in Bookings, TaskCloses(c) PROVE MirrorOf(b)'
  <2>1. UNCHANGED <<mirror, stubs, alerted, hand, life>>
    BY <1>4 DEF TaskCloses
  <2> QED
    BY <2>1 DEF MirrorOf, IsReservation
<1>5. ASSUME NEW c \in Bookings, NEW q \in Kinds, TakeJob(q, c) PROVE MirrorOf(b)'
  <2>1. UNCHANGED <<mirror, stubs, alerted, hand, life>>
    BY <1>5 DEF TakeJob
  <2> QED
    BY <2>1 DEF MirrorOf, IsReservation
<1>6. ASSUME NEW S \in SUBSET queue, FetchPendingBookings(S) PROVE MirrorOf(b)'
  <2>1. UNCHANGED <<mirror, stubs, alerted, life>> /\ hand' \subseteq queue
    BY <1>6 DEF FetchPendingBookings
  <2>2. life[b].status \in Begun => \A i \in queue : IsReservation(i, b) => i.status \in Begun
    BY DEF LifeOf, Begun
  <2> QED
    BY <2>1, <2>2 DEF MirrorOf, IsReservation
<1>7. ASSUME NEW i \in hand, ProcessReservation(i) PROVE MirrorOf(b)'
  <2>1. UNCHANGED <<stubs, life>> /\ alerted \subseteq alerted' /\ hand' \subseteq hand
    BY <1>7, Processed DEF ItemsDone
  <2>2. CASE i.b # b
    <3>1. mirror'[b] = mirror[b]
      BY <1>7, <2>2, Processed DEF Types, MirrorTypes
    <3> QED
      BY <2>1, <3>1 DEF MirrorOf, IsReservation
  <2>3. CASE i.b = b
    <3>1. mirror'[b] = Row(i) /\ i \in Taken /\ Formed(i) /\ IsReservation(i, b) /\ hand' = hand \ {i}
      BY <1>7, <2>3, Processed DEF Types, MirrorTypes, Taken, Polling, IsReservation, ItemsDone
    <3>2. \A j \in hand' : ~IsReservation(j, b)
      <4>1. OnePayload(Taken)
        BY DEF Polling
      <4>2. \A j \in hand : IsReservation(j, b) => i = j
        BY <2>3, <3>1, <4>1 DEF OnePayload, Taken, IsReservation
      <4> QED
        BY <3>1, <4>2
    <3>3. mirror'[b].status \in Begun => life'[b].status \in Begun
      <4>1. mirror'[b].status \in Begun => i.status \in Begun
        BY <3>1 DEF Row, Begun
      <4> QED
        BY <2>1, <3>1, <4>1 DEF LifeOf
    <3>4. mirror'[b].rooms = Rooms[b] /\ (mirror'[b].status # "cancelled" => mirror'[b].day \in Days)
      BY <2>3, <3>1 DEF Row, Formed, IsReservation
    <3>5. ASSUME b \notin alerted', \E s \in stubs : s[1] = b
          PROVE mirror'[b].status \in {"cancelled"} \cup Begun
      <4>1. ~Blocked(i) /\ b \notin alerted
        BY <1>7, <2>1, <2>3, <3>5, Processed
      <4>2. mirror[b].status \in {"cancelled"} \cup Begun
        BY <3>5, <4>1 DEF MirrorOf
      <4>3. CASE mirror[b].status = "cancelled"
        BY <2>3, <3>1, <4>1, <4>3 DEF Row, Blocked, Revives, Begun
      <4>4. CASE mirror[b].status \in Begun
        BY <3>1, <4>1, <4>4 DEF Row, MirrorOf
      <4> QED
        BY <4>2, <4>3, <4>4
    <3> QED
      BY <2>1, <3>2, <3>3, <3>4, <3>5 DEF MirrorOf, IsReservation
  <2> QED
    BY <2>2, <2>3
<1>8. ASSUME NEW c \in Bookings, NEW first \in Group(c), InsertCancelStubs(c, first)
      PROVE  MirrorOf(b)'
  <2>1. UNCHANGED <<alerted, life>> /\ hand' \subseteq hand
    BY <1>8 DEF InsertCancelStubs, ItemsDone
  <2>2. mirror' = [mirror EXCEPT ![c] = [status |-> "cancelled", day |-> Nothing, rooms |-> 0]]
    BY <1>8 DEF InsertCancelStubs
  <2>3. CASE b = c
    <3>1. mirror'[b].status = "cancelled"
      BY <2>2, <2>3 DEF Types, MirrorTypes
    <3> QED
      BY <3>1 DEF MirrorOf, Begun
  <2>4. CASE b # c
    <3>1. mirror'[b] = mirror[b]
      BY <2>2, <2>4 DEF Types, MirrorTypes
    <3>2. stubs' = stubs \cup {<<c, i.room>> : i \in {j \in Group(c) : j.room # 0}}
      BY <1>8 DEF InsertCancelStubs
    <3>3. \A s \in stubs' : s[1] = b => s \in stubs
      BY <2>4, <3>2
    <3> QED
      BY <2>1, <3>1, <3>3 DEF MirrorOf, IsReservation
  <2> QED
    BY <2>3, <2>4
<1>9. ASSUME NEW c \in Bookings, NEW first \in Group(c), SuspectPartialCancel(c, first)
      PROVE  MirrorOf(b)'
  <2>1. UNCHANGED <<mirror, stubs, life>> /\ alerted \subseteq alerted' /\ hand' \subseteq hand
    BY <1>9 DEF SuspectPartialCancel, ItemsDone
  <2> QED
    BY <2>1 DEF MirrorOf, IsReservation
<1>10. ASSUME NEW c \in Bookings, NEW first \in Group(c), MarkBookingCancelled(c, first)
      PROVE  MirrorOf(b)'
  <2>1. UNCHANGED <<stubs, alerted, life>> /\ hand' \subseteq hand
    BY <1>10, Marked DEF ItemsDone
  <2>2. mirror'[b] = mirror[b] \/ mirror'[b].status = "cancelled"
    <3>1. mirror' = mirror \/ mirror' = [mirror EXCEPT ![c].status = "cancelled"]
      BY <1>10, Marked
    <3> QED
      BY <3>1 DEF Types, MirrorTypes
  <2> QED
    BY <2>1, <2>2 DEF MirrorOf, IsReservation, Begun
<1>11. CASE AckBookings
  <2>1. UNCHANGED <<mirror, stubs, alerted, life>> /\ hand' \subseteq hand
    BY <1>11 DEF AckBookings
  <2> QED
    BY <2>1 DEF MirrorOf, IsReservation
<1>12. CASE AckFails
  <2>1. UNCHANGED <<mirror, stubs, alerted, life>> /\ hand' \subseteq hand
    BY <1>12 DEF AckFails, Fault
  <2> QED
    BY <2>1 DEF MirrorOf, IsReservation
<1>13. CASE Crash
  <2>1. UNCHANGED <<mirror, stubs, alerted, life>> /\ hand' \subseteq hand
    BY <1>13 DEF Crash, Fault
  <2> QED
    BY <2>1 DEF MirrorOf, IsReservation
<1>14. ASSUME NEW q \in Kinds, ReadMirror(q) PROVE MirrorOf(b)'
  <2>1. UNCHANGED <<mirror, stubs, alerted, hand, life>>
    BY <1>14 DEF ReadMirror, Goto
  <2> QED
    BY <2>1 DEF MirrorOf, IsReservation
<1>15. ASSUME NEW q \in Kinds, CancelArrivalTask(q) PROVE MirrorOf(b)'
  <2>1. UNCHANGED <<mirror, stubs, alerted, hand, life>>
    BY <1>15 DEF CancelArrivalTask, JobDone
  <2> QED
    BY <2>1 DEF MirrorOf, IsReservation
<1>16. ASSUME NEW q \in Kinds, Warrants(q) PROVE MirrorOf(b)'
  <2>1. UNCHANGED <<mirror, stubs, alerted, hand, life>>
    BY <1>16 DEF Warrants, Goto
  <2> QED
    BY <2>1 DEF MirrorOf, IsReservation
<1>17. ASSUME NEW q \in Kinds, NoTaskWanted(q) PROVE MirrorOf(b)'
  <2>1. UNCHANGED <<mirror, stubs, alerted, hand, life>>
    BY <1>17 DEF NoTaskWanted, JobDone
  <2> QED
    BY <2>1 DEF MirrorOf, IsReservation
<1>18. ASSUME NEW q \in Kinds, FindTask(q) PROVE MirrorOf(b)'
  <2>1. UNCHANGED <<mirror, stubs, alerted, hand, life>>
    BY <1>18 DEF FindTask, Goto, JobDone
  <2> QED
    BY <2>1 DEF MirrorOf, IsReservation
<1>19. ASSUME NEW q \in Kinds, InsertTask(q) PROVE MirrorOf(b)'
  <2>1. UNCHANGED <<mirror, stubs, alerted, hand, life>>
    BY <1>19 DEF InsertTask, JobDone
  <2> QED
    BY <2>1 DEF MirrorOf, IsReservation
<1>20. ASSUME NEW q \in Kinds, AnchorDeadline(q) PROVE MirrorOf(b)'
  <2>1. UNCHANGED <<mirror, stubs, alerted, hand, life>>
    BY <1>20 DEF AnchorDeadline, JobDone
  <2> QED
    BY <2>1 DEF MirrorOf, IsReservation
<1>21. ASSUME NEW q \in Kinds, JobThrows(q) PROVE MirrorOf(b)'
  <2>1. UNCHANGED <<mirror, stubs, alerted, hand, life>>
    BY <1>21 DEF JobThrows, Fault, JobDone
  <2> QED
    BY <2>1 DEF MirrorOf, IsReservation
<1>22. CASE UNCHANGED vars
  <2>1. UNCHANGED <<mirror, stubs, alerted, hand, life>>
    BY <1>22 DEF vars
  <2> QED
    BY <2>1 DEF MirrorOf, IsReservation
<1> QED
  BY <1>1, <1>2, <1>3, <1>4, <1>5, <1>6, <1>7, <1>8, <1>9, <1>10, <1>11, <1>12, <1>13,
     <1>14, <1>15, <1>16, <1>17, <1>18, <1>19, <1>20, <1>21, <1>22
     DEF Next, PollStep, CancelStep, JobStep

-----------------------------------------------------------------------------
(* What does not touch a booking keeps the agreement on it. *)
LEMMA Untouched ==
  ASSUME NEW b \in Bookings, AgreeOf(b), life'[b] = life[b], mirror'[b] = mirror[b],
         \A i : i.b = b => (i \in queue' <=> i \in queue) /\ (i \in acks' <=> i \in acks),
         b \in alerted => b \in alerted'
  PROVE  AgreeOf(b)'
BY DEF AgreeOf, AckedOf, AliveOf, EndedOf, Agrees, PayloadDone, CancelsDone, IsReservation,
     IsCancel, TellsEnd

(* So does an ACK, however it ends, and a crash. *)
LEMMA Cleared ==
  ASSUME NEW b \in Bookings, AgreeOf(b), UNCHANGED <<life, mirror, alerted>>, acks' = {},
         queue' = queue \/ queue' = queue \ acks
  PROVE  AgreeOf(b)'
<1>1. CASE b \in alerted
  BY <1>1 DEF AgreeOf
<1>2. CASE b \notin alerted
  <2>1. AckedOf(b)'
    BY DEF AckedOf
  <2>2. PayloadDone(b)' => PayloadDone(b)
    BY DEF PayloadDone, IsReservation
  <2>3. CancelsDone(b)' => CancelsDone(b)
    BY DEF CancelsDone, TellsEnd
  <2>4. AliveOf(b)' /\ EndedOf(b)'
    BY <1>2, <2>2, <2>3 DEF AgreeOf, AliveOf, EndedOf, Agrees
  <2> QED
    BY <2>1, <2>4 DEF AgreeOf
<1> QED
  BY <1>1, <1>2

(* A cancel that waits names a room that is gone, or the whole booking. *)
LEMMA CancelsAreOfIt ==
  ASSUME Types, Polling, NEW b \in Bookings, LifeOf(b), NEW i \in queue, IsCancel(i, b)
  PROVE  gone[b] # {} /\ (i.room \in gone[b] \/ gone[b] = 1 .. Rooms[b])
<1>1. 1 \in 1 .. Rooms[b]
  BY ConstantsAssumption
<1>2. i.room \in gone[b] \/ (i.room = 0 /\ gone[b] = 1 .. Rooms[b])
  BY DEF LifeOf
<1> QED
  BY <1>1, <1>2

(***************************************************************************)
(* Cancels that are not fewer than the rooms, or one under the number      *)
(* without a suffix, mean that the booking is over: each room that they    *)
(* name is gone, and no two of them name the same.                         *)
(***************************************************************************)
LEMMA GroupEnds ==
  ASSUME Types, Polling, NEW b \in Bookings, LifeOf(b), NEW first \in Group(b),
         ~(first.room # 0 /\ Cardinality(Group(b)) < Rooms[b])
  PROVE  life[b].status = "cancelled"
<1> SUFFICES gone[b] = 1 .. Rooms[b]
  BY DEF LifeOf
<1>1. \A i \in Group(b) : i \in queue /\ IsCancel(i, b) /\ i = Cancel(b, i.room)
  BY DEF Group, Polling, Taken, IsCancel, Formed
<1>2. gone[b] \subseteq 1 .. Rooms[b] /\ Rooms[b] \in Nat
  BY ConstantsAssumption DEF Types, EzeeTypes
<1>3. \A i \in Group(b) : i.room \in gone[b] \/ gone[b] = 1 .. Rooms[b]
  BY <1>1, CancelsAreOfIt
<1>4. CASE first.room = 0
  <2>1. first.room \notin gone[b]
    BY <1>2, <1>4
  <2> QED
    BY <1>3, <2>1
<1>5. CASE first.room # 0 /\ \A i \in Group(b) : i.room \in gone[b]
  <2> DEFINE f == [i \in Group(b) |-> i.room]
  <2>1. f \in [Group(b) -> gone[b]]
    BY <1>5
  <2>2. \A i, j \in Group(b) : f[i] = f[j] => i = j
    <3>1. \A i, j \in Group(b) : i.room = j.room => i = j
      BY <1>1
    <3> QED
      BY <3>1
  <2>3. f \in Injection(Group(b), gone[b])
    <3> HIDE DEF f
    <3> QED
      BY <2>1, <2>2 DEF Injection, IsInjective
  <2>4. IsFiniteSet(1 .. Rooms[b]) /\ Cardinality(1 .. Rooms[b]) = Rooms[b]
    BY <1>2, FS_Interval
  <2>5. IsFiniteSet(gone[b]) /\ Cardinality(gone[b]) <= Rooms[b]
    BY <1>2, <2>4, FS_Subset
  <2> HIDE DEF f
  <2>6. IsFiniteSet(Group(b)) /\ Cardinality(Group(b)) <= Cardinality(gone[b])
    BY <2>3, <2>5, FS_Injection
  <2>7. Cardinality(Group(b)) \in Nat /\ Cardinality(gone[b]) \in Nat
    BY <2>5, <2>6, FS_CardinalityType
  <2>8. Cardinality(gone[b]) = Cardinality(1 .. Rooms[b])
    BY <1>2, <1>5, <2>4, <2>5, <2>6, <2>7
  <2> QED
    BY <1>2, <2>4, <2>8, FS_Subset
<1> QED
  BY <1>3, <1>4, <1>5

(* Every step keeps what the mirror and eZee agree on. *)
LEMMA AgreeOfStep ==
  ASSUME Types, Polling, NEW b \in Bookings, LifeOf(b), MirrorOf(b), AgreeOf(b), [Next]_vars
  PROVE  AgreeOf(b)'
<1> USE DEF ezeeVars, mirrorVars, pollVars, taskVars, workVars
<1>1. ASSUME NEW c \in Bookings, NEW f \in Facts, EzeeUpdates(c, f) PROVE AgreeOf(b)'
  <2>1. UNCHANGED <<mirror, acks, hand, alerted>>
    BY <1>1 DEF EzeeUpdates
  <2>2. CASE b # c
    <3>1. life'[b] = life[b]
      BY <1>1, <2>2 DEF EzeeUpdates, Types, EzeeTypes
    <3>2. \A i : i.b = b => (i \in queue' <=> i \in queue)
      BY <1>1, <2>2 DEF EzeeUpdates, Latest, Reservation
    <3> QED
      BY <2>1, <3>1, <3>2, Untouched
  <2>3. CASE b = c /\ b \in alerted
    BY <2>1, <2>3 DEF AgreeOf
  <2>4. CASE b = c /\ b \notin alerted
    <3>1. life'[b] = f /\ f.status # "cancelled"
      BY <1>1, <2>4 DEF EzeeUpdates, MayBecome, Types, EzeeTypes
    <3>2. ~(life[b].status = "cancelled" /\ \E j \in acks : IsCancel(j, b))
      <4>1. \A j \in acks : IsCancel(j, b) => j \in queue
        BY DEF Polling, Taken, IsCancel
      <4>2. life[b].status = "cancelled" => \A j \in queue : ~IsCancel(j, b)
        BY <1>1, <2>4 DEF EzeeUpdates, IsCancel
      <4> QED
        BY <4>1, <4>2
    <3>3. \A i \in acks : IsReservation(i, b) => Agrees(b, i)
      BY <2>4, <3>2 DEF AgreeOf, AckedOf
    <3>4. AckedOf(b)'
      BY <2>1, <3>3 DEF AckedOf, Agrees, IsReservation
    <3>5. Reservation(c, f) \in queue' /\ IsReservation(Reservation(c, f), c)
      BY <1>1 DEF EzeeUpdates, Latest, Reservation, IsReservation
    <3>6. AliveOf(b)'
      <4> SUFFICES ASSUME PayloadDone(b)' PROVE Agrees(b, f)'
        BY <3>1 DEF AliveOf, Agrees
      <4>1. Reservation(b, f) \in acks
        BY <2>1, <2>4, <3>5 DEF PayloadDone, IsReservation
      <4>2. Agrees(b, Reservation(b, f))
        BY <2>4, <3>3, <3>5, <4>1
      <4> QED
        BY <2>1, <4>2 DEF Agrees, Reservation
    <3>7. EndedOf(b)'
      BY <3>1 DEF EndedOf
    <3> QED
      BY <3>4, <3>6, <3>7 DEF AgreeOf
  <2> QED
    BY <2>2, <2>3, <2>4
<1>2. ASSUME NEW c \in Bookings, NEW R \in SUBSET (1 .. Rooms[c]), EzeeCancels(c, R)
      PROVE  AgreeOf(b)'
  <2>1. UNCHANGED <<mirror, acks, hand, alerted>>
    BY <1>2 DEF EzeeCancels
  <2>2. CASE b # c
    <3>1. life'[b] = life[b]
      BY <1>2, <2>2 DEF EzeeCancels, Types, EzeeTypes
    <3>2. \A i : i.b = b => (i \in queue' <=> i \in queue)
      BY <1>2, <2>2 DEF EzeeCancels, Cancel, Latest, Reservation
    <3> QED
      BY <2>1, <3>1, <3>2, Untouched
  <2>3. CASE b = c /\ b \in alerted
    BY <2>1, <2>3 DEF AgreeOf
  <2>4. CASE b = c /\ b \notin alerted
    <3>1. /\ life[b].status \in {"unknown", "confirmed"}
          /\ R # {} /\ R \subseteq (1 .. Rooms[b]) \ gone[b]
      BY <1>2, <2>4 DEF EzeeCancels
    <3>2. gone[b] # 1 .. Rooms[b]
      BY <3>1 DEF LifeOf
    <3>3. AckedOf(b)'
      BY <2>1, <2>4, <3>1 DEF AgreeOf, AckedOf, Agrees, IsReservation
    <3>4. life'[b].status = "cancelled" \/ life'[b] = life[b]
      <4>1. life[b] \in Facts
        BY DEF Types, EzeeTypes
      <4>2. life'[b] = [life[b] EXCEPT !.status = IF gone[b] \cup R = 1 .. Rooms[b]
                                                  THEN "cancelled" ELSE @]
        BY <1>2, <2>4 DEF EzeeCancels, Types, EzeeTypes
      <4> QED
        BY <4>1, <4>2 DEF Facts
    <3>5. AliveOf(b)'
      <4> SUFFICES ASSUME life'[b] = life[b], PayloadDone(b)' PROVE AliveOf(b)'
        BY <3>4 DEF AliveOf
      <4>1. CASE life[b].status = "cancelled"
        BY <3>1, <4>1
      <4>2. CASE life[b].status # "cancelled"
        <5>1. queue \subseteq queue'
          BY <1>2, <2>4, <4>2 DEF EzeeCancels
        <5>2. PayloadDone(b)
          BY <2>1, <5>1 DEF PayloadDone, IsReservation
        <5> QED
          BY <2>1, <2>4, <5>2 DEF AgreeOf, AliveOf, Agrees
      <4> QED
        BY <4>1, <4>2
    <3>6. ~CancelsDone(b)'
      <4>1. CASE \E r \in R \cup {0} : Cancel(c, r) \in queue'
        <5>1. PICK i \in queue' : IsCancel(i, b) /\ i.status = "cancelled" /\ i.room \in R \cup {0}
          BY <2>4, <4>1 DEF Cancel, IsCancel
        <5>2. i \notin queue
          <6>1. 0 \notin gone[b]
            BY DEF Types, EzeeTypes
          <6>2. i.room \notin gone[b]
            BY <3>1, <5>1, <6>1
          <6> QED
            BY <3>2, <5>1, <6>2 DEF LifeOf
        <5>3. i \notin acks'
          BY <2>1, <5>1, <5>2 DEF Polling, Taken, IsCancel
        <5> QED
          BY <5>1, <5>3 DEF CancelsDone, IsCancel, TellsEnd
      <4>2. CASE life'[c].status = "cancelled" /\ queue' = Latest(c, life'[c])
        <5> DEFINE i == Reservation(c, life'[c])
        <5>1. i \in queue' /\ IsReservation(i, b) /\ i.status = "cancelled"
          <6>1. i \in queue'
            BY <4>2 DEF Latest
          <6> QED
            BY <2>4, <4>2, <6>1 DEF Reservation, IsReservation
        <5> HIDE DEF i
        <5>2. i \notin acks'
          BY <2>1, <3>1, <5>1 DEF LifeOf, Taken, Begun
        <5> QED
          BY <5>1, <5>2 DEF CancelsDone, IsReservation, TellsEnd
      <4>3. \E r \in R \cup {0} : r \in R
        BY <3>1
      <4> QED
        BY <1>2, <4>1, <4>2, <4>3 DEF EzeeCancels
    <3>7. EndedOf(b)'
      BY <3>6 DEF EndedOf
    <3> QED
      BY <3>3, <3>5, <3>7 DEF AgreeOf
  <2> QED
    BY <2>2, <2>3, <2>4
<1>3. ASSUME NEW c \in Bookings, TransactionFails(c) PROVE AgreeOf(b)'
  <2>1. UNCHANGED <<life, mirror, queue, acks, alerted>>
    BY <1>3 DEF TransactionFails, Fault, ItemsDone, CancelsOf, Group
  <2> QED
    BY <2>1, Untouched
<1>4. ASSUME NEW c \in Bookings, TaskCloses(c) PROVE AgreeOf(b)'
  <2>1. UNCHANGED <<life, mirror, queue, acks, alerted>>
    BY <1>4 DEF TaskCloses
  <2> QED
    BY <2>1, Untouched
<1>5. ASSUME NEW c \in Bookings, NEW q \in Kinds, TakeJob(q, c) PROVE AgreeOf(b)'
  <2>1. UNCHANGED <<life, mirror, queue, acks, alerted>>
    BY <1>5 DEF TakeJob
  <2> QED
    BY <2>1, Untouched
<1>6. ASSUME NEW S \in SUBSET queue, FetchPendingBookings(S) PROVE AgreeOf(b)'
  <2>1. UNCHANGED <<life, mirror, queue, acks, alerted>>
    BY <1>6 DEF FetchPendingBookings
  <2> QED
    BY <2>1, Untouched
<1>7. ASSUME NEW i \in hand, ProcessReservation(i) PROVE AgreeOf(b)'
  <2>1. /\ UNCHANGED <<life, queue>> /\ alerted \subseteq alerted'
        /\ acks' = acks \cup {i} /\ i.kind = "reservation"
    BY <1>7, Processed DEF ItemsDone
  <2>2. CASE i.b # b
    <3>1. mirror'[b] = mirror[b]
      BY <1>7, <2>2, Processed DEF Types, MirrorTypes
    <3> QED
      BY <2>1, <2>2, <3>1, Untouched
  <2>3. CASE i.b = b /\ b \in alerted'
    BY <2>3 DEF AgreeOf
  <2>4. CASE i.b = b /\ b \notin alerted'
    <3>1. ~Blocked(i) /\ b \notin alerted
      BY <1>7, <2>1, <2>4, Processed
    <3>2. mirror'[b] = Row(i)
      BY <1>7, <2>4, Processed DEF Types, MirrorTypes
    <3>3. mirror'[b].status = i.status /\ mirror'[b].day = i.day
      BY <3>1, <3>2 DEF Row
    <3>4. i \in Taken /\ IsReservation(i, b)
      BY <2>1, <2>4 DEF Taken, IsReservation
    <3>5. \A j \in acks' : IsReservation(j, b) => j = i
      <4>1. OnePayload(Taken)
        BY DEF Polling
      <4>2. acks' \subseteq Taken
        BY <2>1, <3>4 DEF Taken
      <4> QED
        BY <2>1, <2>4, <3>4, <4>1, <4>2 DEF OnePayload, IsReservation
    <3>6. AckedOf(b)'
      BY <3>3, <3>5 DEF AckedOf, Agrees, IsReservation
    <3>7. AliveOf(b)'
      <4> SUFFICES ASSUME life[b].status # "cancelled", PayloadDone(b)' PROVE Agrees(b, life[b])'
        BY <2>1 DEF AliveOf
      <4>1. PICK j \in queue : IsReservation(j, b)
        BY <2>1, <2>4, <3>4 DEF Polling
      <4>2. j = i
        BY <2>1, <3>5, <4>1 DEF PayloadDone, IsReservation
      <4>3. i.day = life[b].day /\ life[b].status = i.status
        BY <4>1, <4>2 DEF LifeOf
      <4> QED
        BY <2>1, <3>3, <4>3 DEF Agrees
    <3>8. EndedOf(b)'
      <4> SUFFICES ASSUME life[b].status = "cancelled", CancelsDone(b)', i.status # "cancelled"
                   PROVE  FALSE
        BY <2>1, <3>3 DEF EndedOf
      <4>1. \A j \in acks' : TellsEnd(j, b) => j \in acks
        BY <2>1 DEF TellsEnd
      <4>2. CancelsDone(b)
        BY <2>1, <4>1 DEF CancelsDone, TellsEnd
      <4>3. mirror[b].status = "cancelled"
        BY <3>1, <4>2 DEF AgreeOf, EndedOf
      <4>4. i.status \in Begun
        BY <2>4, <3>1, <4>3 DEF Blocked, Revives, Begun
      <4>5. life[b].status \in Begun
        BY <3>4, <4>4 DEF LifeOf
      <4> QED
        BY <4>5 DEF Begun
    <3> QED
      BY <3>6, <3>7, <3>8 DEF AgreeOf
  <2> QED
    BY <2>2, <2>3, <2>4
<1>8. ASSUME NEW c \in Bookings, NEW first \in Group(c), InsertCancelStubs(c, first)
      PROVE  AgreeOf(b)'
  <2>1. UNCHANGED <<life, queue, alerted>> /\ acks' = acks \cup Group(c) /\ CancelsOf(c)
    BY <1>8 DEF InsertCancelStubs, ItemsDone
  <2>2. mirror' = [mirror EXCEPT ![c] = [status |-> "cancelled", day |-> Nothing, rooms |-> 0]]
    BY <1>8 DEF InsertCancelStubs
  <2>3. CASE b # c
    <3>1. mirror'[b] = mirror[b] /\ \A i : i.b = b => (i \in acks' <=> i \in acks)
      BY <2>1, <2>2, <2>3 DEF Group, Types, MirrorTypes
    <3> QED
      BY <2>1, <3>1, Untouched
  <2>4. CASE b = c /\ b \in alerted
    BY <2>1, <2>4 DEF AgreeOf
  <2>5. CASE b = c /\ b \notin alerted
    <3>1. mirror[b].status = "none" /\ mirror'[b].status = "cancelled"
      BY <1>8, <2>2, <2>5 DEF InsertCancelStubs, Types, MirrorTypes
    <3>2. life[b].status # "none"
      <4>1. first \in queue /\ IsCancel(first, b)
        BY <2>5 DEF Group, Polling, Taken, IsCancel
      <4>2. gone[b] # {}
        BY <4>1, CancelsAreOfIt
      <4> QED
        BY <4>2 DEF LifeOf
    <3>3. \A i \in acks' : IsReservation(i, b) => i \in acks
      BY <2>1 DEF Group, IsReservation
    <3>4. \A i \in acks' : ~IsReservation(i, b)
      <4>1. \A i \in acks : IsReservation(i, b) => i.status # "none"
        BY DEF Polling, Taken, Formed, IsReservation, Booked
      <4>2. \A i \in acks : IsReservation(i, b) => i.status = "none"
        BY <2>5, <3>1 DEF AgreeOf, AckedOf, Agrees
      <4> QED
        BY <3>3, <4>1, <4>2
    <3>5. AckedOf(b)'
      BY <3>4 DEF AckedOf, IsReservation
    <3>6. AliveOf(b)'
      <4> SUFFICES ASSUME life[b].status # "cancelled", PayloadDone(b)' PROVE FALSE
        BY <2>1 DEF AliveOf
      <4>1. PayloadDone(b)
        BY <2>1, <3>3 DEF PayloadDone, IsReservation
      <4> QED
        BY <2>5, <3>1, <3>2, <4>1 DEF AgreeOf, AliveOf, Agrees
    <3>7. EndedOf(b)'
      BY <3>1 DEF EndedOf
    <3> QED
      BY <3>5, <3>6, <3>7 DEF AgreeOf
  <2> QED
    BY <2>3, <2>4, <2>5
<1>9. ASSUME NEW c \in Bookings, NEW first \in Group(c), SuspectPartialCancel(c, first)
      PROVE  AgreeOf(b)'
  <2>1. /\ UNCHANGED <<life, queue, mirror>> /\ alerted' = alerted \cup {c}
        /\ acks' = acks \cup Group(c)
    BY <1>9 DEF SuspectPartialCancel, ItemsDone
  <2>2. CASE b # c
    <3>1. \A i : i.b = b => (i \in acks' <=> i \in acks)
      BY <2>1, <2>2 DEF Group
    <3> QED
      BY <2>1, <3>1, Untouched
  <2>3. CASE b = c
    BY <2>1, <2>3 DEF AgreeOf
  <2> QED
    BY <2>2, <2>3
<1>10. ASSUME NEW c \in Bookings, NEW first \in Group(c), MarkBookingCancelled(c, first)
      PROVE  AgreeOf(b)'
  <2>1. UNCHANGED <<life, queue, alerted, stubs>> /\ acks' = acks \cup Group(c)
    BY <1>10, Marked DEF ItemsDone
  <2>2. CASE b # c
    <3>1. mirror'[b] = mirror[b] /\ \A i : i.b = b => (i \in acks' <=> i \in acks)
      <4>1. mirror' = mirror \/ mirror' = [mirror EXCEPT ![c].status = "cancelled"]
        BY <1>10, Marked
      <4> QED
        BY <2>1, <2>2, <4>1 DEF Group, Types, MirrorTypes
    <3> QED
      BY <2>1, <3>1, Untouched
  <2>3. CASE b = c /\ b \in alerted
    BY <2>1, <2>3 DEF AgreeOf
  <2>4. CASE b = c /\ b \notin alerted
    <3>1. \A i \in acks' : IsReservation(i, b) => i \in acks
      BY <2>1 DEF Group, IsReservation
    <3>2. PayloadDone(b)' => PayloadDone(b)
      BY <2>1, <3>1 DEF PayloadDone, IsReservation
    <3>3. ASSUME mirror' = mirror, life[b].status = "cancelled" => mirror[b].status = "cancelled"
          PROVE  AgreeOf(b)'
      <4>1. AckedOf(b)'
        BY <2>1, <2>4, <3>1, <3>3 DEF AgreeOf, AckedOf, Agrees, IsReservation, IsCancel
      <4>2. AliveOf(b)'
        BY <2>1, <2>4, <3>2, <3>3 DEF AgreeOf, AliveOf, Agrees
      <4>3. EndedOf(b)'
        BY <2>1, <3>3 DEF EndedOf
      <4> QED
        BY <4>1, <4>2, <4>3 DEF AgreeOf
    <3>4. CASE FoundExactly(first)
      <4>1. mirror' = mirror
        BY <1>10, <3>4, Marked
      <4>2. \E s \in stubs : s[1] = b
        <5>1. first.b = b /\ <<first.b, first.room>> \in stubs
          BY <2>4, <3>4 DEF FoundExactly, Group
        <5> QED
          BY <5>1
      <4>3. mirror[b].status \in {"cancelled"} \cup Begun
        BY <2>4, <4>2 DEF MirrorOf
      <4>4. life[b].status = "cancelled" => mirror[b].status = "cancelled"
        BY <4>3 DEF MirrorOf, Begun
      <4> QED
        BY <3>3, <4>1, <4>4
    <3>5. CASE mirror[b].status = "cancelled"
      <4>1. mirror' = mirror
        <5>1. mirror' = mirror \/ mirror' = [mirror EXCEPT ![c].status = "cancelled"]
          BY <1>10, Marked
        <5>2. mirror[b] \in [status : Statuses, day : Days \cup {Nothing}, rooms : Nat]
          BY DEF Types, MirrorTypes
        <5>3. [mirror[b] EXCEPT !.status = "cancelled"] = mirror[b]
          BY <3>5, <5>2
        <5> QED
          BY <2>4, <5>1, <5>3 DEF Types, MirrorTypes
      <4> QED
        BY <3>3, <3>5, <4>1
    <3>6. CASE ~FoundExactly(first) /\ mirror[b].status # "cancelled"
      <4>1. mirror[b].status # "none" /\ ~Partial(b, first)
        BY <1>10, <2>4, <3>6, Marked
      <4>2. mirror[b].rooms = Rooms[b]
        BY <3>6, <4>1 DEF MirrorOf
      <4>3. life[b].status = "cancelled"
        BY <2>4, <4>1, <4>2, GroupEnds DEF Partial
      <4>4. mirror' = [mirror EXCEPT ![c].status = "cancelled"]
        BY <1>10, <2>4, <3>6, Marked
      <4>5. mirror'[b].status = "cancelled"
        BY <2>4, <4>4 DEF Types, MirrorTypes
      <4>6. first \in acks' /\ IsCancel(first, b)
        BY <2>1, <2>4 DEF Group, IsCancel
      <4>7. AckedOf(b)' /\ AliveOf(b)' /\ EndedOf(b)'
        BY <2>1, <4>3, <4>5, <4>6 DEF AckedOf, AliveOf, EndedOf, IsCancel
      <4> QED
        BY <4>7 DEF AgreeOf
    <3> QED
      BY <3>4, <3>5, <3>6
  <2> QED
    BY <2>2, <2>3, <2>4
<1>11. CASE AckBookings
  <2>1. UNCHANGED <<life, mirror, alerted>> /\ acks' = {} /\ (queue' = queue \/ queue' = queue \ acks)
    BY <1>11 DEF AckBookings
  <2> QED
    BY <2>1, Cleared
<1>12. CASE AckFails
  <2>1. UNCHANGED <<life, mirror, alerted>> /\ acks' = {} /\ (queue' = queue \/ queue' = queue \ acks)
    BY <1>12 DEF AckFails, Fault
  <2> QED
    BY <2>1, Cleared
<1>13. CASE Crash
  <2>1. UNCHANGED <<life, mirror, alerted>> /\ acks' = {} /\ (queue' = queue \/ queue' = queue \ acks)
    BY <1>13 DEF Crash, Fault
  <2> QED
    BY <2>1, Cleared
<1>14. ASSUME NEW q \in Kinds, ReadMirror(q) PROVE AgreeOf(b)'
  <2>1. UNCHANGED <<life, mirror, queue, acks, alerted>>
    BY <1>14 DEF ReadMirror, Goto
  <2> QED
    BY <2>1, Untouched
<1>15. ASSUME NEW q \in Kinds, CancelArrivalTask(q) PROVE AgreeOf(b)'
  <2>1. UNCHANGED <<life, mirror, queue, acks, alerted>>
    BY <1>15 DEF CancelArrivalTask, JobDone
  <2> QED
    BY <2>1, Untouched
<1>16. ASSUME NEW q \in Kinds, Warrants(q) PROVE AgreeOf(b)'
  <2>1. UNCHANGED <<life, mirror, queue, acks, alerted>>
    BY <1>16 DEF Warrants, Goto
  <2> QED
    BY <2>1, Untouched
<1>17. ASSUME NEW q \in Kinds, NoTaskWanted(q) PROVE AgreeOf(b)'
  <2>1. UNCHANGED <<life, mirror, queue, acks, alerted>>
    BY <1>17 DEF NoTaskWanted, JobDone
  <2> QED
    BY <2>1, Untouched
<1>18. ASSUME NEW q \in Kinds, FindTask(q) PROVE AgreeOf(b)'
  <2>1. UNCHANGED <<life, mirror, queue, acks, alerted>>
    BY <1>18 DEF FindTask, Goto, JobDone
  <2> QED
    BY <2>1, Untouched
<1>19. ASSUME NEW q \in Kinds, InsertTask(q) PROVE AgreeOf(b)'
  <2>1. UNCHANGED <<life, mirror, queue, acks, alerted>>
    BY <1>19 DEF InsertTask, JobDone
  <2> QED
    BY <2>1, Untouched
<1>20. ASSUME NEW q \in Kinds, AnchorDeadline(q) PROVE AgreeOf(b)'
  <2>1. UNCHANGED <<life, mirror, queue, acks, alerted>>
    BY <1>20 DEF AnchorDeadline, JobDone
  <2> QED
    BY <2>1, Untouched
<1>21. ASSUME NEW q \in Kinds, JobThrows(q) PROVE AgreeOf(b)'
  <2>1. UNCHANGED <<life, mirror, queue, acks, alerted>>
    BY <1>21 DEF JobThrows, Fault, JobDone
  <2> QED
    BY <2>1, Untouched
<1>22. CASE UNCHANGED vars
  <2>1. UNCHANGED <<life, mirror, queue, acks, alerted>>
    BY <1>22 DEF vars
  <2> QED
    BY <2>1, Untouched
<1> QED
  BY <1>1, <1>2, <1>3, <1>4, <1>5, <1>6, <1>7, <1>8, <1>9, <1>10, <1>11, <1>12, <1>13,
     <1>14, <1>15, <1>16, <1>17, <1>18, <1>19, <1>20, <1>21, <1>22
     DEF Next, PollStep, CancelStep, JobStep

-----------------------------------------------------------------------------
(* The inductive invariant. *)
Inv ==
  /\ Types /\ Polling /\ Working
  /\ \A b \in Bookings : LifeOf(b) /\ MirrorOf(b) /\ AgreeOf(b) /\ ToldOf(b) /\ TaskOf(b)

(* At first there is no booking, and nothing waits. *)
LEMMA InitInv == Init => Inv
<1> SUFFICES ASSUME Init PROVE Inv
  OBVIOUS
<1> USE ConstantsAssumption
<1>1. Types
  <2>1. EzeeTypes
    BY DEF Init, EzeeTypes, Unborn, Facts, Statuses
  <2>2. MirrorTypes
    BY DEF Init, MirrorTypes, Unborn, Facts, Statuses
  <2>3. PollTypes /\ TaskTypes /\ WorkTypes
    BY DEF Init, PollTypes, TaskTypes, WorkTypes, Steps
  <2> QED
    BY <2>1, <2>2, <2>3 DEF Types
<1>2. Polling /\ Working
  BY DEF Init, Polling, Working, Taken, OnePayload
<1>3. ASSUME NEW b \in Bookings
      PROVE  LifeOf(b) /\ MirrorOf(b) /\ AgreeOf(b) /\ ToldOf(b) /\ TaskOf(b)
  <2>1. 1 \in 1 .. Rooms[b]
    BY ConstantsAssumption
  <2>2. LifeOf(b) /\ MirrorOf(b)
    BY <2>1 DEF Init, LifeOf, MirrorOf, Taken, Unborn, Begun
  <2>3. AgreeOf(b)
    BY DEF Init, AgreeOf, AckedOf, AliveOf, EndedOf, Agrees, Unborn
  <2>4. ToldOf(b) /\ TaskOf(b)
    BY DEF Init, ToldOf, TaskOf, Unborn, Dead
  <2> QED
    BY <2>2, <2>3, <2>4
<1> QED
  BY <1>1, <1>2, <1>3 DEF Inv

(* Every step keeps it. *)
LEMMA StepInv == Inv /\ [Next]_vars => Inv'
<1> SUFFICES ASSUME Inv, [Next]_vars PROVE Inv'
  OBVIOUS
<1>1. Types' /\ Polling' /\ Working'
  BY TypesStep, PollingStep, WorkingStep DEF Inv
<1>2. ASSUME NEW b \in Bookings
      PROVE  LifeOf(b)' /\ MirrorOf(b)' /\ AgreeOf(b)' /\ ToldOf(b)' /\ TaskOf(b)'
  BY LifeOfStep, MirrorOfStep, AgreeOfStep, ToldOfStep, TaskOfStep DEF Inv
<1> QED
  BY <1>1, <1>2 DEF Inv

(* The mirror, its queue and its jobs are always as Inv says. *)
THEOREM Inductive == Spec => []Inv
  BY InitInv, StepInv, PTL DEF Spec

(* Every reachable state is well typed. *)
THEOREM TypeCorrect == Spec => []TypeOK
<1>1. Inv => TypeOK
  <2> SUFFICES ASSUME Inv PROVE TypeOK
    OBVIOUS
  <2>1. life \in [Bookings -> Facts] /\ queue \subseteq Items /\ changes \in 0 .. MaxChanges
    BY DEF Inv, Types, EzeeTypes
  <2>2. \A b \in Bookings : gone[b] \subseteq 1 .. Rooms[b]
    BY DEF Inv, Types, EzeeTypes
  <2>3. \A b \in Bookings :
          mirror[b] \in [status : Statuses, day : Days \cup {Nothing}, rooms : 0 .. Rooms[b]]
    BY DEF Inv, Types, MirrorTypes
  <2>4. stubs \subseteq Bookings \X Nat /\ jobs \subseteq Kinds \X Bookings /\ alerted \subseteq Bookings
        /\ told \in [Bookings -> Facts]
    BY DEF Inv, Types, MirrorTypes
  <2>5. hand \subseteq Items /\ acks \subseteq Items /\ pc \in {"idle", "items", "ack"}
    BY DEF Inv, Types, PollTypes
  <2>6. /\ task \in [Bookings -> {"none", "open", "closed", "cancelled"}] /\ raced \subseteq Bookings
        /\ \A b \in Bookings : deadline[b] \in Days \/ task[b] = "none"
    BY DEF Inv, Types, TaskTypes
  <2>7. /\ job \in [Kinds -> Bookings \cup {Nothing}] /\ step \in [Kinds -> Steps]
        /\ day \in [Kinds -> Days \cup {Nothing}] /\ faults \in 0 .. MaxFaults
    BY DEF Inv, Types, WorkTypes
  <2> QED
    BY <2>1, <2>2, <2>3, <2>4, <2>5, <2>6, <2>7 DEF TypeOK
<1> QED
  BY <1>1, Inductive, PTL

(* Once eZee holds nothing of a booking, the mirror agrees with it or ops   *)
(* has been told (poller.ts).                                               *)
THEOREM DivergenceToldSafe == Spec => []DivergenceIsTold
<1>1. Inv => DivergenceIsTold
  <2> SUFFICES ASSUME Inv, NEW b \in Bookings \ alerted, Waiting(b) = {}
               PROVE  /\ mirror[b].status = life[b].status
                      /\ life[b].status # "cancelled" => mirror[b].day = life[b].day
    BY DEF DivergenceIsTold
  <2>1. PayloadDone(b) /\ CancelsDone(b)
    BY DEF Waiting, PayloadDone, CancelsDone, IsReservation, TellsEnd
  <2>2. AliveOf(b) /\ EndedOf(b)
    BY DEF Inv, AgreeOf
  <2> QED
    BY <2>1, <2>2 DEF AliveOf, EndedOf, Agrees
<1> QED
  BY <1>1, Inductive, PTL

(* No task asks staff to prepare for a booking that is over, once its jobs  *)
(* are done and unless it was inserted after the end (jobs/index.ts).       *)
THEOREM NoTaskForTheDeadSafe == Spec => []NoTaskForTheDead
<1>1. Inv => NoTaskForTheDead
  BY DEF Inv, NoTaskForTheDead, TaskOf, Coming, Drained
<1> QED
  BY <1>1, Inductive, PTL

News ==
  \A b \in Bookings : \A k \in Kinds : <<k, b>> \in jobs' \ jobs /\ job[k] # b => told'[b] # told[b]

(* A step that emits an event tells something new. *)
LEMMA EventIsNews ==
  ASSUME Types, Polling, \A b \in Bookings : ToldOf(b), [Next]_vars
  PROVE  News
<1> USE DEF News, ezeeVars, mirrorVars, pollVars, taskVars, workVars
<1>1. ASSUME NEW c \in Bookings, NEW f \in Facts, EzeeUpdates(c, f) PROVE News
  BY <1>1 DEF EzeeUpdates, Change, Reservation, Goto, JobDone
<1>2. ASSUME NEW c \in Bookings, NEW R \in SUBSET (1 .. Rooms[c]), EzeeCancels(c, R)
      PROVE  News
  BY <1>2 DEF EzeeCancels, Change, Cancel, Goto, JobDone
<1>3. ASSUME NEW c \in Bookings, TransactionFails(c) PROVE News
  BY <1>3 DEF TransactionFails, Fault, ItemsDone, CancelsOf, Group, Goto, JobDone
<1>4. ASSUME NEW c \in Bookings, TaskCloses(c) PROVE News
  BY <1>4 DEF TaskCloses, Goto, JobDone
<1>5. ASSUME NEW c \in Bookings, NEW q \in Kinds, TakeJob(q, c) PROVE News
  BY <1>5 DEF TakeJob, Goto, JobDone
<1>6. ASSUME NEW S \in SUBSET queue, FetchPendingBookings(S) PROVE News
  BY <1>6 DEF FetchPendingBookings, Goto, JobDone
<1>7. ASSUME NEW i \in hand, ProcessReservation(i) PROVE News
  <2> SUFFICES ASSUME NEW b \in Bookings, NEW k \in Kinds, <<k, b>> \in jobs' \ jobs
               PROVE  told'[b] # told[b]
    OBVIOUS
  <2>1. PICK kind \in Kinds : Emit(kind, i.b, Row(i))
    BY <1>7, Processed DEF Silent
  <2>2. i.b = b /\ told'[b] = [status |-> Row(i).status, day |-> Row(i).day]
    BY <2>1 DEF Emit, Types, MirrorTypes
  <2>3. CASE ~Blocked(i) /\ Differs(mirror[b], Row(i))
    <3>1. told[b].status # Row(i).status \/ (mirror[b].status # "cancelled" /\ told[b].day # Row(i).day)
          \/ mirror[b].status = "cancelled"
      BY <2>3 DEF Differs, ToldOf
    <3>2. mirror[b].status = "cancelled" => Row(i).status # "cancelled"
      BY <2>2, <2>3 DEF Row, Blocked, Revives
    <3> QED
      BY <2>2, <3>1, <3>2 DEF ToldOf
  <2>4. CASE Silent
    BY <2>4 DEF Silent
  <2>5. CASE ~Silent /\ ~Blocked(i) /\ ~Differs(mirror[b], Row(i))
    <3>1. mirror[b].status = "none"
      BY <1>7, <2>2, <2>5, Processed
    <3>2. Row(i).status # "none"
      BY <1>7, <2>5, Processed DEF Row, Polling, Taken, Formed, Booked
    <3> QED
      BY <3>1, <3>2, <2>5 DEF Differs
  <2> QED
    BY <1>7, <2>3, <2>4, <2>5, Processed
<1>8. ASSUME NEW c \in Bookings, NEW first \in Group(c), InsertCancelStubs(c, first)
      PROVE  News
  <2>1. mirror' = [mirror EXCEPT ![c] = [status |-> "cancelled", day |-> Nothing, rooms |-> 0]]
    BY <1>8 DEF InsertCancelStubs
  <2>2. mirror'[c].status = "cancelled" /\ mirror[c].status = "none"
    BY <1>8, <2>1 DEF InsertCancelStubs, Types, MirrorTypes
  <2>3. /\ jobs' = jobs \cup {<<"cancelled", c>>}
        /\ told' = [told EXCEPT ![c] = [status |-> mirror'[c].status, day |-> mirror'[c].day]]
    BY <1>8 DEF InsertCancelStubs, Emit
  <2>4. told'[c].status = "cancelled" /\ told[c].status = "none"
    BY <2>2, <2>3 DEF ToldOf, Types, MirrorTypes
  <2> QED
    BY <2>3, <2>4
<1>9. ASSUME NEW c \in Bookings, NEW first \in Group(c), SuspectPartialCancel(c, first)
      PROVE  News
  BY <1>9 DEF SuspectPartialCancel, CancelsOf, Group, ItemsDone, Goto, JobDone
<1>10. ASSUME NEW c \in Bookings, NEW first \in Group(c), MarkBookingCancelled(c, first)
      PROVE  News
  <2>1. CASE UNCHANGED <<mirror, jobs, told>>
    BY <2>1
  <2>2. CASE /\ mirror[c].status # "cancelled" /\ jobs' = jobs \cup {<<"cancelled", c>>}
             /\ mirror' = [mirror EXCEPT ![c].status = "cancelled"]
             /\ told' = [told EXCEPT ![c] = [status |-> mirror'[c].status, day |-> mirror'[c].day]]
    <3>1. told'[c].status = "cancelled" /\ told[c].status # "cancelled"
      BY <2>2 DEF ToldOf, Types, MirrorTypes
    <3> QED
      BY <2>2, <3>1
  <2>3. mirror[c].status # "cancelled" \/ UNCHANGED <<mirror, jobs, told>>
    BY <1>10 DEF MarkBookingCancelled, Silent
  <2> QED
    BY <1>10, <2>1, <2>2, <2>3, Marked DEF Emit
<1>11. CASE AckBookings
  BY <1>11 DEF AckBookings, Goto, JobDone
<1>12. CASE AckFails
  BY <1>12 DEF AckFails, Fault, Goto, JobDone
<1>13. CASE Crash
  BY <1>13 DEF Crash
<1>14. ASSUME NEW q \in Kinds, ReadMirror(q) PROVE News
  BY <1>14 DEF ReadMirror, Goto, Goto, JobDone
<1>15. ASSUME NEW q \in Kinds, CancelArrivalTask(q) PROVE News
  BY <1>15 DEF CancelArrivalTask, JobDone, Goto, JobDone
<1>16. ASSUME NEW q \in Kinds, Warrants(q) PROVE News
  BY <1>16 DEF Warrants, Goto, Goto, JobDone
<1>17. ASSUME NEW q \in Kinds, NoTaskWanted(q) PROVE News
  BY <1>17 DEF NoTaskWanted, JobDone, Goto, JobDone
<1>18. ASSUME NEW q \in Kinds, FindTask(q) PROVE News
  BY <1>18 DEF FindTask, Goto, JobDone, Goto, JobDone
<1>19. ASSUME NEW q \in Kinds, InsertTask(q) PROVE News
  BY <1>19 DEF InsertTask, JobDone, Goto, JobDone
<1>20. ASSUME NEW q \in Kinds, AnchorDeadline(q) PROVE News
  BY <1>20 DEF AnchorDeadline, JobDone, Goto, JobDone
<1>21. ASSUME NEW q \in Kinds, JobThrows(q) PROVE News
  BY <1>21 DEF JobThrows, JobDone
<1>22. CASE UNCHANGED vars
  BY <1>22 DEF vars, Goto, JobDone
<1> QED
  BY <1>1, <1>2, <1>3, <1>4, <1>5, <1>6, <1>7, <1>8, <1>9, <1>10, <1>11, <1>12, <1>13,
     <1>14, <1>15, <1>16, <1>17, <1>18, <1>19, <1>20, <1>21, <1>22
     DEF Next, PollStep, CancelStep, JobStep

(* Every event tells something that the last one of its booking did not:    *)
(* a redelivery earns none (db/bookings.ts).                                *)
THEOREM EveryEventIsNewsSafe == Spec => EveryEventIsNews
<1>1. Inv /\ [Next]_vars => [\A b \in Bookings : \A q \in Kinds :
         <<q, b>> \in jobs' \ jobs /\ job[q] # b => told'[b] # told[b]]_vars
  BY EventIsNews DEF Inv, News
<1> QED
  BY <1>1, Inductive, PTL DEF Spec, EveryEventIsNews
=============================================================================
