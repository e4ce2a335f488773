---------------------------- MODULE BookingMirror ----------------------------
(***************************************************************************)
(* From eZee's queue of pending bookings to the mirror, its events and the *)
(* task that a booking of a guest with a past issue raises: the poller     *)
(* (ezee/poller.ts), the upsert and the cancel of db/bookings.ts, and the  *)
(* workers of the three booking queues (jobs/index.ts, arrivalTasks.ts).   *)
(*                                                                         *)
(* eZee holds an item until it is ACKed, and a fetch may bring any part of *)
(* what it holds.  A poll mirrors each item in a transaction of its own,   *)
(* with the job of its event, and ACKs what has committed.  Polls do not   *)
(* overlap: their queue is stately, and a poll ends before its 180 s do.   *)
(***************************************************************************)
EXTENDS Integers, FiniteSets

CONSTANTS
  Bookings,       (* Reservation numbers without a suffix. *)
  Rooms,          (* How many rooms a booking has. *)
  Days,           (* Check-in days. *)
  Nothing,        (* No booking and no day. *)
  MaxChanges,     (* Bounds what happens at eZee. *)
  MaxFaults       (* Bounds failures and crashes. *)

ASSUME ConstantsAssumption ==
  /\ Rooms \in [Bookings -> Nat \ {0}]
  /\ Nothing \notin Bookings \cup Days
  /\ MaxChanges \in Nat /\ MaxFaults \in Nat

VARIABLES
  (* eZee. *)
  life,           (* The booking as it is: status and day. *)
  gone,           (* Its rooms that have been cancelled. *)
  queue,          (* Items not ACKed yet. *)
  (* Our side of it. *)
  mirror,         (* bookings_mirror, the rows without a suffix. *)
  stubs,          (* Tombstones of cancels with a suffix. *)
  jobs,           (* Jobs of booking.created, .modified and .cancelled. *)
  alerted,        (* Bookings for which ops has been told of a conflict. *)
  task, deadline, (* The verify-task of a booking. *)
  (* The poll. *)
  pc, hand, acks, (* "idle", "items" or "ack"; items to do; items done. *)
  (* A worker per booking queue. *)
  job, step, day, (* The booking in hand; where it is; the day it has read. *)
  (* History. *)
  told,           (* What the last event of a booking told. *)
  raced,          (* Bookings whose task was inserted after their end. *)
  changes, faults

ezeeVars == <<life, gone, queue, changes>>
mirrorVars == <<mirror, stubs, jobs, alerted, told>>
pollVars == <<pc, hand, acks>>
taskVars == <<task, deadline, raced>>
workVars == <<job, step, day>>
vars == <<ezeeVars, mirrorVars, pollVars, taskVars, workVars, faults>>

Statuses == {"none", "unknown", "confirmed", "checked_in", "checked_out", "no_show", "cancelled"}
Dead == {"cancelled", "no_show"}
Kinds == {"created", "modified", "cancelled"}
Steps == {"idle", "read", "cancel", "verify", "find", "insert", "anchor"}
Facts == [status : Statuses, day : Days \cup {Nothing}]
Items == [b : Bookings, kind : {"reservation", "cancel"}, status : Statuses,
          day : Days \cup {Nothing}, room : Nat]

TypeOK ==
  /\ life \in [Bookings -> Facts]
  /\ \A b \in Bookings : gone[b] \subseteq 1 .. Rooms[b]
  /\ queue \subseteq Items /\ hand \subseteq Items /\ acks \subseteq Items
  /\ \A b \in Bookings :
       mirror[b] \in [status : Statuses, day : Days \cup {Nothing}, rooms : 0 .. Rooms[b]]
  /\ stubs \subseteq Bookings \X Nat
  /\ jobs \subseteq Kinds \X Bookings
  /\ alerted \subseteq Bookings /\ raced \subseteq Bookings
  /\ told \in [Bookings -> Facts]
  /\ task \in [Bookings -> {"none", "open", "closed", "cancelled"}]
  /\ \A b \in Bookings : deadline[b] \in Days \/ task[b] = "none"
  /\ pc \in {"idle", "items", "ack"}
  /\ job \in [Kinds -> Bookings \cup {Nothing}]
  /\ step \in [Kinds -> Steps]
  /\ day \in [Kinds -> Days \cup {Nothing}]
  /\ changes \in 0 .. MaxChanges /\ faults \in 0 .. MaxFaults

Unborn == [status |-> "none", day |-> Nothing]

Init ==
  /\ life = [b \in Bookings |-> Unborn]
  /\ gone = [b \in Bookings |-> {}]
  /\ queue = {} /\ hand = {} /\ acks = {} /\ pc = "idle"
  /\ mirror = [b \in Bookings |-> [status |-> "none", day |-> Nothing, rooms |-> 0]]
  /\ stubs = {} /\ jobs = {} /\ alerted = {} /\ raced = {}
  /\ told = [b \in Bookings |-> Unborn]
  /\ task = [b \in Bookings |-> "none"]
  /\ deadline = [b \in Bookings |-> Nothing]
  /\ job = [q \in Kinds |-> Nothing]
  /\ step = [q \in Kinds |-> "idle"]
  /\ day = [q \in Kinds |-> Nothing]
  /\ changes = 0 /\ faults = 0

Fault == faults < MaxFaults /\ faults' = faults + 1

-----------------------------------------------------------------------------
(* eZee. *)

Reservation(b, f) == [b |-> b, kind |-> "reservation", status |-> f.status, day |-> f.day, room |-> 0]
Cancel(b, r) == [b |-> b, kind |-> "cancel", status |-> "cancelled", day |-> Nothing, room |-> r]
Waiting(b) == {i \in queue : i.b = b}

Change(b) == changes < MaxChanges /\ changes' = changes + 1

(* The latest payload of a booking takes the place of the one before it.    *)
Latest(b, f) == {i \in queue : i.b # b \/ i.kind # "reservation"} \cup {Reservation(b, f)}

(* mapStatus: what a payload may say next of a booking that is not          *)
(* cancelled by it.                                                         *)
MayBecome(s) ==
  CASE s = "none" -> {"unknown", "confirmed"}
    [] s = "unknown" -> {"unknown", "confirmed"}
    [] s = "confirmed" -> {"confirmed", "checked_in", "no_show"}
    [] s = "checked_in" -> {"checked_in", "checked_out"}
    [] s = "cancelled" -> {"checked_in"}
    [] OTHER -> {}

(* Booked, amended, arrived, or taken back once its cancel is through.      *)
EzeeUpdates(b, f) ==
  /\ Change(b)
  /\ life[b].status = "cancelled" => \A i \in queue \cup hand : i.b = b => i.kind # "cancel"
  /\ f.status \in MayBecome(life[b].status) /\ f.day \in Days /\ f # life[b]
  /\ life' = [life EXCEPT ![b] = f]
  /\ gone' = [gone EXCEPT ![b] = IF life[b].status = "cancelled" THEN {} ELSE @]
  /\ queue' = Latest(b, f)
  /\ UNCHANGED <<mirrorVars, pollVars, taskVars, workVars, faults>>

(* Rooms are cancelled, of a stay that has not begun: an entry per room,    *)
(* one under the number without a suffix, or a payload of the reservation   *)
(* that says so itself, by its CurrentStatus or by its verb.                *)
EzeeCancels(b, R) ==
  /\ Change(b)
  /\ life[b].status \in {"unknown", "confirmed"}
  /\ R \subseteq (1 .. Rooms[b]) \ gone[b] /\ R # {}
  /\ gone' = [gone EXCEPT ![b] = @ \cup R]
  /\ life' = [life EXCEPT ![b].status = IF gone[b] \cup R = 1 .. Rooms[b] THEN "cancelled" ELSE @]
  /\ \/ queue' = queue \cup {Cancel(b, r) : r \in R}
     \/ R = 1 .. Rooms[b] /\ queue' = queue \cup {Cancel(b, 0)}
     \/ life'[b].status = "cancelled" /\ queue' = Latest(b, life'[b])
  /\ UNCHANGED <<mirrorVars, pollVars, taskVars, workVars, faults>>

-----------------------------------------------------------------------------
(* The poll. *)

FetchPendingBookings(S) ==
  /\ pc = "idle"
  /\ S \subseteq queue /\ S # {}
  /\ hand' = S /\ pc' = "items"
  /\ UNCHANGED <<acks, ezeeVars, mirrorVars, taskVars, workVars, faults>>

(* The items are done with; those that have committed are ACKed.            *)
ItemsDone(I, committed) ==
  /\ hand' = hand \ I
  /\ acks' = IF committed THEN acks \cup I ELSE acks
  /\ pc' = IF hand' # {} THEN "items" ELSE IF acks' # {} THEN "ack" ELSE "idle"

Emit(kind, b, row) ==
  /\ jobs' = jobs \cup {<<kind, b>>}
  /\ told' = [told EXCEPT ![b] = [status |-> row.status, day |-> row.day]]
Silent == UNCHANGED <<jobs, told>>

(* Mutant: only a confirmed payload is kept from a cancelled row. *)
RevivesUnlessConfirmed(s) == s # "confirmed"

(* REVIVING_STATUSES: proof of life.                                        *)
Revives(s) == s \in {"checked_in", "checked_out"}

(* Mutant: raw is compared, and churns with every delivery. *)
ChurningDiff(prev, next) == TRUE

(* diffMirrorFields.                                                        *)
Differs(prev, next) == prev.status # next.status \/ prev.day # next.day

(* Mutant: a redelivery that changes nothing is not ACKed. *)
AcksChanges(prev, next) == Differs(prev, next)

(* An item is ACKed for its commit, whatever it has changed.                *)
Acks(prev, next) == TRUE

(* eventKindForUpsert.  A row that was never seen may come as a             *)
(* modification, or as a cancel.                                            *)
EventKinds(prev, next) ==
  IF next.status = "cancelled" /\ prev.status # "cancelled" THEN {"cancelled"}
  ELSE IF prev.status = "none" THEN {"created", "modified"} ELSE {"modified"}

(* processReservation: upsertMirrorRow, and its event.                      *)
ProcessReservation(i) ==
  LET prev == mirror[i.b]
      blocked == prev.status = "cancelled" /\ ~Revives(i.status)
      next == [status |-> IF blocked THEN "cancelled" ELSE i.status,
               day |-> i.day, rooms |-> Rooms[i.b]]
  IN
  /\ pc = "items" /\ i \in hand /\ i.kind = "reservation"
  /\ mirror' = [mirror EXCEPT ![i.b] = next]
  /\ alerted' = IF blocked THEN alerted \cup {i.b} ELSE alerted
  /\ IF blocked \/ (prev.status # "none" /\ ~Differs(prev, next)) THEN Silent
     ELSE \E kind \in EventKinds(prev, next) : Emit(kind, i.b, next)
  /\ ItemsDone({i}, Acks(prev, next))
  /\ UNCHANGED <<stubs, ezeeVars, taskVars, workVars, faults>>

(* groupCancels, after the reservations of the fetch.                       *)
Group(b) == {i \in hand : i.b = b /\ i.kind = "cancel"}
CancelsOf(b) ==
  /\ pc = "items"
  /\ Group(b) # {} /\ \A i \in hand : i.kind = "cancel"

FoundExactly(first) == first.room # 0 /\ <<first.b, first.room>> \in stubs

(* No row to cancel: tombstones, one of them under the base number, or a    *)
(* create that is yet to come would bring the booking back.                 *)
InsertCancelStubs(b, first) ==
  /\ CancelsOf(b) /\ first \in Group(b)
  /\ ~FoundExactly(first) /\ mirror[b].status = "none"
  /\ stubs' = stubs \cup {<<b, i.room>> : i \in {j \in Group(b) : j.room # 0}}
  /\ mirror' = [mirror EXCEPT ![b] = [status |-> "cancelled", day |-> Nothing, rooms |-> 0]]
  /\ Emit("cancelled", b, mirror'[b])
  /\ ItemsDone(Group(b), TRUE)
  /\ UNCHANGED <<alerted, ezeeVars, taskVars, workVars, faults>>

(* Fewer entries than rooms: the booking may live for the others.           *)
Partial(b, first) == first.room # 0 /\ Cardinality(Group(b)) < mirror[b].rooms

SuspectPartialCancel(b, first) ==
  /\ CancelsOf(b) /\ first \in Group(b)
  /\ ~FoundExactly(first) /\ mirror[b].status # "none" /\ Partial(b, first)
  /\ alerted' = alerted \cup {b}
  /\ ItemsDone(Group(b), TRUE)
  /\ UNCHANGED <<mirror, stubs, jobs, told, ezeeVars, taskVars, workVars, faults>>

(* markBookingCancelled; of a tombstone it changes nothing.                 *)
MarkBookingCancelled(b, first) ==
  /\ CancelsOf(b) /\ first \in Group(b)
  /\ FoundExactly(first) \/ (mirror[b].status # "none" /\ ~Partial(b, first))
  /\ IF FoundExactly(first) \/ mirror[b].status = "cancelled" THEN Silent /\ UNCHANGED mirror
     ELSE /\ mirror' = [mirror EXCEPT ![b].status = "cancelled"]
          /\ Emit("cancelled", b, mirror'[b])
  /\ ItemsDone(Group(b), TRUE)
  /\ UNCHANGED <<stubs, alerted, ezeeVars, taskVars, workVars, faults>>

(* A transaction fails: its items stay with eZee.                           *)
TransactionFails(b) ==
  /\ pc = "items"
  /\ Fault
  /\ \/ \E i \in hand : i.b = b /\ i.kind = "reservation" /\ ItemsDone({i}, FALSE)
     \/ CancelsOf(b) /\ ItemsDone(Group(b), FALSE)
  /\ UNCHANGED <<ezeeVars, mirrorVars, taskVars, workVars>>

AckBookings ==
  /\ pc = "ack"
  /\ queue' = queue \ acks
  /\ acks' = {} /\ pc' = "idle"
  /\ UNCHANGED <<life, gone, changes, hand, mirrorVars, taskVars, workVars, faults>>

(* eZee does not hear the ACK, or we do not hear its answer.                *)
AckFails ==
  /\ pc = "ack"
  /\ Fault
  /\ queue' \in {queue, queue \ acks}
  /\ acks' = {} /\ pc' = "idle"
  /\ UNCHANGED <<life, gone, changes, hand, mirrorVars, taskVars, workVars>>

-----------------------------------------------------------------------------
(* processBookingJob: what follows the plan of the messages (Lifecycle).    *)

TakeJob(q, b) ==
  /\ step[q] = "idle" /\ <<q, b>> \in jobs
  /\ jobs' = jobs \ {<<q, b>>}
  /\ job' = [job EXCEPT ![q] = b]
  /\ step' = [step EXCEPT ![q] = "read"]
  /\ UNCHANGED <<mirror, stubs, alerted, told, day, ezeeVars, pollVars, taskVars, faults>>

Goto(q, s) == step' = [step EXCEPT ![q] = s] /\ UNCHANGED job
JobDone(q) ==
  /\ job' = [job EXCEPT ![q] = Nothing]
  /\ step' = [step EXCEPT ![q] = "idle"]
  /\ day' = [day EXCEPT ![q] = Nothing]

(* Mutant: only a cancel takes the task back; a no-show does not. *)
EndsByEvent(q) == q = "cancelled"

Ends(q) == q = "cancelled" \/ mirror[job[q]].status \in Dead

ReadMirror(q) ==
  /\ step[q] = "read"
  /\ Goto(q, IF Ends(q) THEN "cancel" ELSE "verify")
  /\ UNCHANGED <<day, ezeeVars, mirrorVars, pollVars, taskVars, faults>>

(* cancelLiveTaskByRequestKey.                                              *)
CancelArrivalTask(q) ==
  /\ step[q] = "cancel"
  /\ task' = [task EXCEPT ![job[q]] = IF @ = "open" THEN "cancelled" ELSE @]
  /\ JobDone(q)
  /\ UNCHANGED <<deadline, raced, ezeeVars, mirrorVars, pollVars, faults>>

(* Mutant: a booking without a check-in passes the gate. *)
WarrantsWithoutDay(q) ==
  /\ step[q] = "verify"
  /\ mirror[job[q]].status = "confirmed"
  /\ Goto(q, "find")
  /\ UNCHANGED <<day, ezeeVars, mirrorVars, pollVars, taskVars, faults>>

(* maybeCreateArrivalVerifyTask: the row is read again, and it is a booking *)
(* to come, of a guest on file with a past issue.                           *)
Warrants(q) ==
  /\ step[q] = "verify"
  /\ mirror[job[q]].status = "confirmed"
  /\ day' = [day EXCEPT ![q] = mirror[job[q]].day]
  /\ Goto(q, "find")
  /\ UNCHANGED <<ezeeVars, mirrorVars, pollVars, taskVars, faults>>

NoTaskWanted(q) ==
  /\ step[q] = "verify"
  /\ JobDone(q)
  /\ UNCHANGED <<ezeeVars, mirrorVars, pollVars, taskVars, faults>>

FindTask(q) ==
  /\ step[q] = "find"
  /\ \/ task[job[q]] = "none" /\ Goto(q, "insert") /\ UNCHANGED day
     \/ task[job[q]] = "open" /\ deadline[job[q]] # day[q] /\ Goto(q, "anchor") /\ UNCHANGED day
     \/ task[job[q]] \notin {"none", "open"} /\ JobDone(q)
     \/ task[job[q]] = "open" /\ deadline[job[q]] = day[q] /\ JobDone(q)
  /\ UNCHANGED <<ezeeVars, mirrorVars, pollVars, taskVars, faults>>

(* The request key admits one row, whoever inserts it.                      *)
InsertTask(q) ==
  /\ step[q] = "insert"
  /\ IF task[job[q]] = "none"
     THEN /\ task' = [task EXCEPT ![job[q]] = "open"]
          /\ deadline' = [deadline EXCEPT ![job[q]] = day[q]]
          /\ raced' = IF mirror[job[q]].status \in Dead THEN raced \cup {job[q]} ELSE raced
     ELSE UNCHANGED taskVars
  /\ JobDone(q)
  /\ UNCHANGED <<ezeeVars, mirrorVars, pollVars, faults>>

(* updateOpenTaskDeadline.                                                  *)
AnchorDeadline(q) ==
  /\ step[q] = "anchor"
  /\ deadline' = [deadline EXCEPT ![job[q]] = IF task[job[q]] = "open" THEN day[q] ELSE @]
  /\ JobDone(q)
  /\ UNCHANGED <<task, raced, ezeeVars, mirrorVars, pollVars, faults>>

(* A statement throws; pg-boss retries the job, twice.                      *)
JobThrows(q) ==
  /\ step[q] # "idle"
  /\ Fault
  /\ jobs' = jobs \cup {<<q, job[q]>>}
  /\ JobDone(q)
  /\ UNCHANGED <<mirror, stubs, alerted, told, ezeeVars, pollVars, taskVars>>

(* DONE, or a first card that reached nobody.                               *)
TaskCloses(b) ==
  /\ task[b] = "open"
  /\ task' = [task EXCEPT ![b] = "closed"]
  /\ UNCHANGED <<deadline, raced, ezeeVars, mirrorVars, pollVars, workVars, faults>>

Crash ==
  /\ Fault
  /\ hand' = {} /\ acks' = {} /\ pc' = "idle"
  /\ jobs' = jobs \cup {<<q, job[q]>> : q \in {k \in Kinds : step[k] # "idle"}}
  /\ job' = [q \in Kinds |-> Nothing]
  /\ step' = [q \in Kinds |-> "idle"]
  /\ day' = [q \in Kinds |-> Nothing]
  /\ UNCHANGED <<mirror, stubs, alerted, told, ezeeVars, taskVars>>

-----------------------------------------------------------------------------
CancelStep(b) ==
  \E first \in Group(b) :
    InsertCancelStubs(b, first) \/ SuspectPartialCancel(b, first) \/ MarkBookingCancelled(b, first)
PollStep ==
  \/ \E i \in hand : ProcessReservation(i)
  \/ \E b \in Bookings : CancelStep(b)
  \/ AckBookings
JobStep(q) ==
  \/ ReadMirror(q) \/ CancelArrivalTask(q) \/ Warrants(q) \/ NoTaskWanted(q)
  \/ FindTask(q) \/ InsertTask(q) \/ AnchorDeadline(q)

Next ==
  \/ \E b \in Bookings :
       \/ \E f \in Facts : EzeeUpdates(b, f)
       \/ \E R \in SUBSET (1 .. Rooms[b]) : EzeeCancels(b, R)
       \/ TransactionFails(b) \/ TaskCloses(b)
       \/ \E q \in Kinds : TakeJob(q, b)
  \/ \E S \in SUBSET queue : FetchPendingBookings(S)
  \/ PollStep \/ AckFails \/ Crash
  \/ \E q \in Kinds : JobStep(q) \/ JobThrows(q)

Spec == Init /\ [][Next]_vars

(***************************************************************************)
(* The cron polls on, a poll takes its next step, and eZee brings all of a *)
(* booking in the end; workers work.  eZee, staff and faults owe nothing.  *)
(***************************************************************************)
FairSpec ==
  /\ Spec
  /\ WF_vars(PollStep)
  /\ \A b \in Bookings :
       SF_vars(\E S \in SUBSET queue : Waiting(b) \subseteq S /\ Waiting(b) # {} /\ FetchPendingBookings(S))
  /\ \A q \in Kinds : WF_vars(JobStep(q)) /\ WF_vars(\E b \in Bookings : TakeJob(q, b))

-----------------------------------------------------------------------------
(* Properties. *)

(* poller.ts: a cancel that has been ACKed never comes again.  Once eZee    *)
(* holds nothing of a booking, the mirror agrees with eZee on what it is,   *)
(* or ops has been told that it does not: no late create, stale payload,    *)
(* partial or misnumbered cancel, failed ACK or crash leaves a silent lie.  *)
DivergenceIsTold ==
  \A b \in Bookings \ alerted :
    Waiting(b) = {} =>
      /\ mirror[b].status = life[b].status
      /\ life[b].status # "cancelled" => mirror[b].day = life[b].day

(* db/bookings.ts: a redelivery is "unchanged" and earns no second event:   *)
(* every event tells something that the last one of its booking did not.    *)
EveryEventIsNews ==
  [][\A b \in Bookings : \A q \in Kinds :
       <<q, b>> \in jobs' \ jobs /\ job[q] # b => told'[b] # told[b]]_vars

(* What eZee holds is mirrored and ACKed in the end, whatever failed.       *)
EveryItemIsAcked == \A b \in Bookings : Waiting(b) # {} ~> Waiting(b) = {}

Drained(b) == \A q \in Kinds : <<q, b>> \notin jobs /\ job[q] # b

(* jobs/index.ts: once the jobs of a dead booking are done, no task asks    *)
(* staff to prepare for it, by a cancel or by a no-show, but for one that   *)
(* was inserted after its end.                                              *)
NoTaskForTheDead ==
  \A b \in Bookings \ raced :
    mirror[b].status \in Dead /\ Drained(b) => task[b] # "open"

=============================================================================
