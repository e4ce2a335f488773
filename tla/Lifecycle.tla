------------------------------ MODULE Lifecycle ------------------------------
(***************************************************************************)
(* The scheduled messages of a few bookings and guests, from the mirror    *)
(* row that plans them to the message that goes out: the scheduler         *)
(* (lifecycle/scheduler.ts) run by booking jobs and by the hourly sweep,   *)
(* the minutely sender with its gates (sender.ts, sendGuards.ts), lead     *)
(* follow-ups and consent (leadFollowup.ts, db/consent.ts).                *)
(*                                                                         *)
(* Every actor changes scheduled_messages by single guarded statements,    *)
(* and acts on what it read before: the scheduler on a mirror row, the     *)
(* sender on a batch of rows that may be minutes old at its last send.     *)
(*                                                                         *)
(* The trailing windows of the caps (30 and 365 days) do not pass here.    *)
(***************************************************************************)
EXTENDS Integers, FiniteSets

CONSTANTS
  Sends,          (* Dedupe keys: a kind of a booking, or a guest's week. *)
  Bookings,       (* Reference bases after LIFECYCLE_EPOCH. *)
  Phones,         (* Guests, who are known by their number. *)
  Nobody,         (* No phone, no booking and no send. *)
  KindOf, BookingOf,   (* Of a send; a lead follow-up has no booking. *)
  LeadOf,         (* The guest of a lead follow-up. *)
  OptedIn,        (* Guests who have opted in to marketing already. *)
  Writers,        (* Guests who may write STOP. *)
  Updates,        (* Rows that eZee may turn a booking into. *)
  Old,            (* Bookings whose stay is over at the start. *)
  Thanked,        (* Their thank-yous that have gone already. *)
  Workers,        (* Runs of scheduleForBooking that may overlap: *)
  Sweeps,         (* the hourly sweep's, and those of the booking jobs. *)
  Ticks,          (* Ticks of the sender that may overlap. *)
  WinbackCap,     (* WINBACK_CAP. *)
  MaxEvents,      (* Bounds what eZee changes about the bookings. *)
  MaxFaults,      (* Bounds failures and crashes. *)
  MaxOverruns     (* Bounds ticks that outlast the expiry of their job. *)

Kinds == {"confirmation", "prearrival", "welcome", "poststay", "winback", "lead_followup"}
PreStay == {"confirmation", "prearrival", "welcome"}      (* PRE_STAY_KINDS *)
MARKETING_KINDS == {"winback", "lead_followup"}

States == {"none", "live", "lived", "transient", "cancelled", "no_show"}
Dead(m) == m.state \in {"cancelled", "no_show"}         (* terminal *)
Stays == {"ahead", "arrived", "over"}
(* words: what stayView and planSends can say of the booking: all, nothing  *)
(* (multi-room), or no fresh plan (no name, an unknown villa type).         *)
MirrorRows ==
  [state : States, phone : Phones \cup {Nobody}, source : BOOLEAN,
   words : {"ok", "multi", "issue"}, stay : Stays]

ASSUME SendsAssumption ==
  /\ IsFiniteSet(Sends)
  /\ Nobody \notin Sends \cup Bookings \cup Phones
  /\ KindOf \in [Sends -> Kinds]
  /\ BookingOf \in [Sends -> Bookings \cup {Nobody}]
  /\ LeadOf \in [Sends -> Phones]
  /\ \A s \in Sends : KindOf[s] = "lead_followup" <=> BookingOf[s] = Nobody
ASSUME BoundsAssumption ==
  /\ Old \subseteq Bookings /\ OptedIn \subseteq Phones /\ Writers \subseteq Phones
  /\ Sweeps \subseteq Workers
  /\ Thanked \subseteq {s \in Sends : KindOf[s] = "poststay" /\ BookingOf[s] \in Old}
  /\ Updates \subseteq {m \in MirrorRows : m.state \notin {"none", "cancelled"}}
  /\ WinbackCap \in Nat /\ MaxEvents \in Nat /\ MaxFaults \in Nat /\ MaxOverruns \in Nat

VARIABLES
  (* bookings_mirror, and the jobs its changes have queued. *)
  mirror, planJobs, cancelJobs,
  (* scheduled_messages. *)
  status,         (* "none" before the row exists. *)
  guest,          (* guest_id. *)
  clock,          (* send_at against now: "early", "due", or "late" (stale). *)
  (* guests and conversations. *)
  consent,        (* "none", "in" (opted in) or "out" (opted out). *)
  leads,          (* Guests whose turn has found a lead, not scheduled yet. *)
  counted,        (* Those among whose rows no recent lead was counted. *)
  (* A run of scheduleForBooking. *)
  booking,        (* The booking in hand. *)
  snap,           (* Its mirror row as it was read. *)
  todo,           (* Sends yet to be written. *)
  (* A tick of runSender. *)
  batch,          (* Due rows yet to be handled. *)
  seen,           (* guest_id of the rows as the due query read them. *)
  cur,            (* The row in hand. *)
  pc,             (* "idle", "gates", "guest", "cap", "claim" or "post". *)
  (* History. *)
  copies,         (* Messages Meta accepted for a send. *)
  doubts,         (* Attempts reported as failed that Meta had accepted. *)
  withdrawn,      (* Dead bookings whose pending sends have been revoked. *)
  rebound,        (* Sends re-bound since the tick read them. *)
  rearmed,        (* Ticks whose row in hand another one has re-armed. *)
  strayed,        (* Sends that went to the guest they had been bound to. *)
  events, faults, overruns

bookingVars == <<mirror, planJobs, cancelJobs, events>>
rowVars == <<status, guest, clock>>
guestVars == <<consent, leads, counted>>
planVars == <<booking, snap, todo>>
tickVars == <<batch, seen, cur, pc, overruns>>
sendHistory == <<copies, doubts, strayed>>
marks == <<rebound, rearmed>>
vars == <<bookingVars, rowVars, guestVars, planVars, tickVars, sendHistory,
          withdrawn, marks, faults>>

Of(b) == {s \in Sends : BookingOf[s] = b}
Statuses == {"none", "pending", "sent", "skipped", "cancelled", "failed"}

TypeOK ==
  /\ mirror \in [Bookings -> MirrorRows]
  /\ planJobs \subseteq Bookings /\ cancelJobs \subseteq Bookings
  /\ status \in [Sends -> Statuses]
  /\ guest \in [Sends -> Phones]
  /\ clock \in [Sends -> {"early", "due", "late"}]
  /\ consent \in [Phones -> {"none", "in", "out"}]
  /\ leads \subseteq Phones /\ counted \subseteq Phones
  /\ booking \in [Workers -> Bookings \cup {Nobody}]
  /\ snap \in [Workers -> MirrorRows]
  /\ todo \in [Workers -> SUBSET Sends]
  /\ batch \in [Ticks -> SUBSET Sends]
  /\ seen \in [Ticks -> [Sends -> Phones \cup {Nobody}]]
  /\ cur \in [Ticks -> Sends \cup {Nobody}]
  /\ pc \in [Ticks -> {"idle", "gates", "guest", "cap", "claim", "post"}]
  /\ copies \in [Sends -> Nat] /\ doubts \in [Sends -> Nat]
  /\ withdrawn \subseteq Bookings
  /\ rebound \in [Ticks -> SUBSET Sends] /\ rearmed \subseteq Ticks
  /\ strayed \subseteq Sends
  /\ events \in 0 .. MaxEvents /\ faults \in 0 .. MaxFaults
  /\ overruns \in 0 .. MaxOverruns

Pending == {s \in Sends : status[s] = "pending"}
Fault == faults < MaxFaults /\ faults' = faults + 1

Absent == [state |-> "none", phone |-> Nobody, source |-> FALSE, words |-> "ok", stay |-> "ahead"]

(* An old booking was messaged all along; what is left of it is pending.    *)
Init ==
  \E p \in [Old -> Phones] :
    /\ mirror = [b \in Bookings |->
                  IF b \in Old THEN [state |-> "lived", phone |-> p[b], source |-> TRUE,
                                     words |-> "ok", stay |-> "over"]
                  ELSE Absent]
    /\ planJobs = {} /\ cancelJobs = {}
    /\ status = [s \in Sends |-> IF s \in Thanked THEN "sent"
                                ELSE IF BookingOf[s] \in Old THEN "pending" ELSE "none"]
    /\ guest = [s \in Sends |-> IF BookingOf[s] \in Old THEN p[BookingOf[s]] ELSE LeadOf[s]]
    /\ clock = [s \in Sends |-> IF BookingOf[s] \in Old THEN "due" ELSE "early"]
    /\ consent = [g \in Phones |-> IF g \in OptedIn THEN "in" ELSE "none"]
    /\ leads = {} /\ counted = {}
    /\ booking = [w \in Workers |-> Nobody]
    /\ snap = [w \in Workers |-> Absent]
    /\ todo = [w \in Workers |-> {}]
    /\ batch = [k \in Ticks |-> {}]
    /\ seen = [k \in Ticks |-> [s \in Sends |-> Nobody]]
    /\ cur = [k \in Ticks |-> Nobody]
    /\ pc = [k \in Ticks |-> "idle"]
    /\ copies = [s \in Sends |-> IF s \in Thanked THEN 1 ELSE 0]
    /\ doubts = [s \in Sends |-> 0]
    /\ withdrawn = {} /\ strayed = {}
    /\ rebound = [k \in Ticks |-> {}] /\ rearmed = {}
    /\ events = 0 /\ faults = 0 /\ overruns = 0

-----------------------------------------------------------------------------
(* eZee: the poller commits a mirror row together with its event's job.     *)

(* A row is created or modified, be it in what the model does not tell      *)
(* apart; a cancelled one comes back but as lived.                          *)
BookingChanges(b, m) ==
  /\ events < MaxEvents /\ events' = events + 1
  /\ mirror[b].state = "cancelled" => m.state = "lived"
  /\ mirror' = [mirror EXCEPT ![b] = m]
  /\ planJobs' = planJobs \cup {b}
  /\ withdrawn' = IF Dead(m) THEN withdrawn ELSE withdrawn \ {b}
  /\ UNCHANGED <<cancelJobs, rowVars, guestVars, planVars, tickVars, sendHistory, marks, faults>>

(* A cancel has a queue of its own.                                         *)
BookingCancelled(b) ==
  /\ events < MaxEvents /\ events' = events + 1
  /\ mirror[b].state \notin {"none", "cancelled"}
  /\ mirror' = [mirror EXCEPT ![b].state = "cancelled"]
  /\ cancelJobs' = cancelJobs \cup {b}
  /\ UNCHANGED <<planJobs, rowVars, guestVars, planVars, tickVars, sendHistory, withdrawn,
                 marks, faults>>

(* The days of a stay go by.                                                *)
StayPasses(b) ==
  /\ mirror[b].state # "none" /\ mirror[b].stay # "over"
  /\ mirror' = [mirror EXCEPT ![b].stay = IF @ = "ahead" THEN "arrived" ELSE "over"]
  /\ UNCHANGED <<planJobs, cancelJobs, events, rowVars, guestVars, planVars, tickVars,
                 sendHistory, withdrawn, marks, faults>>

(* send_at comes, and for the kinds that claim something of the moment they *)
(* are sent at (TRUTH), it goes by.                                         *)
GrowsStale(s) == KindOf[s] \in {"confirmation", "poststay", "lead_followup"}
Age(s) ==
  /\ status[s] = "pending"
  /\ clock[s] = "early" \/ (clock[s] = "due" /\ GrowsStale(s))
  /\ clock' = [clock EXCEPT ![s] = IF @ = "early" THEN "due" ELSE "late"]
  /\ UNCHANGED <<bookingVars, status, guest, guestVars, planVars, tickVars, sendHistory,
                 withdrawn, marks, faults>>

-----------------------------------------------------------------------------
(* scheduleForBooking. *)

(* checkGates: would a lifecycle be started today?                          *)
Gated(m) == m.state = "live" /\ m.stay = "ahead" /\ m.source /\ m.phone # Nobody
HasSchedule(b) == \E s \in Of(b) : status[s] # "none"

(* Mutant: the revoke leaves rows that are due to the sender. *)
RevokeEarly(b) ==
  [s \in Sends |-> IF s \in Of(b) \cap Pending /\ clock[s] = "early" THEN "cancelled" ELSE status[s]]

(* revokePending: never un-send what already went.                          *)
Revoke(b) ==
  [s \in Sends |-> IF s \in Of(b) \cap Pending THEN "cancelled" ELSE status[s]]

(* A job of booking.created or booking.modified is taken.                   *)
TakePlanJob(w, b) ==
  /\ w \notin Sweeps /\ booking[w] = Nobody
  /\ b \in planJobs
  /\ planJobs' = planJobs \ {b}
  /\ booking' = [booking EXCEPT ![w] = b]
  /\ snap' = [snap EXCEPT ![w] = mirror[b]]
  /\ UNCHANGED <<mirror, cancelJobs, events, rowVars, guestVars, todo, tickVars, sendHistory,
                 withdrawn, marks, faults>>

(* Mutant: the sweep passes by what has a schedule. *)
ReconcileNew(w, b) ==
  /\ w \in Sweeps /\ booking[w] = Nobody
  /\ Gated(mirror[b]) /\ ~HasSchedule(b)
  /\ booking' = [booking EXCEPT ![w] = b]
  /\ snap' = [snap EXCEPT ![w] = mirror[b]]
  /\ UNCHANGED <<bookingVars, rowVars, guestVars, todo, tickVars, sendHistory, withdrawn,
                 marks, faults>>

(* runReconcile: the hourly sweep over gatedBookings.                       *)
Reconcile(w, b) ==
  /\ w \in Sweeps /\ booking[w] = Nobody
  /\ Gated(mirror[b])
  /\ booking' = [booking EXCEPT ![w] = b]
  /\ snap' = [snap EXCEPT ![w] = mirror[b]]
  /\ UNCHANGED <<bookingVars, rowVars, guestVars, todo, tickVars, sendHistory, withdrawn,
                 marks, faults>>

Planning(w) == booking[w] # Nobody /\ todo[w] = {}
LetGo(w) ==
  /\ booking' = [booking EXCEPT ![w] = Nobody]
  /\ snap' = [snap EXCEPT ![w] = Absent]

(* Mutant: whatever is on file is re-planned, for nobody if need be. *)
RefusedNew(w) == ~Gated(snap[w]) /\ ~HasSchedule(booking[w])

(* Without a phone there is nobody to re-bind to, whatever is on file.      *)
Refused(w) == ~Gated(snap[w]) /\ (~HasSchedule(booking[w]) \/ snap[w].phone = Nobody)

(* Dead, or not to be described, on a fact that does not flap.              *)
Revocable(w) ==
  \/ Dead(snap[w])
  \/ ~Refused(w) /\ snap[w].words = "multi" /\ snap[w].state # "transient"

RevokeForPlan(w) ==
  /\ Planning(w) /\ Revocable(w)
  /\ status' = Revoke(booking[w])
  /\ withdrawn' = IF Dead(mirror[booking[w]]) THEN withdrawn \cup {booking[w]}
                  ELSE withdrawn
  /\ LetGo(w)
  /\ UNCHANGED <<bookingVars, guest, clock, guestVars, todo, tickVars, sendHistory, marks, faults>>

LeavesAsIs(w) ==
  /\ Planning(w) /\ ~Revocable(w)
  /\ Refused(w) \/ snap[w].words # "ok" \/ snap[w].state = "transient"
  /\ LetGo(w)
  /\ UNCHANGED <<bookingVars, rowVars, guestVars, todo, tickVars, sendHistory, withdrawn,
                 marks, faults>>

(* A plan: the guest of the phone, whose pending leads are moot by now.     *)
Plan(w) ==
  /\ Planning(w) /\ ~Revocable(w) /\ ~Refused(w)
  /\ snap[w].words = "ok" /\ snap[w].state # "transient"
  /\ Of(booking[w]) # {}
  /\ todo' = [todo EXCEPT ![w] = Of(booking[w])]
  /\ status' = [s \in Sends |->
       IF KindOf[s] = "lead_followup" /\ guest[s] = snap[w].phone /\ status[s] = "pending"
       THEN "cancelled" ELSE status[s]]
  /\ UNCHANGED <<bookingVars, guest, clock, guestVars, booking, snap, tickVars, sendHistory,
                 withdrawn, marks, faults>>

(* planSends: the instants that a kind's send_at may be against the clock,  *)
(* by the stay it is anchored to.  The pre-arrival of a booking made late   *)
(* is born due; the confirmation's is the birth of the row.                 *)
PlannedClock(s, stay) ==
  CASE KindOf[s] = "confirmation" -> {"due", "late"}
    [] KindOf[s] \in {"prearrival", "welcome"} -> IF stay = "ahead" THEN {"early", "due"} ELSE {"due"}
    [] OTHER -> IF stay # "over" THEN {"early"}
                ELSE {"early", "due"} \cup (IF GrowsStale(s) THEN {"late"} ELSE {})

(* Mutant: the upsert brings back what was decided. *)
WritableAlways(s) == status[s] # "sent"

(* WHERE status = 'pending', or there is no row yet.                        *)
Writable(s) == status[s] \in {"none", "pending"}

Bind(s, g) == [guest EXCEPT ![s] = g]

(* The rows that a tick has read and not done with. *)
InHand(k) == batch[k] \cup {cur[k]}

(* One INSERT ... ON CONFLICT DO UPDATE.                                    *)
WriteSend(w, s) ==
  /\ booking[w] # Nobody
  /\ s \in todo[w]
  /\ todo' = [todo EXCEPT ![w] = @ \ {s}]
  /\ IF todo[w] = {s} THEN LetGo(w) ELSE UNCHANGED <<booking, snap>>
  /\ IF Writable(s)
     THEN /\ status' = [status EXCEPT ![s] = "pending"]
          /\ guest' = Bind(s, snap[w].phone)
          /\ \E c \in PlannedClock(s, snap[w].stay) : clock' = [clock EXCEPT ![s] = c]
          /\ rebound' = [k \in Ticks |->
               IF s \in InHand(k) /\ guest[s] # snap[w].phone THEN rebound[k] \cup {s} ELSE rebound[k]]
     ELSE UNCHANGED <<status, guest, clock, rebound>>
  /\ UNCHANGED <<bookingVars, guestVars, tickVars, sendHistory, withdrawn, rearmed, faults>>

(* A statement throws: pg-boss retries the job, up to its limit; the next   *)
(* hour is the retry of the sweep.                                          *)
PlanFails(w) ==
  /\ booking[w] # Nobody
  /\ Fault
  /\ planJobs' \in {planJobs} \cup (IF w \in Sweeps THEN {} ELSE {planJobs \cup {booking[w]}})
  /\ LetGo(w)
  /\ todo' = [todo EXCEPT ![w] = {}]
  /\ UNCHANGED <<mirror, cancelJobs, events, rowVars, guestVars, tickVars, sendHistory,
                 withdrawn, marks>>

(* cancelForBooking, of a job of booking.cancelled.                         *)
CancelForBooking(b) ==
  /\ b \in cancelJobs
  /\ cancelJobs' = cancelJobs \ {b}
  /\ status' = Revoke(b)
  /\ withdrawn' = IF Dead(mirror[b]) THEN withdrawn \cup {b} ELSE withdrawn
  /\ UNCHANGED <<mirror, planJobs, events, guest, clock, guestVars, planVars, tickVars,
                 sendHistory, marks, faults>>

-----------------------------------------------------------------------------
(* Guests: their turns, their consent, and the people who take over. *)

(* A turn quotes a price to a guest who has no stay ahead or under way; a   *)
(* guest has one turn at a time.                                            *)
FindLead(g) ==
  /\ g \notin leads \cup counted
  /\ \E s \in Sends : KindOf[s] = "lead_followup" /\ LeadOf[s] = g /\ status[s] = "none"
  /\ \A b \in Bookings :
       mirror[b].phone = g /\ mirror[b].state \in {"live", "lived"} => mirror[b].stay = "over"
  /\ leads' = leads \cup {g}
  /\ UNCHANGED <<bookingVars, rowVars, consent, counted, planVars, tickVars, sendHistory,
                 withdrawn, marks, faults>>

(* countRecentLeadFollowups: pending or sent.                               *)
RecentLeads(g) ==
  {s \in Sends : KindOf[s] = "lead_followup" /\ guest[s] = g /\ status[s] \in {"pending", "sent"}}

(* scheduleLeadFollowup, minutes later: the count ...                       *)
CountLeads(g) ==
  /\ g \in leads
  /\ leads' = leads \ {g}
  /\ counted' = IF RecentLeads(g) = {} THEN counted \cup {g} ELSE counted
  /\ UNCHANGED <<bookingVars, rowVars, consent, planVars, tickVars, sendHistory,
                 withdrawn, marks, faults>>

(* ... and the insert, or the refresh of the week's pending row.            *)
ScheduleLead(g, s) ==
  /\ g \in counted
  /\ KindOf[s] = "lead_followup" /\ LeadOf[s] = g
  /\ counted' = counted \ {g}
  /\ IF Writable(s)
     THEN /\ status' = [status EXCEPT ![s] = "pending"]
          /\ clock' = [clock EXCEPT ![s] = "early"]
     ELSE UNCHANGED <<status, clock>>
  /\ UNCHANGED <<bookingVars, guest, consent, leads, planVars, tickVars, sendHistory,
                 withdrawn, marks, faults>>

(* captureInChatOptIn: a YES after a thank-you that asked for it.           *)
OptIn(g) ==
  /\ consent[g] = "none"
  /\ \E s \in Sends : KindOf[s] = "poststay" /\ guest[s] = g /\ status[s] = "sent"
  /\ consent' = [consent EXCEPT ![g] = "in"]
  /\ UNCHANGED <<bookingVars, rowVars, leads, counted, planVars, tickVars, sendHistory,
                 withdrawn, marks, faults>>

(* STOP: setMarketingOptOut and cancelPendingMarketingRows, in the claim.   *)
Stop(g) ==
  /\ g \in Writers /\ consent[g] # "out"
  /\ consent' = [consent EXCEPT ![g] = "out"]
  /\ status' = [s \in Sends |->
       IF s \in Pending /\ guest[s] = g /\ KindOf[s] \in MARKETING_KINDS
       THEN "cancelled" ELSE status[s]]
  /\ UNCHANGED <<bookingVars, guest, clock, leads, counted, planVars, tickVars, sendHistory,
                 withdrawn, marks, faults>>

-----------------------------------------------------------------------------
(* runSender. *)

Idle(k) == pc[k] = "idle"
Due == {s \in Pending : clock[s] # "early"}

(* A tick reads what is due, ten rows at most, none that is backed off; its *)
(* queue is stately, so another one runs only if it has outlasted its job.  *)
TickReads(k, B) ==
  /\ Idle(k)
  /\ B \subseteq Due /\ B # {}
  /\ IF \A j \in Ticks : Idle(j) THEN UNCHANGED overruns
     ELSE overruns < MaxOverruns /\ overruns' = overruns + 1
  /\ batch' = [batch EXCEPT ![k] = B]
  /\ seen' = [seen EXCEPT ![k] = [s \in Sends |-> IF s \in B THEN guest[s] ELSE Nobody]]
  /\ pc' = [pc EXCEPT ![k] = "gates"]
  /\ UNCHANGED <<bookingVars, rowVars, guestVars, planVars, cur, sendHistory, withdrawn,
                 marks, faults>>

(* The next row of the batch, the oldest first; how old is left open.       *)
NextRow(k, s) ==
  /\ pc[k] = "gates"
  /\ s \in batch[k]
  /\ batch' = [batch EXCEPT ![k] = @ \ {s}]

(* A row is done with; the last one ends the tick.                          *)
Done(k, s) ==
  /\ cur' = [cur EXCEPT ![k] = Nobody]
  /\ seen' = [seen EXCEPT ![k][s] = Nobody]
  /\ pc' = [pc EXCEPT ![k] = IF batch'[k] = {} THEN "idle" ELSE "gates"]
  /\ rebound' = [rebound EXCEPT ![k] = @ \ {s}]
LetRowGo(k) == UNCHANGED batch /\ Done(k, cur[k])
Drop(k) == LetRowGo(k) /\ rearmed' = rearmed \ {k}

(* blockedBy, of the mirror row: dead, or a pre-stay message of a stay that *)
(* is over, or past its moment, is skipped; all that may change back waits. *)
MirrorDefers(m) == m.state \in {"none", "transient"} \/ ~m.source \/ m.phone = Nobody
(* Mutant: a dead booking is waited for. *)
MirrorSkipsOver(s, m) == ~Dead(m) /\ ~MirrorDefers(m) /\ KindOf[s] \in PreStay /\ m.stay = "over"

MirrorSkips(s, m) ==
  \/ Dead(m)
  \/ ~MirrorDefers(m) /\ KindOf[s] \in PreStay /\ m.stay = "over"
Untrue(s) == GrowsStale(s) /\ clock[s] = "late"
NotYetTrue(s, m) == KindOf[s] \in {"prearrival", "welcome"} /\ m.stay # "ahead"

Skips(s) ==
  IF BookingOf[s] = Nobody THEN Untrue(s)
  ELSE LET m == mirror[BookingOf[s]] IN
       MirrorSkips(s, m) \/ (~MirrorDefers(m) /\ Untrue(s))
Defers(s) ==
  /\ ~Skips(s)
  /\ BookingOf[s] # Nobody
  /\ LET m == mirror[BookingOf[s]] IN MirrorDefers(m) \/ NotYetTrue(s, m)

(* resolve: WHERE status = 'pending'.                                       *)
Resolve(s, verdict) ==
  status' = IF s \in Pending THEN [status EXCEPT ![s] = verdict] ELSE status

SkipByMirror(k, s) ==
  /\ NextRow(k, s)
  /\ Skips(s)
  /\ Resolve(s, "skipped")
  /\ Done(k, s)
  /\ UNCHANGED <<bookingVars, guest, clock, guestVars, planVars, overruns, sendHistory, withdrawn,
                 rearmed, faults>>

(* Night comes under it too, but for a confirmation.                        *)
DeferByMirror(k, s) ==
  /\ NextRow(k, s)
  /\ ~Skips(s)
  /\ Defers(s) \/ KindOf[s] # "confirmation"
  /\ Done(k, s)
  /\ UNCHANGED <<bookingVars, rowVars, guestVars, planVars, overruns, sendHistory, withdrawn,
                 rearmed, faults>>

PassMirror(k, s) ==
  /\ NextRow(k, s)
  /\ ~Skips(s) /\ ~Defers(s)
  /\ cur' = [cur EXCEPT ![k] = s]
  /\ pc' = [pc EXCEPT ![k] = "guest"]
  /\ UNCHANGED <<bookingVars, rowVars, guestVars, planVars, seen, overruns, sendHistory, withdrawn,
                 marks, faults>>

Cap(kind) == IF kind = "winback" THEN WinbackCap ELSE 1

(* sentCountSince. *)
SentOf(g, kind) == {s \in Sends : status[s] = "sent" /\ guest[s] = g /\ KindOf[s] = kind}

(* marketingBlock asks for two things, of every marketing row.              *)
ForMarketing(s) == KindOf[s] \in MARKETING_KINDS

(* Mutant: an opt-in once given is not asked for again. *)
UnaskedOnly(s, g) == ForMarketing(s) /\ consent[g] = "none"

(* The guest's row: no opt-in that stands.                                  *)
Unwilling(s, g) == ForMarketing(s) /\ consent[g] # "in"

(* Mutant: the cap lets one more through. *)
BeyondCap(s, g) == ForMarketing(s) /\ Cardinality(SentOf(g, KindOf[s])) > Cap(KindOf[s])

(* Then the count of the kind, against its cap.                             *)
AtCap(s, g) == ForMarketing(s) /\ Cardinality(SentOf(g, KindOf[s])) >= Cap(KindOf[s])

Blocked(k) ==
  LET s == cur[k]
      g == seen[k][s]
  IN (pc[k] = "guest" /\ Unwilling(s, g)) \/ (pc[k] = "cap" /\ AtCap(s, g))

SkipByGuest(k) ==
  /\ Blocked(k)
  /\ Resolve(cur[k], "skipped")
  /\ Drop(k)
  /\ UNCHANGED <<bookingVars, guest, clock, guestVars, planVars, overruns,
                 sendHistory, withdrawn, faults>>

PassConsent(k) ==
  /\ pc[k] = "guest" /\ ~Blocked(k)
  /\ pc' = [pc EXCEPT ![k] = "cap"]
  /\ UNCHANGED <<bookingVars, rowVars, guestVars, planVars, batch, seen, cur, overruns,
                 sendHistory, withdrawn, marks, faults>>

(* A human holds the thread, or the window is closed to a simulated send.   *)
DeferByGuest(k) ==
  /\ pc[k] = "cap" /\ ~Blocked(k)
  /\ Drop(k)
  /\ UNCHANGED <<bookingVars, rowVars, guestVars, planVars, overruns,
                 sendHistory, withdrawn, faults>>

PassGuest(k) ==
  /\ pc[k] = "cap" /\ ~Blocked(k)
  /\ pc' = [pc EXCEPT ![k] = "claim"]
  /\ UNCHANGED <<bookingVars, rowVars, guestVars, planVars, batch, seen, cur, overruns,
                 sendHistory, withdrawn, marks, faults>>

(* planTemplatedSend rejects the stored params.                             *)
ParamsRejected(k) ==
  /\ pc[k] = "cap" /\ ~Blocked(k)
  /\ Fault
  /\ Resolve(cur[k], "failed")
  /\ Drop(k)
  /\ UNCHANGED <<bookingVars, guest, clock, guestVars, planVars, overruns,
                 sendHistory, withdrawn>>

(* Mutant: the claim does not ask whether the row is pending still. *)
ClaimableAnyway(s) == status[s] # "none"

Claimable(s) == status[s] = "pending"

(* The claim and the send intent, in one transaction.                       *)
Claim(k) ==
  /\ pc[k] = "claim" /\ Claimable(cur[k])
  /\ status' = [status EXCEPT ![cur[k]] = "sent"]
  /\ strayed' = IF cur[k] \in rebound[k] THEN strayed \cup {cur[k]} ELSE strayed
  /\ pc' = [pc EXCEPT ![k] = "post"]
  /\ UNCHANGED <<bookingVars, guest, clock, guestVars, planVars, batch, seen, cur, overruns,
                 copies, doubts, withdrawn, marks, faults>>

LoseClaim(k) ==
  /\ pc[k] = "claim" /\ ~Claimable(cur[k])
  /\ Drop(k)
  /\ UNCHANGED <<bookingVars, rowVars, guestVars, planVars, overruns, sendHistory,
                 withdrawn, faults>>

Posted(s) == copies' = [copies EXCEPT ![s] = @ + 1]

PostLands(k) ==
  /\ pc[k] = "post"
  /\ Posted(cur[k])
  /\ Drop(k)
  /\ UNCHANGED <<bookingVars, rowVars, guestVars, planVars, overruns, doubts,
                 strayed, withdrawn, faults>>

(* retryAfterFailedSend; if it throws, the row stays as it was claimed.     *)
ReArm(k) ==
  /\ status' = IF status[cur[k]] = "sent" THEN [status EXCEPT ![cur[k]] = "pending"] ELSE status
  /\ rearmed' = (rearmed \ {k}) \cup {j \in Ticks \ {k} : cur[j] = cur[k]}

(* A 429, a 5xx or a timeout, after which Meta may have accepted it.        *)
PostRetryable(k) ==
  /\ pc[k] = "post"
  /\ Fault
  /\ \/ UNCHANGED <<copies, doubts>>
     \/ Posted(cur[k]) /\ doubts' = [doubts EXCEPT ![cur[k]] = @ + 1]
  /\ ReArm(k) \/ (UNCHANGED status /\ rearmed' = rearmed \ {k})
  /\ LetRowGo(k)
  /\ UNCHANGED <<bookingVars, guest, clock, guestVars, planVars, overruns, strayed,
                 withdrawn>>

PostFails(k) ==
  /\ pc[k] = "post"
  /\ Fault
  /\ status' = [status EXCEPT ![cur[k]] = "failed"]
  /\ Drop(k)
  /\ UNCHANGED <<bookingVars, guest, clock, guestVars, planVars, overruns,
                 sendHistory, withdrawn>>

(* The process dies; what a tick was posting may have been accepted.        *)
Crash ==
  /\ Fault
  /\ \E landed \in SUBSET {k \in Ticks : pc[k] = "post"} :
       copies' = [s \in Sends |-> copies[s] + Cardinality({k \in landed : cur[k] = s})]
  /\ batch' = [k \in Ticks |-> {}]
  /\ cur' = [k \in Ticks |-> Nobody]
  /\ seen' = [k \in Ticks |-> [s \in Sends |-> Nobody]]
  /\ pc' = [k \in Ticks |-> "idle"]
  /\ rebound' = [k \in Ticks |-> {}] /\ rearmed' = {}
  /\ planJobs' = planJobs \cup ({booking[w] : w \in Workers \ Sweeps} \ {Nobody})
  /\ booking' = [w \in Workers |-> Nobody]
  /\ snap' = [w \in Workers |-> Absent]
  /\ todo' = [w \in Workers |-> {}]
  /\ UNCHANGED <<mirror, cancelJobs, events, rowVars, guestVars, overruns, doubts, strayed,
                 withdrawn>>

TickStep(k) ==
  \/ \E s \in Sends : SkipByMirror(k, s) \/ DeferByMirror(k, s) \/ PassMirror(k, s)
  \/ SkipByGuest(k) \/ PassConsent(k) \/ DeferByGuest(k) \/ PassGuest(k)
  \/ Claim(k) \/ LoseClaim(k) \/ PostLands(k)

PlanStep(w) ==
  RevokeForPlan(w) \/ LeavesAsIs(w) \/ Plan(w) \/ \E s \in Sends : WriteSend(w, s)

Next ==
  \/ \E b \in Bookings :
       \/ \E m \in Updates : BookingChanges(b, m)
       \/ BookingCancelled(b) \/ StayPasses(b) \/ CancelForBooking(b)
       \/ \E w \in Workers : TakePlanJob(w, b) \/ Reconcile(w, b)
  \/ \E w \in Workers : PlanStep(w) \/ PlanFails(w)
  \/ \E g \in Phones :
       FindLead(g) \/ CountLeads(g) \/ OptIn(g) \/ Stop(g) \/ \E s \in Sends : ScheduleLead(g, s)
  \/ \E s \in Sends : Age(s)
  \/ \E k \in Ticks :
       \/ TickStep(k) \/ ParamsRejected(k) \/ PostRetryable(k) \/ PostFails(k)
       \/ \E B \in SUBSET Due : TickReads(k, B)
  \/ Crash

Spec == Init /\ [][Next]_vars

(***************************************************************************)
(* Jobs and crons are taken and take their next step, for every wait of    *)
(* theirs has a timeout; the backoff of a row ends and a batch comes to    *)
(* it; a row grows old.  eZee, guests, staff and faults owe nothing.       *)
(***************************************************************************)
FairSpec ==
  /\ Spec
  /\ \A w \in Workers : WF_vars(PlanStep(w))
  /\ \A b \in Bookings :
       /\ SF_vars(\E w \in Workers : TakePlanJob(w, b))
       /\ SF_vars(\E w \in Workers : Reconcile(w, b))
       /\ WF_vars(CancelForBooking(b))
  /\ \A k \in Ticks : WF_vars(TickStep(k))
  /\ \A s \in Sends :
       /\ WF_vars(Age(s))
       /\ SF_vars(\E k \in Ticks, B \in SUBSET Due : s \in B /\ TickReads(k, B))

-----------------------------------------------------------------------------
(* Properties. *)

Goes(s) == status[s] = "pending" /\ status'[s] = "sent"
(* The tick that claims it. *)
By(k, s) == cur[k] = s /\ pc[k] = "claim" /\ pc'[k] = "post"

(* scheduler.ts: a row once sent, skipped, cancelled or failed is history:  *)
(* no plan, sweep or tick with an older read brings it back.  Only its own  *)
(* tick may re-arm a row it has claimed, or fail it.                        *)
OutcomeIsFinal ==
  [][\A s \in Sends :
       /\ status[s] \in {"skipped", "cancelled", "failed"} => status'[s] = status[s]
       /\ status[s] = "sent" /\ status'[s] # "sent" =>
            \E k \in Ticks : pc[k] = "post" /\ cur[k] = s /\ status'[s] \in {"pending", "failed"}]_vars

(* Meta accepts no second copy of a send, whatever ticks overlap or die,    *)
(* but for attempts that were reported as failed and had been accepted.     *)
OneCopy ==
  \A s \in Sends : copies[s] <= 1 + doubts[s]

(* Once the rows of a dead booking have been withdrawn, none of it goes     *)
(* out: not from a tick that judged it alive, nor from a plan that read it  *)
(* alive and wrote it down afterwards.  The exception is a row that one     *)
(* tick was posting at the time and re-armed under another.                 *)
SilentAfterCancel ==
  [][\A s \in Sends : Goes(s) /\ BookingOf[s] # Nobody =>
       \E k \in Ticks : By(k, s) /\ (k \in rearmed \/ BookingOf[s] \notin withdrawn)]_vars

(* Marketing goes to guests who have asked for it and not said STOP since,  *)
(* even if the STOP comes between the look at the guest and the claim.      *)
StopIsFinal ==
  [][\A s \in Sends : Goes(s) /\ KindOf[s] \in MARKETING_KINDS =>
       \E k \in Ticks : By(k, s) /\ (k \in rearmed \/ s \in rebound[k] \/ consent[guest[s]] = "in")]_vars

(* The copies of a marketing kind that a guest has got, less those that     *)
(* were reported as failed (doubts), and less the rows that went to the     *)
(* guest they had been bound to (strayed).                                  *)
Got(g, kind) ==
  UNION {{s} \X (doubts[s] + 1 .. copies[s]) :
           s \in {t \in Sends : KindOf[t] = kind /\ guest[t] = g /\ t \notin strayed}}

(* While no tick outlasts its job, no guest gets more of a marketing kind   *)
(* than its cap - but for the copies that Got leaves out: a row that Meta   *)
(* accepted and reported as failed is armed again, and counts for nothing.  *)
CapHolds ==
  overruns = 0 =>
    \A g \in Phones, kind \in MARKETING_KINDS : Cardinality(Got(g, kind)) <= Cap(kind)

(* A pending row of a dead booking is withdrawn or skipped in the end, even *)
(* if it was written after the cancel.                                      *)
DeadRowsEnd ==
  \A s \in {t \in Sends : BookingOf[t] # Nobody} :
    (status[s] = "pending" /\ Dead(mirror[BookingOf[s]])) ~>
    (status[s] # "pending" \/ ~Dead(mirror[BookingOf[s]]))

(* Whatever job was lost and whatever older read wrote last, the sweep has  *)
(* a booking that passes the gates planned, and for the guest of its phone. *)
Unhealed(b) ==
  /\ Gated(mirror[b]) /\ mirror[b].words = "ok"
  /\ \E s \in Of(b) : \/ status[s] = "none"
                      \/ status[s] = "pending" /\ guest[s] # mirror[b].phone
SweepHeals == \A b \in Bookings : Unhealed(b) ~> ~Unhealed(b)

(***************************************************************************)
(* What a guest may get: the rows as Outbox knows them.                    *)
(***************************************************************************)
StateOf(s) ==
  CASE status[s] = "none" -> "none"
    [] status[s] = "pending" -> "open"
    [] status[s] = "sent" -> "gone"
    [] OTHER -> "ended"

OB == INSTANCE Outbox WITH
  Guests <- Phones,
  Marketing <- {s \in Sends : KindOf[s] \in MARKETING_KINDS},
  state <- [s \in Sends |-> StateOf(s)],
  to <- guest,
  willing <- {g \in Phones : consent[g] = "in"},
  moved <- UNION {rebound[k] : k \in Ticks},
  unasked <- {cur[k] : k \in rearmed}

(* Plans, sweeps, overlapping ticks, lost claims, retries and crashes give  *)
(* a guest no more than Outbox says: a message goes out once, and no more   *)
(* when it was taken back (scheduler.ts, sender.ts, db/consent.ts).         *)
ImplementsOutbox == OB!OBSpec
=============================================================================
