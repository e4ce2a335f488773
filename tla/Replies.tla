------------------------------- MODULE Replies -------------------------------
(***************************************************************************)
(* One conversation from the model's tool loop to what the guest receives: *)
(* the loop and its one regenerate (brain/turn.ts), the guardrails, the    *)
(* claim, the pages to ops and the send that follow it (brain/worker.ts,   *)
(* opsEscalation.ts), the claim of a booking reference (getBooking.ts) and *)
(* the approval of drafts by ops (draftCommands.ts, draftExpiry.ts).       *)
(*                                                                         *)
(* A turn is the job of one conversation's queue: two do not overlap, and  *)
(* module Conversation shows what the claim does when they would.  What a  *)
(* card's answer is worth is the business of StaffTasks, and of a send,    *)
(* of SendLedger: here an answer is true.                                  *)
(***************************************************************************)
EXTENDS Guardrails, Integers, Sequences, Functions

CONSTANTS
  Drafts,         (* What the model may write: sets of marks. *)
  Situations,     (* What a turn may know of its guest. *)
  References,     (* Booking references a guest may quote. *)
  Limit,          (* REFERENCE_ATTEMPT_LIMIT. *)
  DraftMode,      (* Batches whose replies are held for approval. *)
  Telling,        (* Which rows staff leave in a thread. *)
  None,           (* No reference. *)
  MaxMsgs,        (* Bounds the guest's messages. *)
  MaxRuns,        (* Bounds the telling runs of a loop. *)
  MaxExtras       (* Bounds what staff do, crashes and failures of the model. *)

ASSUME ConstantsAssumption ==
  /\ Drafts \subseteq SUBSET Marks
  /\ Situations \subseteq [must : BOOLEAN, bot : BOOLEAN, live : BOOLEAN, odd : BOOLEAN]
  /\ None \notin References
  /\ DraftMode \subseteq Nat
  /\ Telling \subseteq {"task_done", "sla_nudge"}
  /\ Limit \in Nat \ {0} /\ MaxMsgs \in Nat \ {0}
  /\ MaxRuns \in Nat /\ MaxExtras \in Nat

VARIABLES
  (* The database. *)
  msgs,           (* How many messages the guest has written. *)
  cursor,         (* The last one that a turn has taken. *)
  rows,           (* Claimable system rows, each with the messages before it. *)
  strikes,        (* Refused attempts recorded by the turn of a batch. *)
  links,          (* References linked to the guest. *)
  reply,          (* The intent or draft of a batch, and how often it was sent. *)
  hold,           (* A human holds the thread. *)
  (* The turn. *)
  pc,             (* Where it is. *)
  upto, base,     (* Its newest message; the cursor it has read. *)
  guest,          (* Its situation. *)
  evidence,       (* Classes that rows since the cursor license. *)
  pass,           (* Which loop; 0 is no model. *)
  runs,           (* Telling tool runs of this loop. *)
  carried,        (* What the guardrails keep from the first loop. *)
  claim,          (* The latch of get_booking. *)
  out,            (* What the text to be sent claims. *)
  pages,          (* Channels that are not paged yet. *)
  (* Approvals in hand: batch and step. *)
  approvals,
  (* History. *)
  events,         (* What has really happened, and after which message. *)
  missed,         (* A card of this turn has reached nobody. *)
  extras          (* How much of it, and how many faults. *)

dbVars == <<msgs, cursor, rows, strikes, links, reply, hold>>
loopVars == <<upto, base, guest, evidence, pass, carried>>
turnVars == <<pc, loopVars, runs, claim, out, pages, missed>>
restVars == <<approvals, events, extras>>
vars == <<dbVars, turnVars, restVars>>

Batches == 1 .. MaxMsgs
EventKinds == {"card", "done", "nudge", "fact", "reached", "queued", "lost", "booking"}
Channels == {"thread", "media", "booking_undescribable"}

Nobody == [must |-> FALSE, bot |-> FALSE, live |-> FALSE, odd |-> FALSE]
NoClaim == [refused |-> FALSE, attempted |-> None, strike |-> FALSE, esc |-> "none"]
NothingCarried == [vetoed |-> {}, must |-> FALSE]
NoReply == [status |-> "none", known |-> FALSE, times |-> 0]

TypeOK ==
  /\ msgs \in 0 .. MaxMsgs /\ cursor \in 0 .. msgs
  /\ rows \subseteq RowKinds \X (0 .. MaxMsgs)
  /\ strikes \in [Batches -> Nat]
  /\ links \subseteq References
  /\ reply \in [Batches ->
       [status : {"none", "queued", "pending", "approved", "rejected", "expired"},
        known : BOOLEAN, times : Nat]]
  /\ hold \in BOOLEAN
  /\ pc \in {"idle", "loop", "claim", "page", "deliver", "fact"}
  /\ upto \in 0 .. MaxMsgs /\ base \in 0 .. MaxMsgs
  /\ guest \in [must : BOOLEAN, bot : BOOLEAN, live : BOOLEAN, odd : BOOLEAN]
  /\ evidence \subseteq Claims
  /\ pass \in 0 .. 2
  /\ runs \subseteq Runs
  /\ carried \in [vetoed : SUBSET Claims, must : BOOLEAN]
  /\ claim \in [refused : BOOLEAN, attempted : References \cup {None}, strike : BOOLEAN,
                esc : {"none", "booking_reference", "booking_undescribable"}]
  /\ out \subseteq Claims
  /\ pages \in Seq(Channels)
  /\ approvals \subseteq Batches \X {"check", "send"}
  /\ events \subseteq EventKinds \X (0 .. MaxMsgs)
  /\ missed \in BOOLEAN
  /\ extras \in 0 .. MaxExtras
-----------------------------------------------------------------------------
(* The turn: what it reads, its loop and its tools. *)

Init ==
  /\ msgs = 0 /\ cursor = 0 /\ rows = {} /\ links = {} /\ hold = FALSE
  /\ strikes = [u \in Batches |-> 0]
  /\ reply = [u \in Batches |-> NoReply]
  /\ pc = "idle" /\ upto = 0 /\ base = 0 /\ guest = Nobody /\ evidence = {} /\ pass = 0
  /\ runs = {} /\ carried = NothingCarried /\ claim = NoClaim /\ out = {} /\ pages = <<>>
  /\ approvals = {} /\ events = {} /\ missed = FALSE /\ extras = 0

Happens(kind) == events' = events \cup {<<kind, msgs>>}

GuestWrites ==
  /\ msgs < MaxMsgs
  /\ msgs' = msgs + 1
  /\ UNCHANGED <<cursor, rows, strikes, links, reply, hold, turnVars, restVars>>

(* A DONE and an SLA nudge leave a row each in the guest's thread. *)
StaffTells(kind) ==
  /\ extras < MaxExtras
  /\ extras' = extras + 1
  /\ rows' = rows \cup {<<kind, msgs>>}
  /\ Happens(IF kind = "task_done" THEN "done" ELSE "nudge")
  /\ UNCHANGED <<msgs, cursor, strikes, links, reply, hold, turnVars, approvals>>

TurnIsDue == pc = "idle" /\ msgs > cursor

(* Rows since the guest's previous message, by the time they were stored. *)
SystemEvidence == ClassesOf({r[1] : r \in {x \in rows : x[2] >= cursor}})

RunClaudeTurn(situation) ==
  /\ TurnIsDue /\ ~hold
  /\ upto' = msgs /\ base' = cursor /\ guest' = situation
  /\ evidence' = SystemEvidence /\ pass' = 1 /\ pc' = "loop"
  /\ UNCHANGED <<dbVars, runs, carried, claim, out, pages, missed, restVars>>

(* A media turn gets a task, a booking that may not be described its own   *)
(* channel, and every other reason the card of the thread.                 *)
Channel(reason) == IF reason \in {"media", "booking_undescribable"} THEN reason ELSE "thread"

PageFor(reason) == IF reason = "none" THEN <<>> ELSE <<Channel(reason)>>

(* Mutant: the page of the booking only where nothing else is paged.       *)
MutantPagesOf(reason, situation, esc) ==
  LET first == IF situation.must THEN "complaint" ELSE reason
      held  == IF situation.odd /\ first = "none" THEN "booking_undescribable" ELSE "none"
  IN  PageFor(first) \o PageFor(esc) \o PageFor(held)

(* Mutant: a turn without a reason pages too.                              *)
MutantPagesAlways(reason, situation, esc) == <<reason>> \o PageFor(esc)

(* The policy's reason comes before the guardrails', then that of a        *)
(* refused claim, and a booking that may not be described pages once.      *)
PagesOf(reason, situation, esc) ==
  LET first == IF situation.must THEN "complaint" ELSE reason
      held  == IF situation.odd /\ "booking_undescribable" \notin {first, esc}
               THEN "booking_undescribable" ELSE "none"
  IN  PageFor(first) \o PageFor(esc) \o PageFor(held)

(* At four times the day's budget the model is not called. *)
KillSwitch(situation) ==
  /\ TurnIsDue /\ ~hold
  /\ upto' = msgs /\ base' = cursor /\ pass' = 1
  /\ guest' = [Nobody EXCEPT !.odd = situation.odd]
  /\ out' = Hold
  /\ pages' = PagesOf("referral", situation, "none")
  /\ pc' = "claim"
  /\ UNCHANGED <<dbVars, evidence, runs, carried, claim, missed, restVars>>

(* What the policy answers with a line of the phrasebook, and its page. *)
FixedLines == {[text |-> {"C3"}, reason |-> "human_request"], [text |-> {}, reason |-> "media"],
               [text |-> {}, reason |-> "none"]}

SkipModel(line) ==
  /\ TurnIsDue /\ ~hold
  /\ upto' = msgs /\ base' = cursor
  /\ out' = line.text
  /\ pages' = PagesOf(line.reason, Nobody, "none")
  /\ pc' = "claim"
  /\ UNCHANGED <<dbVars, guest, evidence, pass, runs, carried, claim, missed, restVars>>

SettleSilently ==
  /\ TurnIsDue /\ hold
  /\ cursor' = msgs
  /\ rows' = {r \in rows : r[2] >= msgs}
  /\ events' = {e \in events : e[2] >= msgs}
  /\ UNCHANGED <<msgs, strikes, links, reply, hold, turnVars, approvals, extras>>

(* A run that neither licenses nor vetoes anything leaves no trace here. *)
Ran(tool, answer) ==
  /\ pc = "loop" /\ Cardinality(runs) < MaxRuns
  /\ runs' = runs \cup {<<tool, answer>>}
  /\ UNCHANGED <<dbVars, pc, loopVars, claim, out, pages, approvals, extras>>

(* The stage gate: only a guest with a live stay may raise a task. *)
CreateStaffTask(answer) ==
  /\ guest.live
  /\ Ran("create_staff_task", answer)
  /\ missed' = (missed \/ answer = "failed")
  /\ IF answer = "ok" THEN Happens("card") ELSE UNCHANGED events

(* At night the escalation is queued for the morning, and that is an ok. *)
EscalateToHuman(answer) ==
  /\ Ran("escalate_to_human", IF answer = "failed" THEN "failed" ELSE "ok")
  /\ UNCHANGED missed
  /\ IF answer = "failed" THEN UNCHANGED events ELSE Happens(answer)

RememberFact ==
  /\ Ran("remember_fact", "ok")
  /\ UNCHANGED missed
  /\ Happens("fact")

GetQuote == Ran("get_quote", "ok") /\ UNCHANGED <<missed, events>>

Strikes == FoldFunction(LAMBDA a, b : a + b, 0, strikes)

(* The claim of a reference, one to a turn.  typed: the guest wrote it;    *)
(* proven: with the name and the day, or the e-mail, of the booking;       *)
(* plain: the booking may be described, in all its rooms.                  *)
Stated(ref, typed) == typed /\ claim.attempted \in {None, ref}
Refused(ref, proven) == ref \notin links /\ (Strikes >= Limit \/ ~proven)

Verdict(ref, typed, proven, plain) ==
  IF ~Stated(ref, typed) THEN [claim EXCEPT !.refused = TRUE]
  ELSE IF Refused(ref, proven)
  THEN [refused |-> TRUE, attempted |-> ref, strike |-> TRUE, esc |-> "booking_reference"]
  ELSE [claim EXCEPT !.refused = ~plain, !.attempted = ref,
                     !.esc = IF plain THEN @ ELSE "booking_undescribable"]

GetBooking(ref, typed, proven, plain) ==
  /\ pc = "loop" /\ ~claim.refused
  /\ claim' = Verdict(ref, typed, proven, plain)
  /\ links' = IF Stated(ref, typed) /\ ~Refused(ref, proven) THEN links \cup {ref} ELSE links
  /\ UNCHANGED <<msgs, cursor, rows, strikes, reply, hold, pc, loopVars, runs, out, pages,
                 missed, restVars>>
-----------------------------------------------------------------------------
(* The guardrails: one regenerate, then a deferral, a substitute or a trim. *)

(* What must escalate is settled when the first loop ends. *)
Must == IF pass = 1 THEN guest.must \/ claim.esc # "none" ELSE carried.must

Evidence == [runs |-> runs, evidence |-> evidence, vetoed |-> carried.vetoed, must |-> Must,
             bot |-> guest.bot, live |-> guest.live, odd |-> guest.odd]

(* Mutant: a claim disproved in the first loop is free in the second.      *)
MutantVetoes == {}

(* The second loop has no runs of the first, but keeps what they disproved. *)
Vetoes == VetoedBy(runs)

(* The turn returns; locals that nobody reads again start over.            *)
Answer(outcome) ==
  /\ out' = outcome.text \cap Claims
  /\ pages' = PagesOf(outcome.reason, guest, claim.esc)
  /\ pc' = "claim"
  /\ guest' = [Nobody EXCEPT !.odd = guest.odd]
  /\ claim' = [NoClaim EXCEPT !.strike = claim.strike]
  /\ runs' = runs \cap {<<"remember_fact", "ok">>}
  /\ carried' = NothingCarried /\ evidence' = {} /\ pass' = 1
  /\ UNCHANGED <<dbVars, upto, base, missed, restVars>>

Passes(draft) ==
  LET text == Locked(draft) IN
  /\ pc = "loop" /\ Accepted(text, Evidence)
  /\ Answer(Final(text, Referral(text, Evidence), Evidence, FALSE))

(* The second loop starts with no runs of its own. *)
Regenerate(draft) ==
  /\ pc = "loop" /\ pass = 1 /\ ~Accepted(Locked(draft), Evidence)
  /\ pass' = 2 /\ runs' = {}
  /\ carried' = [vetoed |-> Vetoes, must |-> Must]
  /\ UNCHANGED <<dbVars, pc, upto, base, guest, evidence, claim, out, pages, missed, restVars>>

Defers(draft) ==
  LET reason == Broken(Locked(draft), Evidence) IN
  /\ pc = "loop" /\ pass = 2 /\ reason # "none"
  /\ Answer(Deferral(reason))

Substitutes(draft) ==
  LET text == Locked(draft) IN
  /\ pc = "loop" /\ pass = 2
  /\ Broken(text, Evidence) = "none" /\ NoIdentity(text, Evidence)
  /\ Answer(Final(IdentityLine, Referral(text, Evidence), Evidence, FALSE))

TrimsAtSentence(draft) ==
  LET text == Locked(draft) IN
  /\ pc = "loop" /\ pass = 2
  /\ Broken(text, Evidence) = "none" /\ ~NoIdentity(text, Evidence) /\ "long" \in text
  /\ \E t \in Trims(text) : Answer(Final(t, Referral(text, Evidence), Evidence, TRUE))
-----------------------------------------------------------------------------
(* The claim, and what only its winner does. *)

(* A draft, if the model ran and the type is not unlocked, or a human must *)
(* see the booking.                                                        *)
HeldForApproval(unlocked) == upto \in DraftMode /\ pass # 0 /\ (guest.odd \/ ~unlocked)

(* Rows before the claimed message are read by no later turn.              *)
ClaimTurn(open, unlocked) ==
  /\ pc = "claim"
  /\ cursor' = upto
  /\ rows' = {r \in rows : r[2] >= upto}
  /\ reply' = IF open
              THEN [reply EXCEPT ![upto].status =
                     IF HeldForApproval(unlocked) THEN "pending" ELSE "queued"]
              ELSE reply
  /\ pc' = "page"
  /\ UNCHANGED <<msgs, strikes, links, hold, loopVars, runs, claim, out, pages, missed, restVars>>

(* A page reaches a person, who is then evidence, or an alert says it did  *)
(* not.  A media turn gets a task and no row.                              *)
EscalateToOps(delivered) ==
  LET channel == Head(pages) IN
  /\ pc = "page" /\ pages # <<>>
  /\ pages' = Tail(pages)
  /\ events' = events \cup {<<IF delivered THEN "reached" ELSE "lost", msgs>>}
                      \cup {<<"booking", msgs>> : c \in {channel} \cap {"booking_undescribable"}}
  /\ rows' = IF delivered /\ channel # "media" THEN rows \cup {<<"ops_escalation", msgs>>} ELSE rows
  /\ UNCHANGED <<msgs, cursor, strikes, links, reply, hold, pc, loopVars, runs, claim, out,
                 missed, approvals, extras>>

(* After the pages, the refusal that the claim carried is recorded.        *)
RecordReferenceAttempt ==
  /\ pc = "page" /\ pages = <<>>
  /\ strikes' = IF claim.strike THEN [strikes EXCEPT ![upto] = @ + 1] ELSE strikes
  /\ claim' = NoClaim
  /\ pc' = "deliver"
  /\ UNCHANGED <<msgs, cursor, rows, links, reply, hold, loopVars, runs, out, pages, missed,
                 restVars>>

(* What a turn did without leaving a row is forgotten with it: the next    *)
(* one may not rest on it.                                                 *)
ForgetTurn ==
  /\ upto' = 0 /\ base' = 0 /\ guest' = Nobody /\ evidence' = {} /\ pass' = 0
  /\ carried' = NothingCarried /\ claim' = NoClaim /\ out' = {} /\ pages' = <<>>
  /\ missed' = FALSE
  /\ events' = {e \in events : e[1] \in {"done", "nudge", "fact", "reached"} /\ e[2] >= cursor}

(* The card of a draft, the dispatch of an intent, or nothing. *)
Deliver(landed) ==
  /\ pc = "deliver"
  /\ reply' = CASE reply[upto].status = "queued" /\ landed -> [reply EXCEPT ![upto].times = @ + 1]
                [] reply[upto].status = "pending" /\ landed -> [reply EXCEPT ![upto].known = TRUE]
                [] OTHER -> reply
  /\ pc' = "fact"
  /\ ForgetTurn
  /\ UNCHANGED <<msgs, cursor, rows, strikes, links, hold, runs, approvals, extras>>

(* The row that tells of a saved fact is the turn's last write. *)
SaveFactRow ==
  /\ pc = "fact"
  /\ IF <<"remember_fact", "ok">> \in runs
     THEN rows' = rows \cup {<<"fact_saved", msgs>>} /\ Happens("fact")
     ELSE UNCHANGED <<rows, events>>
  /\ pc' = "idle" /\ runs' = {}
  /\ UNCHANGED <<msgs, cursor, strikes, links, reply, hold, loopVars, claim, out, pages, missed,
                 approvals, extras>>
-----------------------------------------------------------------------------
(* The approval of drafts. *)

TakeOver ==
  /\ ~hold /\ extras < MaxExtras
  /\ hold' = TRUE /\ extras' = extras + 1
  /\ UNCHANGED <<msgs, cursor, rows, strikes, links, reply, turnVars, approvals, events>>

HandBack ==
  /\ hold
  /\ hold' = FALSE
  /\ UNCHANGED <<msgs, cursor, rows, strikes, links, reply, turnVars, restVars>>

(* Mutant: an approved draft may be approved again. *)
MutantUndecided(u) == reply[u].status \in {"pending", "approved"}

Undecided(u) == reply[u].status = "pending"

(* Ops know a draft by the id on its card.  To one already decided the     *)
(* answer is that it was.  EDIT is an OK in the approver's own words.      *)
ClaimDraftDecision(u, verdict) ==
  /\ reply[u].known /\ Undecided(u)
  /\ reply' = [reply EXCEPT ![u].status = verdict]
  /\ approvals' = IF verdict = "rejected" THEN approvals ELSE approvals \cup {<<u, "check">>}
  /\ UNCHANGED <<msgs, cursor, rows, strikes, links, hold, turnVars, events, extras>>

(* A thread that a human holds is left to them. *)
CheckHold(u) ==
  /\ <<u, "check">> \in approvals
  /\ approvals' = (approvals \ {<<u, "check">>}) \cup (IF hold THEN {} ELSE {<<u, "send">>})
  /\ UNCHANGED <<dbVars, turnVars, events, extras>>

SendApproved(u, landed) ==
  /\ <<u, "send">> \in approvals
  /\ approvals' = approvals \ {<<u, "send">>}
  /\ reply' = IF landed THEN [reply EXCEPT ![u].times = @ + 1] ELSE reply
  /\ UNCHANGED <<msgs, cursor, rows, strikes, links, hold, turnVars, events, extras>>

(* Drafts older than DRAFT_EXPIRY_MINUTES; a pending one becomes it.       *)
ExpireStaleDrafts(stale) ==
  /\ stale # {} /\ \A u \in stale : reply[u].status = "pending"
  /\ reply' = [u \in Batches |->
                 IF u \in stale THEN [reply[u] EXCEPT !.status = "expired"] ELSE reply[u]]
  /\ UNCHANGED <<msgs, cursor, rows, strikes, links, hold, turnVars, restVars>>

(* Mutant: the tool records the refusal itself, whether the turn claims. *)
MutantModelThrows ==
  /\ pc = "loop" /\ extras < MaxExtras
  /\ extras' = extras + 1
  /\ strikes' = IF claim.strike THEN [strikes EXCEPT ![upto] = @ + 1] ELSE strikes
  /\ pc' = "idle" /\ runs' = {} /\ ForgetTurn
  /\ UNCHANGED <<msgs, cursor, rows, links, reply, hold, approvals>>

(* The model fails, and the job is tried again with what there is then. *)
ModelThrows ==
  /\ pc = "loop" /\ extras < MaxExtras
  /\ extras' = extras + 1
  /\ pc' = "idle" /\ runs' = {} /\ ForgetTurn
  /\ UNCHANGED <<dbVars, approvals>>

Crash ==
  /\ pc # "idle" \/ approvals # {}
  /\ extras < MaxExtras
  /\ extras' = extras + 1
  /\ pc' = "idle" /\ runs' = {} /\ ForgetTurn
  /\ approvals' = {}
  /\ UNCHANGED dbVars
-----------------------------------------------------------------------------
BeginStep ==
  \/ \E s \in Situations : RunClaudeTurn(s) \/ KillSwitch(s)
  \/ \E line \in FixedLines : SkipModel(line)
  \/ SettleSilently

ToolStep ==
  \/ \E answer \in {"ok", "failed"} : CreateStaffTask(answer)
  \/ \E answer \in {"reached", "queued", "failed"} : EscalateToHuman(answer)
  \/ RememberFact
  \/ GetQuote
  \/ \E ref \in References, typed, proven, plain \in BOOLEAN : GetBooking(ref, typed, proven, plain)

GuardrailStep ==
  \E draft \in Drafts :
     \/ Passes(draft)
     \/ Regenerate(draft)
     \/ Defers(draft)
     \/ Substitutes(draft)
     \/ TrimsAtSentence(draft)

ClaimedStep ==
  \/ \E open, unlocked \in BOOLEAN : ClaimTurn(open, unlocked)
  \/ \E delivered \in BOOLEAN : EscalateToOps(delivered)
  \/ RecordReferenceAttempt
  \/ \E landed \in BOOLEAN : Deliver(landed)
  \/ SaveFactRow

DraftStep ==
  \/ \E u \in Batches, verdict \in {"approved", "rejected"} : ClaimDraftDecision(u, verdict)
  \/ \E u \in Batches : CheckHold(u)
  \/ \E u \in Batches, landed \in BOOLEAN : SendApproved(u, landed)
  \/ \E stale \in SUBSET Batches : ExpireStaleDrafts(stale)

(* The loop, the claim and the delivery read nothing that these change, so *)
(* what happens meanwhile is taken to happen before or after.              *)
WorldStep ==
  /\ pc \in {"idle", "page", "fact"}
  /\ \/ GuestWrites
     \/ \E kind \in Telling : StaffTells(kind)
     \/ TakeOver
     \/ HandBack

FaultStep == ModelThrows \/ Crash

Next == BeginStep \/ ToolStep \/ GuardrailStep \/ ClaimedStep \/ DraftStep \/ WorldStep \/ FaultStep

Spec == Init /\ [][Next]_vars

-----------------------------------------------------------------------------
(* The turn at hand sends its reply, or puts it on a card before ops.      *)
Shows == upto # 0 /\ reply'[upto] # reply[upto] /\ (reply'[upto].known \/ reply'[upto].times > 0)

(* It has happened since the guest's previous message. *)
Since(kinds) == \E e \in events : e[1] \in kinds /\ e[2] >= base

(* What a claim may rest on. *)
Proof(class) ==
  CASE class = "C1" -> {"card", "done", "nudge"}
    [] class = "C2" -> {"card"}
    [] class = "C4" -> {"fact"}
    [] OTHER -> {}

Backed(text) ==
  \A class \in text \cap (Claims \ {"C3"}) :
    Since(Proof(class)) /\ ~(missed /\ class \in {"C1", "C2"})

(* A reply that says a thing has been done was made true by something that *)
(* happened, or was put on the thread as a fact, since the guest's         *)
(* previous message, and by no turn whose own card has reached nobody: in  *)
(* the first loop or in the second, whatever older rows say (promises.ts). *)
ClaimsAreBacked == [][Shows => Backed(out)]_vars

(* Before the guest reads that the team is being brought in, a person has  *)
(* been paged, queued for, or an alert says that nobody was reached; and   *)
(* a booking that a human must see has had its page (worker.ts).           *)
Told ==
  /\ "C3" \in out => Since({"reached", "queued", "lost"})
  /\ guest.odd => Since({"booking"})

ReferralIsMade == [][Shows => Told]_vars

(* A batch is answered at most once, whoever approves a draft and however  *)
(* often, and a draft that nobody approved reaches no guest (drafts.ts).   *)
OneReplyPerBatch ==
  \A u \in Batches :
    /\ reply[u].times <= 1
    /\ reply[u].times = 1 => reply[u].status \in {"queued", "approved"}

(* A guest's mistake costs one strike, whatever is retried or regenerated, *)
(* and a turn that did not claim costs none (getBooking.ts, worker.ts).    *)
OneStrikePerBatch ==
  \A u \in Batches : strikes[u] <= 1 /\ (strikes[u] = 1 => u <= cursor)

=============================================================================
