--------------------------- MODULE RepliesProofs ---------------------------
(***************************************************************************)
(* Replies for every number of messages, runs and faults, every vocabulary *)
(* of drafts and every situation of a guest.                               *)
(***************************************************************************)
EXTENDS Replies, TLAPS

(* The types, by kind: numbers, sets, records, and what says yes or no.    *)
CounterType ==
  /\ msgs \in 0 .. MaxMsgs /\ cursor \in 0 .. msgs
  /\ strikes \in [Batches -> Nat]
  /\ upto \in 0 .. MaxMsgs /\ base \in 0 .. MaxMsgs
  /\ pass \in 0 .. 2
  /\ extras \in 0 .. MaxExtras
  /\ pc \in {"idle", "loop", "claim", "page", "deliver", "fact"}

SetType ==
  /\ rows \subseteq RowKinds \X (0 .. MaxMsgs)
  /\ events \subseteq EventKinds \X (0 .. MaxMsgs)
  /\ links \subseteq References
  /\ evidence \subseteq Claims
  /\ runs \subseteq Runs
  /\ out \subseteq Claims
  /\ approvals \subseteq Batches \X {"check", "send"}
  /\ pages \in Seq(Channels)

RecordType ==
  /\ guest \in [must : BOOLEAN, bot : BOOLEAN, live : BOOLEAN, odd : BOOLEAN]
  /\ carried \in [vetoed : SUBSET Claims, must : BOOLEAN]
  /\ claim \in [refused : BOOLEAN, attempted : References \cup {None}, strike : BOOLEAN,
                esc : {"none", "booking_reference", "booking_undescribable"}]
  /\ hold \in BOOLEAN
  /\ missed \in BOOLEAN

ReplyType ==
  reply \in [Batches ->
    [status : {"none", "queued", "pending", "approved", "rejected", "expired"},
     known : BOOLEAN, times : Nat]]

(* Where the turn stands: between turns nothing is left of one, and a turn *)
(* that is not claimed yet answers what the cursor has not passed.         *)
Turn ==
  /\ pc = "idle" => runs = {}
  /\ pc \in {"idle", "fact"} =>
       /\ upto = 0 /\ guest = Nobody /\ carried = NothingCarried /\ claim = NoClaim
       /\ ~missed /\ pages = <<>>
  /\ pc \in {"loop", "claim"} => base = cursor /\ cursor < upto /\ upto <= msgs
  /\ pc \in {"page", "deliver"} => upto = cursor /\ upto # 0
  /\ base <= cursor
  /\ pc = "deliver" => pages = <<>>

(* What the guest has been sent of a batch.  Beyond the cursor there is    *)
(* nothing; the reply of the turn at hand is on no card and on no phone;   *)
(* and an approval in hand is the only one, of a draft not yet sent.       *)
InHand(u) == <<u, "check">> \in approvals \/ <<u, "send">> \in approvals

RepliedOf(u) ==
  /\ u > cursor => reply[u] = NoReply
  /\ reply[u].times <= 1
  /\ reply[u].times = 1 => reply[u].status \in {"queued", "approved"}
  /\ InHand(u) => reply[u].status = "approved" /\ reply[u].known /\ reply[u].times = 0
  /\ ~(<<u, "check">> \in approvals /\ <<u, "send">> \in approvals)

Unseen == pc \in {"page", "deliver"} => ~reply[upto].known /\ reply[upto].times = 0

Replied == (\A u \in Batches : RepliedOf(u)) /\ Unseen

(* A strike is recorded once, after the claim. *)
Struck ==
  /\ \A u \in Batches : strikes[u] <= 1 /\ (u > cursor => strikes[u] = 0)
  /\ pc = "page" => strikes[upto] = 0

(* A row that a claim may rest on tells of what happened after the message *)
(* that it stands behind, and none is older than the cursor.               *)
EventOf(k) ==
  CASE k = "task_done" -> "done" [] k = "sla_nudge" -> "nudge"
    [] k = "fact_saved" -> "fact" [] OTHER -> "reached"

RowsTell ==
  \A k \in RowKinds, n \in Nat : <<k, n>> \in rows => n >= cursor /\ <<EventOf(k), n>> \in events

(* What the loop may license is true: by what the rows tell of, or by a    *)
(* run of this loop; and a card that reached nobody is disproved by a run  *)
(* of this loop or carried over from the first.                            *)
EvidenceIsTrue ==
  /\ evidence \subseteq {"C1", "C3", "C4"}
  /\ "C1" \in evidence => Since({"done", "nudge"})
  /\ "C3" \in evidence => Since({"reached"})
  /\ "C4" \in evidence => Since({"fact"})

RunsAreTrue ==
  /\ <<"create_staff_task", "ok">> \in runs => Since({"card"})
  /\ <<"escalate_to_human", "ok">> \in runs => Since({"reached", "queued"})
  /\ <<"remember_fact", "ok">> \in runs => Since({"fact"})
  /\ pass = 1 => carried = NothingCarried
  /\ missed => <<"create_staff_task", "failed">> \in runs \/ {"C1", "C2"} \subseteq carried.vetoed

LoopIsTrue == pc = "loop" => EvidenceIsTrue /\ RunsAreTrue

(* What is about to be sent is backed, and who must hear of it has been    *)
(* paged or is about to be.                                                *)
Sending == pc \in {"claim", "page", "deliver"}
Backing == Sending => Backed(out)

Waits(channel) == \E i \in 1 .. Len(pages) : pages[i] = channel

Paging ==
  Sending =>
    /\ "C3" \in out => Since({"reached", "queued", "lost"}) \/ pages # <<>>
    /\ guest.odd => Since({"booking"}) \/ Waits("booking_undescribable")

(* What is queued before ops is a sequence of channels. *)
LEMMA PagesType ==
  \A reason, situation, esc : PagesOf(reason, situation, esc) \in Seq(Channels)
<1>1. ASSUME NEW r PROVE PageFor(r) \in Seq(Channels)
  <2>1. Channel(r) \in Channels
    BY DEF Channel, Channels
  <2> QED
    BY <2>1 DEF PageFor
<1>2. \A s, t \in Seq(Channels) : s \o t \in Seq(Channels)
  OBVIOUS
<1> QED
  BY <1>1, <1>2, Zenon DEF PagesOf

(* What the rows of a thread license are classes of claims. *)
LEMMA EvidenceType == ASSUME SetType PROVE SystemEvidence \subseteq Claims
<1>1. \A kind \in RowKinds : ContextClaims(kind) \subseteq Claims
  BY DEF ContextClaims, Claims, RowKinds
<1>2. \A r \in rows : r[1] \in RowKinds
  BY DEF SetType
<1> QED
  BY <1>1, <1>2 DEF SystemEvidence, ClassesOf

(* The guardrails end in an answer, one way or another. *)
Answering(draft) ==
  Passes(draft) \/ Defers(draft) \/ Substitutes(draft) \/ TrimsAtSentence(draft)

(* Each of them is a way to answer. *)
LEMMA GuardrailsAnswer ==
  ASSUME NEW draft, Answering(draft)
  PROVE  pc = "loop" /\ \E outcome : Answer(outcome)
<1>1. CASE Passes(draft)
  BY <1>1, Zenon DEF Passes
<1>2. CASE Defers(draft)
  BY <1>2, Zenon DEF Defers
<1>3. CASE Substitutes(draft)
  BY <1>3, Zenon DEF Substitutes
<1>4. CASE TrimsAtSentence(draft)
  BY <1>4, Zenon DEF TrimsAtSentence
<1> QED
  BY <1>1, <1>2, <1>3, <1>4 DEF Answering

(* Every step keeps the counters in their ranges. *)
LEMMA CounterStep ==
  ASSUME CounterType, Turn, [Next]_vars
  PROVE  CounterType'
<1> USE ConstantsAssumption DEF CounterType, Turn, Batches, ForgetTurn, dbVars, loopVars,
     turnVars, restVars
<1>1. ASSUME NEW s \in Situations, RunClaudeTurn(s) PROVE CounterType'
  BY <1>1 DEF RunClaudeTurn, TurnIsDue
<1>2. ASSUME NEW s \in Situations, KillSwitch(s) PROVE CounterType'
  BY <1>2 DEF KillSwitch, TurnIsDue
<1>3. ASSUME NEW line \in FixedLines, SkipModel(line) PROVE CounterType'
  BY <1>3 DEF SkipModel, TurnIsDue, FixedLines
<1>4. CASE SettleSilently
  BY <1>4 DEF SettleSilently, TurnIsDue
<1>5. ASSUME NEW answer \in {"ok", "failed"}, CreateStaffTask(answer)
      PROVE  CounterType'
  BY <1>5 DEF CreateStaffTask, Ran, Happens
<1>6. ASSUME NEW answer \in {"reached", "queued", "failed"}, EscalateToHuman(answer)
      PROVE  CounterType'
  BY <1>6 DEF EscalateToHuman, Ran, Happens
<1>7. CASE RememberFact
  BY <1>7 DEF RememberFact, Ran, Happens
<1>8. CASE GetQuote
  BY <1>8 DEF GetQuote, Ran
<1>9. ASSUME NEW ref \in References, NEW typed \in BOOLEAN, NEW proven \in BOOLEAN,
         NEW plain \in BOOLEAN,
         GetBooking(ref, typed, proven, plain)
      PROVE  CounterType'
  BY <1>9 DEF GetBooking
<1>10. ASSUME NEW draft \in Drafts, Answering(draft) PROVE CounterType'
  <2>1. pc = "loop"
    BY <1>10, GuardrailsAnswer
  <2>2. PICK outcome : Answer(outcome)
    BY <1>10, GuardrailsAnswer
  <2> QED
    BY <2>1, <2>2 DEF Answer
<1>11. ASSUME NEW draft \in Drafts, Regenerate(draft) PROVE CounterType'
  BY <1>11 DEF Regenerate
<1>12. ASSUME NEW open \in BOOLEAN, NEW unlocked \in BOOLEAN, ClaimTurn(open, unlocked)
      PROVE  CounterType'
  BY <1>12 DEF ClaimTurn
<1>13. ASSUME NEW delivered \in BOOLEAN, EscalateToOps(delivered) PROVE CounterType'
  BY <1>13 DEF EscalateToOps
<1>14. CASE RecordReferenceAttempt
  BY <1>14 DEF RecordReferenceAttempt
<1>15. ASSUME NEW landed \in BOOLEAN, Deliver(landed) PROVE CounterType'
  BY <1>15 DEF Deliver
<1>16. CASE SaveFactRow
  BY <1>16 DEF SaveFactRow, Happens
<1>17. ASSUME NEW u \in Batches, NEW verdict \in {"approved", "rejected"},
         ClaimDraftDecision(u, verdict)
      PROVE  CounterType'
  BY <1>17 DEF ClaimDraftDecision, Undecided
<1>18. ASSUME NEW u \in Batches, CheckHold(u) PROVE CounterType'
  BY <1>18 DEF CheckHold
<1>19. ASSUME NEW u \in Batches, NEW landed \in BOOLEAN, SendApproved(u, landed)
      PROVE  CounterType'
  BY <1>19 DEF SendApproved
<1>20. ASSUME NEW stale \in SUBSET Batches, ExpireStaleDrafts(stale) PROVE CounterType'
  BY <1>20 DEF ExpireStaleDrafts
<1>21. CASE GuestWrites
  BY <1>21 DEF GuestWrites
<1>22. ASSUME NEW k \in Telling, StaffTells(k) PROVE CounterType'
  BY <1>22 DEF StaffTells, Happens
<1>23. CASE TakeOver
  BY <1>23 DEF TakeOver
<1>24. CASE HandBack
  BY <1>24 DEF HandBack
<1>25. CASE ModelThrows
  BY <1>25 DEF ModelThrows
<1>26. CASE Crash
  BY <1>26 DEF Crash
<1>27. CASE UNCHANGED vars
  BY <1>27 DEF vars
<1> QED
  BY <1>1, <1>2, <1>3, <1>4, <1>5, <1>6, <1>7, <1>8, <1>9, <1>10, <1>11, <1>12, <1>13,
     <1>14, <1>15, <1>16, <1>17, <1>18, <1>19, <1>20, <1>21, <1>22, <1>23, <1>24, <1>25,
     <1>26, <1>27
     DEF Next, BeginStep, ToolStep, GuardrailStep, Answering, ClaimedStep, DraftStep, WorldStep,
         FaultStep

(* Every step keeps the types of the sets. *)
LEMMA SetStep ==
  ASSUME CounterType, SetType, [Next]_vars
  PROVE  SetType'
<1> USE ConstantsAssumption, PagesType DEF SetType, ForgetTurn, dbVars, loopVars, turnVars, restVars
<1>1. ASSUME NEW s \in Situations, RunClaudeTurn(s) PROVE SetType'
  BY <1>1, EvidenceType DEF RunClaudeTurn, TurnIsDue, CounterType, Batches
<1>2. ASSUME NEW s \in Situations, KillSwitch(s) PROVE SetType'
  BY <1>2, EvidenceType DEF KillSwitch, TurnIsDue, CounterType, Hold, Claims
<1>3. ASSUME NEW line \in FixedLines, SkipModel(line) PROVE SetType'
  BY <1>3, EvidenceType DEF SkipModel, TurnIsDue, FixedLines, CounterType, Claims
<1>4. CASE SettleSilently
  BY <1>4 DEF SettleSilently, TurnIsDue
<1>5. ASSUME NEW answer \in {"ok", "failed"}, CreateStaffTask(answer)
      PROVE  SetType'
  BY <1>5, EvidenceType DEF CreateStaffTask, Ran, Happens, CounterType, EventKinds, Runs, Tools
<1>6. ASSUME NEW answer \in {"reached", "queued", "failed"}, EscalateToHuman(answer)
      PROVE  SetType'
  BY <1>6, EvidenceType DEF EscalateToHuman, Ran, Happens, CounterType, EventKinds, Runs, Tools
<1>7. CASE RememberFact
  BY <1>7, EvidenceType DEF RememberFact, Ran, Happens, CounterType, EventKinds, Runs, Tools
<1>8. CASE GetQuote
  BY <1>8, EvidenceType DEF GetQuote, Ran, CounterType, Runs, Tools
<1>9. ASSUME NEW ref \in References, NEW typed \in BOOLEAN, NEW proven \in BOOLEAN,
         NEW plain \in BOOLEAN,
         GetBooking(ref, typed, proven, plain)
      PROVE  SetType'
  BY <1>9 DEF GetBooking
<1>10. ASSUME NEW draft \in Drafts, Answering(draft) PROVE SetType'
  <2>1. pc = "loop"
    BY <1>10, GuardrailsAnswer
  <2>2. PICK outcome : Answer(outcome)
    BY <1>10, GuardrailsAnswer
  <2> QED
    BY <2>1, <2>2 DEF Answer
<1>11. ASSUME NEW draft \in Drafts, Regenerate(draft) PROVE SetType'
  BY <1>11 DEF Regenerate
<1>12. ASSUME NEW open \in BOOLEAN, NEW unlocked \in BOOLEAN, ClaimTurn(open, unlocked)
      PROVE  SetType'
  BY <1>12 DEF ClaimTurn
<1>13. ASSUME NEW delivered \in BOOLEAN, EscalateToOps(delivered) PROVE SetType'
  BY <1>13, EvidenceType DEF EscalateToOps, CounterType, RowKinds, EventKinds
<1>14. CASE RecordReferenceAttempt
  BY <1>14 DEF RecordReferenceAttempt
<1>15. ASSUME NEW landed \in BOOLEAN, Deliver(landed) PROVE SetType'
  BY <1>15 DEF Deliver
<1>16. CASE SaveFactRow
  BY <1>16, EvidenceType DEF SaveFactRow, Happens, CounterType, RowKinds, EventKinds
<1>17. ASSUME NEW u \in Batches, NEW verdict \in {"approved", "rejected"},
         ClaimDraftDecision(u, verdict)
      PROVE  SetType'
  <2>1. <<u, "check">> \in Batches \X {"check", "send"}
    OBVIOUS
  <2> QED
    BY <1>17, <2>1 DEF ClaimDraftDecision, Undecided
<1>18. ASSUME NEW u \in Batches, CheckHold(u) PROVE SetType'
  BY <1>18, EvidenceType DEF CheckHold, CounterType, Batches
<1>19. ASSUME NEW u \in Batches, NEW landed \in BOOLEAN, SendApproved(u, landed)
      PROVE  SetType'
  BY <1>19, EvidenceType DEF SendApproved, CounterType, Batches
<1>20. ASSUME NEW stale \in SUBSET Batches, ExpireStaleDrafts(stale) PROVE SetType'
  BY <1>20 DEF ExpireStaleDrafts
<1>21. CASE GuestWrites
  BY <1>21 DEF GuestWrites
<1>22. ASSUME NEW k \in Telling, StaffTells(k) PROVE SetType'
  <2>1. k \in {"task_done", "sla_nudge"}
    BY <1>22
  <2>2. <<k, msgs>> \in RowKinds \X (0 .. MaxMsgs)
    BY <2>1 DEF RowKinds, CounterType
  <2>3. <<"done", msgs>> \in EventKinds \X (0 .. MaxMsgs) /\ <<"nudge", msgs>> \in EventKinds \X (0 .. MaxMsgs)
    BY DEF EventKinds, CounterType
  <2> QED
    BY <1>22, <2>2, <2>3 DEF StaffTells, Happens
<1>23. CASE TakeOver
  BY <1>23 DEF TakeOver
<1>24. CASE HandBack
  BY <1>24 DEF HandBack
<1>25. CASE ModelThrows
  BY <1>25 DEF ModelThrows
<1>26. CASE Crash
  BY <1>26 DEF Crash
<1>27. CASE UNCHANGED vars
  BY <1>27 DEF vars
<1> QED
  BY <1>1, <1>2, <1>3, <1>4, <1>5, <1>6, <1>7, <1>8, <1>9, <1>10, <1>11, <1>12, <1>13,
     <1>14, <1>15, <1>16, <1>17, <1>18, <1>19, <1>20, <1>21, <1>22, <1>23, <1>24, <1>25,
     <1>26, <1>27
     DEF Next, BeginStep, ToolStep, GuardrailStep, Answering, ClaimedStep, DraftStep, WorldStep,
         FaultStep

(* Every step keeps the types of the records. *)
LEMMA RecordStep ==
  ASSUME RecordType, [Next]_vars
  PROVE  RecordType'
<1> USE ConstantsAssumption DEF RecordType, Nobody, NoClaim, NothingCarried, ForgetTurn, dbVars,
     loopVars, turnVars, restVars
<1>1. ASSUME NEW s \in Situations, RunClaudeTurn(s) PROVE RecordType'
  BY <1>1 DEF RunClaudeTurn, TurnIsDue
<1>2. ASSUME NEW s \in Situations, KillSwitch(s) PROVE RecordType'
  BY <1>2 DEF KillSwitch, TurnIsDue
<1>3. ASSUME NEW line \in FixedLines, SkipModel(line) PROVE RecordType'
  BY <1>3 DEF SkipModel, TurnIsDue, FixedLines
<1>4. CASE SettleSilently
  BY <1>4 DEF SettleSilently, TurnIsDue
<1>5. ASSUME NEW answer \in {"ok", "failed"}, CreateStaffTask(answer)
      PROVE  RecordType'
  BY <1>5 DEF CreateStaffTask, Ran, Happens
<1>6. ASSUME NEW answer \in {"reached", "queued", "failed"}, EscalateToHuman(answer)
      PROVE  RecordType'
  BY <1>6 DEF EscalateToHuman, Ran, Happens
<1>7. CASE RememberFact
  BY <1>7 DEF RememberFact, Ran, Happens
<1>8. CASE GetQuote
  BY <1>8 DEF GetQuote, Ran
<1>9. ASSUME NEW ref \in References, NEW typed \in BOOLEAN, NEW proven \in BOOLEAN,
         NEW plain \in BOOLEAN,
         GetBooking(ref, typed, proven, plain)
      PROVE  RecordType'
  <2>1. Verdict(ref, typed, proven, plain) \in
          [refused : BOOLEAN, attempted : References \cup {None}, strike : BOOLEAN,
           esc : {"none", "booking_reference", "booking_undescribable"}]
    BY DEF Verdict
  <2> QED
    BY <1>9, <2>1 DEF GetBooking
<1>10. ASSUME NEW draft \in Drafts, Answering(draft) PROVE RecordType'
  <2>1. pc = "loop"
    BY <1>10, GuardrailsAnswer
  <2>2. PICK outcome : Answer(outcome)
    BY <1>10, GuardrailsAnswer
  <2> QED
    BY <2>1, <2>2 DEF Answer
<1>11. ASSUME NEW draft \in Drafts, Regenerate(draft) PROVE RecordType'
  BY <1>11 DEF Regenerate, Must, Vetoes, VetoedBy, VetoOnFailure, Claims
<1>12. ASSUME NEW open \in BOOLEAN, NEW unlocked \in BOOLEAN, ClaimTurn(open, unlocked)
      PROVE  RecordType'
  BY <1>12 DEF ClaimTurn
<1>13. ASSUME NEW delivered \in BOOLEAN, EscalateToOps(delivered) PROVE RecordType'
  BY <1>13 DEF EscalateToOps
<1>14. CASE RecordReferenceAttempt
  BY <1>14 DEF RecordReferenceAttempt
<1>15. ASSUME NEW landed \in BOOLEAN, Deliver(landed) PROVE RecordType'
  BY <1>15 DEF Deliver
<1>16. CASE SaveFactRow
  BY <1>16 DEF SaveFactRow, Happens
<1>17. ASSUME NEW u \in Batches, NEW verdict \in {"approved", "rejected"},
         ClaimDraftDecision(u, verdict)
      PROVE  RecordType'
  BY <1>17 DEF ClaimDraftDecision, Undecided
<1>18. ASSUME NEW u \in Batches, CheckHold(u) PROVE RecordType'
  BY <1>18 DEF CheckHold
<1>19. ASSUME NEW u \in Batches, NEW landed \in BOOLEAN, SendApproved(u, landed)
      PROVE  RecordType'
  BY <1>19 DEF SendApproved
<1>20. ASSUME NEW stale \in SUBSET Batches, ExpireStaleDrafts(stale) PROVE RecordType'
  BY <1>20 DEF ExpireStaleDrafts
<1>21. CASE GuestWrites
  BY <1>21 DEF GuestWrites
<1>22. ASSUME NEW k \in Telling, StaffTells(k) PROVE RecordType'
  BY <1>22 DEF StaffTells, Happens
<1>23. CASE TakeOver
  BY <1>23 DEF TakeOver
<1>24. CASE HandBack
  BY <1>24 DEF HandBack
<1>25. CASE ModelThrows
  BY <1>25 DEF ModelThrows
<1>26. CASE Crash
  BY <1>26 DEF Crash
<1>27. CASE UNCHANGED vars
  BY <1>27 DEF vars
<1> QED
  BY <1>1, <1>2, <1>3, <1>4, <1>5, <1>6, <1>7, <1>8, <1>9, <1>10, <1>11, <1>12, <1>13,
     <1>14, <1>15, <1>16, <1>17, <1>18, <1>19, <1>20, <1>21, <1>22, <1>23, <1>24, <1>25,
     <1>26, <1>27
     DEF Next, BeginStep, ToolStep, GuardrailStep, Answering, ClaimedStep, DraftStep, WorldStep,
         FaultStep

(* Every step keeps the type of the replies. *)
LEMMA ReplyStep ==
  ASSUME CounterType, Turn, ReplyType, [Next]_vars
  PROVE  ReplyType'
<1> USE ConstantsAssumption DEF ReplyType, ForgetTurn, dbVars, loopVars, turnVars, restVars
<1>1. ASSUME NEW s \in Situations, RunClaudeTurn(s) PROVE ReplyType'
  BY <1>1 DEF RunClaudeTurn, TurnIsDue
<1>2. ASSUME NEW s \in Situations, KillSwitch(s) PROVE ReplyType'
  BY <1>2 DEF KillSwitch, TurnIsDue
<1>3. ASSUME NEW line \in FixedLines, SkipModel(line) PROVE ReplyType'
  BY <1>3 DEF SkipModel, TurnIsDue, FixedLines
<1>4. CASE SettleSilently
  BY <1>4 DEF SettleSilently, TurnIsDue
<1>5. ASSUME NEW answer \in {"ok", "failed"}, CreateStaffTask(answer)
      PROVE  ReplyType'
  BY <1>5 DEF CreateStaffTask, Ran, Happens
<1>6. ASSUME NEW answer \in {"reached", "queued", "failed"}, EscalateToHuman(answer)
      PROVE  ReplyType'
  BY <1>6 DEF EscalateToHuman, Ran, Happens
<1>7. CASE RememberFact
  BY <1>7 DEF RememberFact, Ran, Happens
<1>8. CASE GetQuote
  BY <1>8 DEF GetQuote, Ran
<1>9. ASSUME NEW ref \in References, NEW typed \in BOOLEAN, NEW proven \in BOOLEAN,
         NEW plain \in BOOLEAN,
         GetBooking(ref, typed, proven, plain)
      PROVE  ReplyType'
  BY <1>9 DEF GetBooking
<1>10. ASSUME NEW draft \in Drafts, Answering(draft) PROVE ReplyType'
  <2>1. pc = "loop"
    BY <1>10, GuardrailsAnswer
  <2>2. PICK outcome : Answer(outcome)
    BY <1>10, GuardrailsAnswer
  <2> QED
    BY <2>1, <2>2 DEF Answer
<1>11. ASSUME NEW draft \in Drafts, Regenerate(draft) PROVE ReplyType'
  BY <1>11 DEF Regenerate
<1>12. ASSUME NEW open \in BOOLEAN, NEW unlocked \in BOOLEAN, ClaimTurn(open, unlocked)
      PROVE  ReplyType'
  BY <1>12 DEF ClaimTurn
<1>13. ASSUME NEW delivered \in BOOLEAN, EscalateToOps(delivered) PROVE ReplyType'
  BY <1>13 DEF EscalateToOps
<1>14. CASE RecordReferenceAttempt
  BY <1>14 DEF RecordReferenceAttempt
<1>15. ASSUME NEW landed \in BOOLEAN, Deliver(landed) PROVE ReplyType'
  <2>1. upto \in Batches
    BY <1>15 DEF Deliver, CounterType, Turn, Batches
  <2>2. CASE reply[upto].status = "queued" /\ landed
    BY <1>15, <2>1, <2>2 DEF Deliver
  <2>3. CASE reply[upto].status = "pending" /\ landed
    BY <1>15, <2>1, <2>3 DEF Deliver
  <2>4. CASE ~landed \/ reply[upto].status \notin {"queued", "pending"}
    BY <1>15, <2>1, <2>4 DEF Deliver
  <2> QED
    BY <2>2, <2>3, <2>4
<1>16. CASE SaveFactRow
  BY <1>16 DEF SaveFactRow, Happens
<1>17. ASSUME NEW u \in Batches, NEW verdict \in {"approved", "rejected"},
         ClaimDraftDecision(u, verdict)
      PROVE  ReplyType'
  BY <1>17 DEF ClaimDraftDecision, Undecided
<1>18. ASSUME NEW u \in Batches, CheckHold(u) PROVE ReplyType'
  BY <1>18 DEF CheckHold
<1>19. ASSUME NEW u \in Batches, NEW landed \in BOOLEAN, SendApproved(u, landed)
      PROVE  ReplyType'
  BY <1>19 DEF SendApproved
<1>20. ASSUME NEW stale \in SUBSET Batches, ExpireStaleDrafts(stale) PROVE ReplyType'
  BY <1>20 DEF ExpireStaleDrafts
<1>21. CASE GuestWrites
  BY <1>21 DEF GuestWrites
<1>22. ASSUME NEW k \in Telling, StaffTells(k) PROVE ReplyType'
  BY <1>22 DEF StaffTells, Happens
<1>23. CASE TakeOver
  BY <1>23 DEF TakeOver
<1>24. CASE HandBack
  BY <1>24 DEF HandBack
<1>25. CASE ModelThrows
  BY <1>25 DEF ModelThrows
<1>26. CASE Crash
  BY <1>26 DEF Crash
<1>27. CASE UNCHANGED vars
  BY <1>27 DEF vars
<1> QED
  BY <1>1, <1>2, <1>3, <1>4, <1>5, <1>6, <1>7, <1>8, <1>9, <1>10, <1>11, <1>12, <1>13,
     <1>14, <1>15, <1>16, <1>17, <1>18, <1>19, <1>20, <1>21, <1>22, <1>23, <1>24, <1>25,
     <1>26, <1>27
     DEF Next, BeginStep, ToolStep, GuardrailStep, Answering, ClaimedStep, DraftStep, WorldStep,
         FaultStep

(* Every step keeps the place of the turn. *)
LEMMA TurnStep ==
  ASSUME CounterType, Turn, [Next]_vars
  PROVE  Turn'
<1> USE ConstantsAssumption DEF CounterType, Turn, Answer, ForgetTurn, Nobody, NoClaim,
     NothingCarried, dbVars, loopVars, turnVars, restVars
<1>1. ASSUME NEW s \in Situations, RunClaudeTurn(s) PROVE Turn'
  BY <1>1 DEF RunClaudeTurn, TurnIsDue
<1>2. ASSUME NEW s \in Situations, KillSwitch(s) PROVE Turn'
  BY <1>2 DEF KillSwitch, TurnIsDue
<1>3. ASSUME NEW line \in FixedLines, SkipModel(line) PROVE Turn'
  BY <1>3 DEF SkipModel, TurnIsDue, FixedLines
<1>4. CASE SettleSilently
  BY <1>4 DEF SettleSilently, TurnIsDue
<1>5. ASSUME NEW answer \in {"ok", "failed"}, CreateStaffTask(answer)
      PROVE  Turn'
  BY <1>5 DEF CreateStaffTask, Ran, Happens
<1>6. ASSUME NEW answer \in {"reached", "queued", "failed"}, EscalateToHuman(answer)
      PROVE  Turn'
  BY <1>6 DEF EscalateToHuman, Ran, Happens
<1>7. CASE RememberFact
  BY <1>7 DEF RememberFact, Ran, Happens
<1>8. CASE GetQuote
  BY <1>8 DEF GetQuote, Ran
<1>9. ASSUME NEW ref \in References, NEW typed \in BOOLEAN, NEW proven \in BOOLEAN,
         NEW plain \in BOOLEAN,
         GetBooking(ref, typed, proven, plain)
      PROVE  Turn'
  BY <1>9 DEF GetBooking
<1>10. ASSUME NEW draft \in Drafts, Answering(draft) PROVE Turn'
  <2>1. pc = "loop"
    BY <1>10, GuardrailsAnswer
  <2>2. PICK outcome : Answer(outcome)
    BY <1>10, GuardrailsAnswer
  <2> QED
    BY <2>1, <2>2 DEF Answer
<1>11. ASSUME NEW draft \in Drafts, Regenerate(draft) PROVE Turn'
  BY <1>11 DEF Regenerate
<1>12. ASSUME NEW open \in BOOLEAN, NEW unlocked \in BOOLEAN, ClaimTurn(open, unlocked)
      PROVE  Turn'
  BY <1>12 DEF ClaimTurn
<1>13. ASSUME NEW delivered \in BOOLEAN, EscalateToOps(delivered) PROVE Turn'
  BY <1>13 DEF EscalateToOps
<1>14. CASE RecordReferenceAttempt
  BY <1>14 DEF RecordReferenceAttempt
<1>15. ASSUME NEW landed \in BOOLEAN, Deliver(landed) PROVE Turn'
  <2>1. ForgetTurn /\ pc' = "fact" /\ UNCHANGED <<cursor, msgs>>
    BY <1>15 DEF Deliver
  <2> QED
    BY <2>1
<1>16. CASE SaveFactRow
  BY <1>16 DEF SaveFactRow, Happens
<1>17. ASSUME NEW u \in Batches, NEW verdict \in {"approved", "rejected"},
         ClaimDraftDecision(u, verdict)
      PROVE  Turn'
  BY <1>17 DEF ClaimDraftDecision, Undecided
<1>18. ASSUME NEW u \in Batches, CheckHold(u) PROVE Turn'
  BY <1>18 DEF CheckHold
<1>19. ASSUME NEW u \in Batches, NEW landed \in BOOLEAN, SendApproved(u, landed)
      PROVE  Turn'
  BY <1>19 DEF SendApproved
<1>20. ASSUME NEW stale \in SUBSET Batches, ExpireStaleDrafts(stale) PROVE Turn'
  BY <1>20 DEF ExpireStaleDrafts
<1>21. CASE GuestWrites
  BY <1>21 DEF GuestWrites
<1>22. ASSUME NEW k \in Telling, StaffTells(k) PROVE Turn'
  BY <1>22 DEF StaffTells, Happens
<1>23. CASE TakeOver
  BY <1>23 DEF TakeOver
<1>24. CASE HandBack
  BY <1>24 DEF HandBack
<1>25. CASE ModelThrows
  BY <1>25 DEF ModelThrows
<1>26. CASE Crash
  BY <1>26 DEF Crash
<1>27. CASE UNCHANGED vars
  BY <1>27 DEF vars
<1> QED
  BY <1>1, <1>2, <1>3, <1>4, <1>5, <1>6, <1>7, <1>8, <1>9, <1>10, <1>11, <1>12, <1>13,
     <1>14, <1>15, <1>16, <1>17, <1>18, <1>19, <1>20, <1>21, <1>22, <1>23, <1>24, <1>25,
     <1>26, <1>27
     DEF Next, BeginStep, ToolStep, GuardrailStep, Answering, ClaimedStep, DraftStep, WorldStep,
         FaultStep

(* A step that leaves the replies, the approvals and the cursor alone.      *)
LEMMA RepliedKept ==
  ASSUME Replied, UNCHANGED <<reply, approvals, cursor>>,
         pc' \in {"page", "deliver"} => pc \in {"page", "deliver"} /\ upto' = upto
  PROVE  Replied'
BY DEF Replied, RepliedOf, InHand, Unseen

(* No step sends a batch twice or what is not approved. *)
LEMMA RepliedStep ==
  ASSUME CounterType, ReplyType, Turn, Replied, [Next]_vars
  PROVE  Replied'
<1>1. ASSUME NEW s \in Situations, RunClaudeTurn(s) PROVE Replied'
  BY <1>1, RepliedKept DEF RunClaudeTurn, TurnIsDue, dbVars, loopVars, turnVars, restVars
<1>2. ASSUME NEW s \in Situations, KillSwitch(s) PROVE Replied'
  BY <1>2, RepliedKept DEF KillSwitch, TurnIsDue, dbVars, loopVars, turnVars, restVars
<1>3. ASSUME NEW line \in FixedLines, SkipModel(line) PROVE Replied'
  BY <1>3, RepliedKept DEF SkipModel, TurnIsDue, FixedLines, dbVars, loopVars, turnVars, restVars
<1>4. CASE SettleSilently
  <2>1. UNCHANGED <<reply, approvals, pc>> /\ pc = "idle" /\ cursor' > cursor
    BY <1>4 DEF SettleSilently, TurnIsDue, turnVars, CounterType
  <2>2. cursor \in Nat /\ cursor' \in Nat
    BY <1>4, ConstantsAssumption DEF SettleSilently, CounterType
  <2> QED
    BY <2>1, <2>2 DEF Replied, RepliedOf, InHand, Unseen, Batches
<1>5. ASSUME NEW answer \in {"ok", "failed"}, CreateStaffTask(answer)
      PROVE  Replied'
  BY <1>5, RepliedKept DEF CreateStaffTask, Ran, Happens, dbVars, loopVars, turnVars, restVars
<1>6. ASSUME NEW answer \in {"reached", "queued", "failed"}, EscalateToHuman(answer)
      PROVE  Replied'
  BY <1>6, RepliedKept DEF EscalateToHuman, Ran, Happens, dbVars, loopVars, turnVars, restVars
<1>7. CASE RememberFact
  BY <1>7, RepliedKept DEF RememberFact, Ran, Happens, dbVars, loopVars, turnVars, restVars
<1>8. CASE GetQuote
  BY <1>8, RepliedKept DEF GetQuote, Ran, dbVars, loopVars, turnVars, restVars
<1>9. ASSUME NEW ref \in References, NEW typed \in BOOLEAN, NEW proven \in BOOLEAN,
         NEW plain \in BOOLEAN,
         GetBooking(ref, typed, proven, plain)
      PROVE  Replied'
  BY <1>9, RepliedKept DEF GetBooking, dbVars, loopVars, turnVars, restVars
<1>10. ASSUME NEW draft \in Drafts, Answering(draft) PROVE Replied'
  <2>1. pc = "loop"
    BY <1>10, GuardrailsAnswer
  <2>2. PICK outcome : Answer(outcome)
    BY <1>10, GuardrailsAnswer
  <2> QED
    BY <2>1, <2>2, RepliedKept DEF Answer, dbVars, restVars
<1>11. ASSUME NEW draft \in Drafts, Regenerate(draft) PROVE Replied'
  BY <1>11, RepliedKept DEF Regenerate, dbVars, loopVars, turnVars, restVars
<1>12. ASSUME NEW open \in BOOLEAN, NEW unlocked \in BOOLEAN, ClaimTurn(open, unlocked)
      PROVE  Replied'
  <2>1. upto \in Batches /\ upto > cursor
    BY <1>12 DEF ClaimTurn, CounterType, Turn, Batches
  <2>2. reply[upto] = NoReply /\ ~InHand(upto)
    <3>1. RepliedOf(upto)
      BY <2>1 DEF Replied
    <3> QED
      BY <2>1, <3>1 DEF RepliedOf, NoReply
  <2>3. /\ \A v \in Batches \ {upto} : reply'[v] = reply[v]
        /\ reply'[upto].times = 0 /\ ~reply'[upto].known
    BY <1>12, <2>1, <2>2 DEF ClaimTurn, ReplyType, NoReply
  <2>4. UNCHANGED <<approvals, upto>> /\ cursor' = upto
    BY <1>12 DEF ClaimTurn, loopVars, restVars
  <2>5. ASSUME NEW v \in Batches PROVE RepliedOf(v)'
    <3>1. CASE v = upto
      BY <2>2, <2>3, <2>4, <3>1 DEF RepliedOf, InHand, CounterType
    <3>2. CASE v # upto
      <4>1. v > upto => v > cursor
        BY <2>1 DEF Batches, CounterType
      <4> QED
        BY <2>3, <2>4, <3>2, <4>1 DEF Replied, RepliedOf, InHand
    <3> QED
      BY <3>1, <3>2
  <2> QED
    BY <2>3, <2>4, <2>5 DEF Replied, Unseen
<1>13. ASSUME NEW delivered \in BOOLEAN, EscalateToOps(delivered) PROVE Replied'
  BY <1>13, RepliedKept DEF EscalateToOps, dbVars, loopVars, turnVars, restVars
<1>14. CASE RecordReferenceAttempt
  BY <1>14, RepliedKept DEF RecordReferenceAttempt, dbVars, loopVars, turnVars, restVars
<1>15. ASSUME NEW landed \in BOOLEAN, Deliver(landed) PROVE Replied'
  <2>1. upto \in Batches /\ upto = cursor /\ reply[upto].times = 0 /\ ~reply[upto].known
    BY <1>15 DEF Deliver, CounterType, Turn, Batches, Replied, Unseen
  <2>2. ~InHand(upto)
    BY <2>1 DEF Replied, RepliedOf
  <2>3. \A v \in Batches \ {upto} : reply'[v] = reply[v]
    BY <1>15 DEF Deliver, ReplyType
  <2>4. /\ reply'[upto].status = reply[upto].status
        /\ reply'[upto].times \in {0, 1}
        /\ reply'[upto].times = 1 => reply[upto].status = "queued"
    <3>1. CASE reply[upto].status = "queued" /\ landed
      BY <1>15, <2>1, <3>1 DEF Deliver, ReplyType
    <3>2. CASE reply[upto].status = "pending" /\ landed
      BY <1>15, <2>1, <3>2 DEF Deliver, ReplyType
    <3>3. CASE ~landed \/ reply[upto].status \notin {"queued", "pending"}
      BY <1>15, <2>1, <3>3 DEF Deliver, ReplyType
    <3> QED
      BY <3>1, <3>2, <3>3
  <2>5. pc' = "fact" /\ UNCHANGED <<cursor, approvals>>
    BY <1>15 DEF Deliver
  <2>6. ASSUME NEW v \in Batches PROVE RepliedOf(v)'
    <3>1. CASE v = upto
      BY <2>1, <2>2, <2>4, <2>5, <3>1 DEF RepliedOf, InHand, CounterType
    <3>2. CASE v # upto
      BY <2>3, <2>5, <3>2 DEF Replied, RepliedOf, InHand
    <3> QED
      BY <3>1, <3>2
  <2> QED
    BY <2>5, <2>6 DEF Replied, Unseen
<1>16. CASE SaveFactRow
  BY <1>16, RepliedKept DEF SaveFactRow, Happens, ForgetTurn, dbVars, loopVars, turnVars, restVars
<1>17. ASSUME NEW u \in Batches, NEW verdict \in {"approved", "rejected"},
         ClaimDraftDecision(u, verdict)
      PROVE  Replied'
  <2>1. reply[u].status = "pending" /\ reply[u].known /\ reply[u].times = 0 /\ ~InHand(u) /\ ~(u > cursor)
    <3>1. reply[u].status = "pending" /\ reply[u].known /\ RepliedOf(u) /\ reply[u].times \in Nat
      BY <1>17 DEF ClaimDraftDecision, Undecided, Replied, ReplyType
    <3> QED
      BY <3>1 DEF RepliedOf, NoReply
  <2>2. \A v \in Batches \ {u} : reply'[v] = reply[v]
    BY <1>17 DEF ClaimDraftDecision, ReplyType
  <2>3. reply'[u].status = verdict /\ reply'[u].known /\ reply'[u].times = 0
    BY <1>17, <2>1 DEF ClaimDraftDecision, ReplyType
  <2>4. /\ \A v \in Batches \ {u} : InHand(v)' <=> InHand(v)
        /\ \A v \in Batches \ {u} : (<<v, "check">> \in approvals' /\ <<v, "send">> \in approvals')
                                     => (<<v, "check">> \in approvals /\ <<v, "send">> \in approvals)
        /\ <<u, "send">> \notin approvals'
        /\ InHand(u)' => verdict = "approved"
    BY <1>17, <2>1 DEF ClaimDraftDecision, InHand
  <2>5. UNCHANGED <<cursor, pc, upto>>
    BY <1>17 DEF ClaimDraftDecision, Undecided, turnVars, loopVars
  <2>6. ASSUME NEW v \in Batches PROVE RepliedOf(v)'
    <3>1. CASE v = u
      BY <2>1, <2>3, <2>4, <2>5, <3>1 DEF RepliedOf, InHand
    <3>2. CASE v # u
      BY <2>2, <2>4, <2>5, <3>2 DEF Replied, RepliedOf
    <3> QED
      BY <3>1, <3>2
  <2>7. pc \in {"page", "deliver"} => upto \in Batches /\ u # upto
    BY <2>1 DEF Replied, Unseen, Turn, CounterType, Batches
  <2>8. Unseen'
    BY <2>2, <2>5, <2>7 DEF Replied, Unseen
  <2> QED
    BY <2>6, <2>8 DEF Replied
<1>18. ASSUME NEW u \in Batches, CheckHold(u) PROVE Replied'
  <2>1. UNCHANGED <<reply, cursor, pc, upto>>
    BY <1>18 DEF CheckHold, dbVars, turnVars, loopVars
  <2>2. ASSUME NEW v \in Batches PROVE RepliedOf(v)'
    <3>1. /\ InHand(v)' => InHand(v)
          /\ (<<v, "check">> \in approvals' /\ <<v, "send">> \in approvals')
               => (<<v, "check">> \in approvals /\ <<v, "send">> \in approvals)
      BY <1>18 DEF CheckHold, InHand
    <3> QED
      BY <2>1, <3>1 DEF Replied, RepliedOf
  <2> QED
    BY <2>1, <2>2 DEF Replied, Unseen
<1>19. ASSUME NEW u \in Batches, NEW landed \in BOOLEAN, SendApproved(u, landed)
      PROVE  Replied'
  <2>1. reply[u].status = "approved" /\ reply[u].known /\ reply[u].times = 0 /\ ~(u > cursor)
    <3>1. InHand(u) /\ RepliedOf(u)
      BY <1>19 DEF SendApproved, InHand, Replied
    <3> QED
      BY <3>1 DEF RepliedOf, NoReply
  <2>2. \A v \in Batches \ {u} : reply'[v] = reply[v]
    BY <1>19 DEF SendApproved, ReplyType
  <2>3. reply'[u].status = "approved" /\ reply'[u].times \in {0, 1}
    BY <1>19, <2>1 DEF SendApproved, ReplyType
  <2>4. /\ \A v \in Batches \ {u} : InHand(v)' <=> InHand(v)
        /\ \A v \in Batches \ {u} : (<<v, "check">> \in approvals' /\ <<v, "send">> \in approvals')
                                     => (<<v, "check">> \in approvals /\ <<v, "send">> \in approvals)
        /\ ~InHand(u)'
    <3>1. <<u, "check">> \notin approvals
      BY <1>19 DEF SendApproved, Replied, RepliedOf
    <3> QED
      BY <1>19, <3>1 DEF SendApproved, InHand
  <2>5. UNCHANGED <<cursor, pc, upto>>
    BY <1>19 DEF SendApproved, turnVars, loopVars
  <2>6. ASSUME NEW v \in Batches PROVE RepliedOf(v)'
    <3>1. CASE v = u
      BY <2>1, <2>3, <2>4, <2>5, <3>1 DEF RepliedOf, InHand
    <3>2. CASE v # u
      BY <2>2, <2>4, <2>5, <3>2 DEF Replied, RepliedOf
    <3> QED
      BY <3>1, <3>2
  <2>7. pc \in {"page", "deliver"} => upto \in Batches /\ u # upto
    BY <2>1 DEF Replied, Unseen, Turn, CounterType, Batches
  <2>8. Unseen'
    BY <2>2, <2>5, <2>7 DEF Replied, Unseen
  <2> QED
    BY <2>6, <2>8 DEF Replied
<1>20. ASSUME NEW stale \in SUBSET Batches, ExpireStaleDrafts(stale) PROVE Replied'
  <2>1. \A u \in stale : reply[u].status = "pending"
    BY <1>20 DEF ExpireStaleDrafts
  <2>2. \A u \in Batches : u \notin stale => reply'[u] = reply[u]
    BY <1>20 DEF ExpireStaleDrafts
  <2>3. \A u \in stale : /\ reply'[u].status = "expired"
                         /\ reply'[u].times = reply[u].times
                         /\ reply'[u].known = reply[u].known
    BY <1>20 DEF ExpireStaleDrafts, ReplyType
  <2>4. UNCHANGED <<cursor, pc, upto, approvals>>
    BY <1>20 DEF ExpireStaleDrafts, turnVars, loopVars, restVars
  <2>5. ASSUME NEW u \in Batches PROVE RepliedOf(u)'
    <3>1. CASE u \in stale
      <4>1. RepliedOf(u) /\ reply[u].times \in Nat
        BY DEF Replied, ReplyType
      <4>2. ~(u > cursor) /\ ~InHand(u) /\ reply[u].times = 0
        BY <2>1, <3>1, <4>1 DEF RepliedOf, NoReply
      <4> QED
        BY <2>3, <2>4, <3>1, <4>2 DEF RepliedOf, InHand
    <3>2. CASE u \notin stale
      BY <2>2, <2>4, <3>2 DEF Replied, RepliedOf, InHand
    <3> QED
      BY <3>1, <3>2
  <2>6. pc \in {"page", "deliver"} => upto \in Batches
    BY DEF Turn, CounterType, Batches
  <2>7. Unseen'
    BY <2>2, <2>3, <2>4, <2>6 DEF Replied, Unseen
  <2> QED
    BY <2>5, <2>7 DEF Replied
<1>21. CASE GuestWrites
  BY <1>21, RepliedKept DEF GuestWrites, dbVars, loopVars, turnVars, restVars
<1>22. ASSUME NEW k \in Telling, StaffTells(k) PROVE Replied'
  BY <1>22, RepliedKept DEF StaffTells, Happens, dbVars, loopVars, turnVars, restVars
<1>23. CASE TakeOver
  BY <1>23, RepliedKept DEF TakeOver, dbVars, loopVars, turnVars, restVars
<1>24. CASE HandBack
  BY <1>24, RepliedKept DEF HandBack, dbVars, loopVars, turnVars, restVars
<1>25. CASE ModelThrows
  BY <1>25, RepliedKept DEF ModelThrows, ForgetTurn, dbVars, loopVars, turnVars, restVars
<1>26. CASE Crash
  <2>1. UNCHANGED <<reply, cursor>> /\ approvals' = {} /\ pc' = "idle"
    BY <1>26 DEF Crash, dbVars
  <2> QED
    BY <2>1 DEF Replied, RepliedOf, InHand, Unseen
<1>27. CASE UNCHANGED vars
  BY <1>27, RepliedKept DEF vars, dbVars, loopVars, turnVars, restVars
<1> QED
  BY <1>1, <1>2, <1>3, <1>4, <1>5, <1>6, <1>7, <1>8, <1>9, <1>10, <1>11, <1>12, <1>13,
     <1>14, <1>15, <1>16, <1>17, <1>18, <1>19, <1>20, <1>21, <1>22, <1>23, <1>24, <1>25,
     <1>26, <1>27
     DEF Next, BeginStep, ToolStep, GuardrailStep, Answering, ClaimedStep, DraftStep, WorldStep,
         FaultStep

(* No step strikes a batch twice. *)
LEMMA StruckStep ==
  ASSUME CounterType, Turn, Struck, [Next]_vars
  PROVE  Struck'
<1> USE ConstantsAssumption DEF CounterType, Turn, Struck, Batches, ForgetTurn, dbVars, loopVars,
     turnVars, restVars
<1>1. ASSUME NEW s \in Situations, RunClaudeTurn(s) PROVE Struck'
  BY <1>1 DEF RunClaudeTurn, TurnIsDue
<1>2. ASSUME NEW s \in Situations, KillSwitch(s) PROVE Struck'
  BY <1>2 DEF KillSwitch, TurnIsDue
<1>3. ASSUME NEW line \in FixedLines, SkipModel(line) PROVE Struck'
  BY <1>3 DEF SkipModel, TurnIsDue, FixedLines
<1>4. CASE SettleSilently
  BY <1>4 DEF SettleSilently, TurnIsDue
<1>5. ASSUME NEW answer \in {"ok", "failed"}, CreateStaffTask(answer)
      PROVE  Struck'
  BY <1>5 DEF CreateStaffTask, Ran, Happens
<1>6. ASSUME NEW answer \in {"reached", "queued", "failed"}, EscalateToHuman(answer)
      PROVE  Struck'
  BY <1>6 DEF EscalateToHuman, Ran, Happens
<1>7. CASE RememberFact
  BY <1>7 DEF RememberFact, Ran, Happens
<1>8. CASE GetQuote
  BY <1>8 DEF GetQuote, Ran
<1>9. ASSUME NEW ref \in References, NEW typed \in BOOLEAN, NEW proven \in BOOLEAN,
         NEW plain \in BOOLEAN,
         GetBooking(ref, typed, proven, plain)
      PROVE  Struck'
  BY <1>9 DEF GetBooking
<1>10. ASSUME NEW draft \in Drafts, Answering(draft) PROVE Struck'
  <2>1. pc = "loop"
    BY <1>10, GuardrailsAnswer
  <2>2. PICK outcome : Answer(outcome)
    BY <1>10, GuardrailsAnswer
  <2> QED
    BY <2>1, <2>2 DEF Answer
<1>11. ASSUME NEW draft \in Drafts, Regenerate(draft) PROVE Struck'
  BY <1>11 DEF Regenerate
<1>12. ASSUME NEW open \in BOOLEAN, NEW unlocked \in BOOLEAN, ClaimTurn(open, unlocked)
      PROVE  Struck'
  BY <1>12 DEF ClaimTurn
<1>13. ASSUME NEW delivered \in BOOLEAN, EscalateToOps(delivered) PROVE Struck'
  BY <1>13 DEF EscalateToOps
<1>14. CASE RecordReferenceAttempt
  BY <1>14 DEF RecordReferenceAttempt
<1>15. ASSUME NEW landed \in BOOLEAN, Deliver(landed) PROVE Struck'
  BY <1>15 DEF Deliver
<1>16. CASE SaveFactRow
  BY <1>16 DEF SaveFactRow, Happens
<1>17. ASSUME NEW u \in Batches, NEW verdict \in {"approved", "rejected"},
         ClaimDraftDecision(u, verdict)
      PROVE  Struck'
  BY <1>17 DEF ClaimDraftDecision, Undecided
<1>18. ASSUME NEW u \in Batches, CheckHold(u) PROVE Struck'
  BY <1>18 DEF CheckHold
<1>19. ASSUME NEW u \in Batches, NEW landed \in BOOLEAN, SendApproved(u, landed)
      PROVE  Struck'
  BY <1>19 DEF SendApproved
<1>20. ASSUME NEW stale \in SUBSET Batches, ExpireStaleDrafts(stale) PROVE Struck'
  BY <1>20 DEF ExpireStaleDrafts
<1>21. CASE GuestWrites
  BY <1>21 DEF GuestWrites
<1>22. ASSUME NEW k \in Telling, StaffTells(k) PROVE Struck'
  BY <1>22 DEF StaffTells, Happens
<1>23. CASE TakeOver
  BY <1>23 DEF TakeOver
<1>24. CASE HandBack
  BY <1>24 DEF HandBack
<1>25. CASE ModelThrows
  BY <1>25 DEF ModelThrows
<1>26. CASE Crash
  BY <1>26 DEF Crash
<1>27. CASE UNCHANGED vars
  BY <1>27 DEF vars
<1> QED
  BY <1>1, <1>2, <1>3, <1>4, <1>5, <1>6, <1>7, <1>8, <1>9, <1>10, <1>11, <1>12, <1>13,
     <1>14, <1>15, <1>16, <1>17, <1>18, <1>19, <1>20, <1>21, <1>22, <1>23, <1>24, <1>25,
     <1>26, <1>27
     DEF Next, BeginStep, ToolStep, GuardrailStep, Answering, ClaimedStep, DraftStep, WorldStep,
         FaultStep

(* What has happened since stays so while events are only added.           *)
LEMMA SinceKept ==
  ASSUME events \subseteq events', base' = base, NEW kinds, Since(kinds)
  PROVE  Since(kinds)'
BY DEF Since

(* What happens now has happened since. *)
LEMMA SinceHappens ==
  ASSUME NEW kind, NEW kinds, kind \in kinds, Happens(kind), base' <= msgs
  PROVE  Since(kinds)'
<1>1. <<kind, msgs>> \in events'
  BY DEF Happens
<1>2. <<kind, msgs>>[1] \in kinds /\ <<kind, msgs>>[2] >= base'
  OBVIOUS
<1> QED
  BY <1>1, <1>2, Zenon DEF Since

(* Rows are written with what they tell of, and pruned before it is. *)
LEMMA RowsStep ==
  ASSUME CounterType, SetType, Turn, RowsTell, [Next]_vars
  PROVE  RowsTell'
<1> USE ConstantsAssumption DEF CounterType, Turn, RowsTell, EventOf, RowKinds, ForgetTurn,
     dbVars, loopVars, turnVars, restVars
<1>1. ASSUME NEW s \in Situations, RunClaudeTurn(s) PROVE RowsTell'
  BY <1>1 DEF RunClaudeTurn, TurnIsDue
<1>2. ASSUME NEW s \in Situations, KillSwitch(s) PROVE RowsTell'
  BY <1>2 DEF KillSwitch, TurnIsDue
<1>3. ASSUME NEW line \in FixedLines, SkipModel(line) PROVE RowsTell'
  BY <1>3 DEF SkipModel, TurnIsDue, FixedLines
<1>4. CASE SettleSilently
  BY <1>4 DEF SettleSilently, TurnIsDue
<1>5. ASSUME NEW answer \in {"ok", "failed"}, CreateStaffTask(answer)
      PROVE  RowsTell'
  BY <1>5 DEF CreateStaffTask, Ran, Happens
<1>6. ASSUME NEW answer \in {"reached", "queued", "failed"}, EscalateToHuman(answer)
      PROVE  RowsTell'
  BY <1>6 DEF EscalateToHuman, Ran, Happens
<1>7. CASE RememberFact
  BY <1>7 DEF RememberFact, Ran, Happens
<1>8. CASE GetQuote
  BY <1>8 DEF GetQuote, Ran
<1>9. ASSUME NEW ref \in References, NEW typed \in BOOLEAN, NEW proven \in BOOLEAN,
         NEW plain \in BOOLEAN,
         GetBooking(ref, typed, proven, plain)
      PROVE  RowsTell'
  BY <1>9 DEF GetBooking
<1>10. ASSUME NEW draft \in Drafts, Answering(draft) PROVE RowsTell'
  <2>1. pc = "loop"
    BY <1>10, GuardrailsAnswer
  <2>2. PICK outcome : Answer(outcome)
    BY <1>10, GuardrailsAnswer
  <2> QED
    BY <2>1, <2>2 DEF Answer
<1>11. ASSUME NEW draft \in Drafts, Regenerate(draft) PROVE RowsTell'
  BY <1>11 DEF Regenerate
<1>12. ASSUME NEW open \in BOOLEAN, NEW unlocked \in BOOLEAN, ClaimTurn(open, unlocked)
      PROVE  RowsTell'
  BY <1>12 DEF ClaimTurn
<1>13. ASSUME NEW delivered \in BOOLEAN, EscalateToOps(delivered) PROVE RowsTell'
  BY <1>13 DEF EscalateToOps
<1>14. CASE RecordReferenceAttempt
  BY <1>14 DEF RecordReferenceAttempt
<1>15. ASSUME NEW landed \in BOOLEAN, Deliver(landed) PROVE RowsTell'
  BY <1>15 DEF Deliver
<1>16. CASE SaveFactRow
  BY <1>16 DEF SaveFactRow, Happens
<1>17. ASSUME NEW u \in Batches, NEW verdict \in {"approved", "rejected"},
         ClaimDraftDecision(u, verdict)
      PROVE  RowsTell'
  BY <1>17 DEF ClaimDraftDecision, Undecided
<1>18. ASSUME NEW u \in Batches, CheckHold(u) PROVE RowsTell'
  BY <1>18 DEF CheckHold
<1>19. ASSUME NEW u \in Batches, NEW landed \in BOOLEAN, SendApproved(u, landed)
      PROVE  RowsTell'
  BY <1>19 DEF SendApproved
<1>20. ASSUME NEW stale \in SUBSET Batches, ExpireStaleDrafts(stale) PROVE RowsTell'
  BY <1>20 DEF ExpireStaleDrafts
<1>21. CASE GuestWrites
  BY <1>21 DEF GuestWrites
<1>22. ASSUME NEW k \in Telling, StaffTells(k) PROVE RowsTell'
  BY <1>22 DEF StaffTells, Happens
<1>23. CASE TakeOver
  BY <1>23 DEF TakeOver
<1>24. CASE HandBack
  BY <1>24 DEF HandBack
<1>25. CASE ModelThrows
  BY <1>25 DEF ModelThrows
<1>26. CASE Crash
  BY <1>26 DEF Crash
<1>27. CASE UNCHANGED vars
  BY <1>27 DEF vars
<1> QED
  BY <1>1, <1>2, <1>3, <1>4, <1>5, <1>6, <1>7, <1>8, <1>9, <1>10, <1>11, <1>12, <1>13,
     <1>14, <1>15, <1>16, <1>17, <1>18, <1>19, <1>20, <1>21, <1>22, <1>23, <1>24, <1>25,
     <1>26, <1>27
     DEF Next, BeginStep, ToolStep, GuardrailStep, Answering, ClaimedStep, DraftStep, WorldStep,
         FaultStep

(* The guardrails let a claim through only if they find it covered, or as a *)
(* referral that is paged; what they write themselves claims nothing more. *)
Backable == {"C1", "C2", "C4", "C5"}

(* Every class but the promise of a referral needs a proof. *)
LEMMA BackableClaims == Backable = Claims \ {"C3"}
BY DEF Backable, Claims

(* A draft that breaks no rule is covered. *)
LEMMA UnbrokenIsCovered ==
  ASSUME NEW text, NEW e, Broken(text, e) = "none"
  PROVE  \A class \in text \cap Backable : Covered(class, e)
<1>1. ~PromiseBreaks(text, e)
  BY DEF Broken, StayReason
<1> QED
  BY <1>1, BackableClaims DEF PromiseBreaks, Uncovered

(* A deferral promises a referral, and has a reason. *)
LEMMA DeferralText == \A reason : Deferral(reason).text = {"C3"} /\ Deferral(reason).reason = reason
BY DEF Deferral, RateLine, Hold

(* What the last gate lets through is the text it was given, less some of  *)
(* it, or a line of the phrasebook.                                        *)
LEMMA FinalIsHonest ==
  ASSUME NEW text, NEW refers, NEW e, NEW trimmed
  PROVE  /\ Final(text, refers, e, trimmed).text \cap Backable \subseteq text
         /\ /\ "C3" \in Final(text, refers, e, trimmed).text
            /\ Final(text, refers, e, trimmed).reason = "none"
            => "C3" \in text /\ ~refers /\ ~e.must
<1> DEFINE clamped == text \ {"loud"}
           changed == trimmed \/ clamped # text
           again   == IF changed THEN BrokenAgain(clamped, e) ELSE "none"
           result  == IF changed /\ NoIdentity(clamped, e) THEN IdentityLine ELSE clamped
           F       == Final(text, refers, e, trimmed)
<1>1. result \cap (Backable \cup {"C3"}) \subseteq text
  BY DEF IdentityLine, Backable
<1>2. CASE again # "none"
  <2>1. F = Deferral(again)
    BY <1>2 DEF Final
  <2> QED
    BY <1>2, <2>1, DeferralText DEF Backable
<1>3. CASE again = "none" /\ "leak" \in result
  <2>1. F = [text |-> Hold, reason |-> "leak"]
    BY <1>3 DEF Final
  <2> QED
    BY <2>1 DEF Hold, Backable
<1>4. CASE again = "none" /\ "leak" \notin result
  <2>1. F = [text |-> result, reason |-> IF refers \/ e.must THEN "referral" ELSE "none"]
    BY <1>4 DEF Final
  <2> HIDE DEF result
  <2> QED
    BY <1>1, <2>1
<1> QED
  BY <1>2, <1>3, <1>4

(* Honest(o): what the answer o may rest on. *)
Honest(o) ==
  /\ \A class \in o.text \cap Backable : Covered(class, Evidence)
  /\ "C3" \in o.text /\ o.reason = "none" => Covered("C3", Evidence) /\ ~Must

(* An answer that breaks nothing is honest still once it is finished. *)
LEMMA FinalOfUnbroken ==
  ASSUME NEW text, NEW t, NEW trimmed, Broken(text, Evidence) = "none",
         t \cap Claims \subseteq text
  PROVE  Honest(Final(t, Referral(text, Evidence), Evidence, trimmed))
<1> DEFINE F == Final(t, Referral(text, Evidence), Evidence, trimmed)
<1>1. F.text \cap Backable \subseteq t
  BY FinalIsHonest
<1>2. "C3" \in F.text /\ F.reason = "none" => "C3" \in t /\ ~Referral(text, Evidence) /\ ~Evidence.must
  BY FinalIsHonest
<1>3. Backable \subseteq Claims /\ "C3" \in Claims
  BY DEF Backable, Claims
<1>4. \A class \in F.text \cap Backable : Covered(class, Evidence)
  BY <1>1, <1>3, UnbrokenIsCovered
<1>5. "C3" \in text /\ ~Referral(text, Evidence) => Covered("C3", Evidence)
  BY <1>3 DEF Referral, Uncovered
<1>6. Evidence.must = Must
  BY DEF Evidence
<1> HIDE DEF F
<1>7. Honest(F)
  BY <1>2, <1>3, <1>4, <1>5, <1>6 DEF Honest
<1> QED
  BY <1>7 DEF F

(* Each way out of the guardrails answers honestly. *)
LEMMA AnswerIsHonest ==
  ASSUME NEW draft, Answering(draft)
  PROVE  \E outcome : Answer(outcome) /\ Honest(outcome)
<1> DEFINE text == Locked(draft)
<1>1. CASE Passes(draft)
  <2>1. Broken(text, Evidence) = "none"
    BY <1>1 DEF Passes, Accepted
  <2>2. Honest(Final(text, Referral(text, Evidence), Evidence, FALSE))
    BY <2>1, FinalOfUnbroken
  <2> QED
    BY <1>1, <2>2, Zenon DEF Passes
<1>2. CASE Defers(draft)
  <2> DEFINE reason == Broken(text, Evidence)
  <2>1. reason # "none" /\ Answer(Deferral(reason))
    BY <1>2, Zenon DEF Defers
  <2> HIDE DEF reason
  <2>2. Honest(Deferral(reason))
    BY <2>1, DeferralText DEF Honest, Backable
  <2> QED
    BY <2>1, <2>2, Zenon
<1>3. CASE Substitutes(draft)
  <2>1. Broken(text, Evidence) = "none"
    BY <1>3, Zenon DEF Substitutes
  <2>2. IdentityLine \cap Claims \subseteq text
    BY DEF IdentityLine, Claims
  <2>3. Honest(Final(IdentityLine, Referral(text, Evidence), Evidence, FALSE))
    BY <2>1, <2>2, FinalOfUnbroken
  <2> QED
    BY <1>3, <2>3, Zenon DEF Substitutes
<1>4. CASE TrimsAtSentence(draft)
  <2>1. Broken(text, Evidence) = "none"
    BY <1>4, Zenon DEF TrimsAtSentence
  <2>2. PICK t \in Trims(text) : Answer(Final(t, Referral(text, Evidence), Evidence, TRUE))
    BY <1>4, Zenon DEF TrimsAtSentence
  <2>3. t \cap Claims \subseteq text
    BY <2>2 DEF Trims, Claims
  <2>4. Honest(Final(t, Referral(text, Evidence), Evidence, TRUE))
    BY <2>1, <2>3, FinalOfUnbroken
  <2> QED
    BY <2>2, <2>4, Zenon
<1> QED
  BY <1>1, <1>2, <1>3, <1>4 DEF Answering

(* What is covered is true. *)
LEMMA CoveredIsBacked ==
  ASSUME runs \subseteq Runs, EvidenceIsTrue, RunsAreTrue,
         NEW class \in Backable, Covered(class, Evidence)
  PROVE  Since(Proof(class)) /\ ~(missed /\ class \in {"C1", "C2"})
<1>1. /\ Since({"done", "nudge"}) => Since(Proof("C1"))
      /\ Since({"card"}) => Since(Proof("C1")) /\ Since(Proof("C2"))
      /\ Since({"fact"}) => Since(Proof("C4"))
  BY DEF Since, Proof
<1>2. /\ class \notin VetoedBy(runs) \cup carried.vetoed
      /\ class \in evidence \/ \E run \in runs : run[2] = "ok" /\ class \in ToolClaims(run[1])
  BY DEF Covered, Evidence, Backable
<1>3. <<"create_staff_task", "failed">> \in runs => {"C1", "C2"} \subseteq VetoedBy(runs)
  BY DEF VetoedBy, VetoOnFailure
<1>4. ~(missed /\ class \in {"C1", "C2"})
  BY <1>2, <1>3 DEF RunsAreTrue
<1>5. CASE class \in evidence
  <2>1. class \in {"C1", "C4"}
    BY <1>5 DEF EvidenceIsTrue, Backable
  <2>2. CASE class = "C1"
    BY <1>1, <1>4, <1>5, <2>2 DEF EvidenceIsTrue
  <2>3. CASE class = "C4"
    BY <1>1, <1>5, <2>3 DEF EvidenceIsTrue
  <2> QED
    BY <2>1, <2>2, <2>3
<1>6. ASSUME NEW run \in runs, run[2] = "ok", class \in ToolClaims(run[1])
      PROVE  Since(Proof(class))
  <2>1. run = <<run[1], "ok">> /\ run[1] \in Tools
    BY <1>6 DEF Runs
  <2>2. CASE run[1] = "create_staff_task"
    <3>1. class \in {"C1", "C2"} /\ Since({"card"})
      BY <1>6, <2>1, <2>2 DEF ToolClaims, RunsAreTrue
    <3> QED
      BY <1>1, <3>1
  <2>3. CASE run[1] = "remember_fact"
    <3>1. class = "C4" /\ Since({"fact"})
      BY <1>6, <2>1, <2>3 DEF ToolClaims, RunsAreTrue
    <3> QED
      BY <1>1, <3>1
  <2>4. CASE run[1] \in {"escalate_to_human", "get_quote"}
    BY <1>6, <2>4 DEF ToolClaims, Backable
  <2> QED
    BY <2>1, <2>2, <2>3, <2>4 DEF Tools
<1> QED
  BY <1>2, <1>4, <1>5, <1>6

(* A referral that is covered has paged somebody. *)
LEMMA CoveredIsPaged ==
  ASSUME runs \subseteq Runs, EvidenceIsTrue, RunsAreTrue, ~Must, Covered("C3", Evidence)
  PROVE  Since({"reached", "queued", "lost"})
<1>1. Since({"reached"}) \/ Since({"reached", "queued"}) => Since({"reached", "queued", "lost"})
  BY DEF Since
<1>2. "C3" \in evidence \/ \E run \in runs : run[2] = "ok" /\ "C3" \in ToolClaims(run[1])
  BY DEF Covered, Evidence
<1>3. CASE "C3" \in evidence
  BY <1>1, <1>3 DEF EvidenceIsTrue
<1>4. ASSUME NEW run \in runs, run[2] = "ok", "C3" \in ToolClaims(run[1])
      PROVE  Since({"reached", "queued", "lost"})
  <2>1. run = <<"escalate_to_human", "ok">>
    BY <1>4 DEF Runs, Tools, ToolClaims
  <2> QED
    BY <1>1, <1>4, <2>1 DEF RunsAreTrue
<1> QED
  BY <1>2, <1>3, <1>4

(* A reason pages somebody, and a booking that a human must see its channel. *)
LEMMA PagesOfReason ==
  ASSUME NEW reason, NEW situation, NEW esc
  PROVE  /\ reason # "none" => PagesOf(reason, situation, esc) # <<>>
         /\ situation.odd =>
              \E i \in 1 .. Len(PagesOf(reason, situation, esc)) :
                PagesOf(reason, situation, esc)[i] = "booking_undescribable"
<1> DEFINE first == IF situation.must THEN "complaint" ELSE reason
           held  == IF situation.odd /\ "booking_undescribable" \notin {first, esc}
                    THEN "booking_undescribable" ELSE "none"
           Has(s) == \E i \in 1 .. Len(s) : s[i] = "booking_undescribable"
           P     == (PageFor(first) \o PageFor(esc)) \o PageFor(held)
<1>1. PagesOf(reason, situation, esc) = P
  BY DEF PagesOf
<1>2. \A r : PageFor(r) \in Seq(Channels) /\ (r # "none" => PageFor(r) = <<Channel(r)>>)
  <2>1. \A r : Channel(r) \in Channels
    BY DEF Channel, Channels
  <2> QED
    BY <2>1 DEF PageFor
<1>3. \A s, t \in Seq(Channels) :
        /\ s \o t \in Seq(Channels) /\ Len(s \o t) = Len(s) + Len(t)
        /\ \A i \in 1 .. Len(s) : (s \o t)[i] = s[i]
        /\ \A i \in 1 .. Len(t) : (s \o t)[Len(s) + i] = t[i]
  OBVIOUS
<1>4. ASSUME NEW s \in Seq(Channels), NEW t \in Seq(Channels), Has(s) \/ Has(t)
      PROVE  Has(s \o t)
  <2>1. CASE Has(s)
    <3>1. PICK i \in 1 .. Len(s) : s[i] = "booking_undescribable"
      BY <2>1
    <3>2. i \in 1 .. Len(s \o t) /\ (s \o t)[i] = "booking_undescribable"
      BY <1>3, <3>1
    <3> QED
      BY <3>2
  <2>2. CASE Has(t)
    <3>1. PICK i \in 1 .. Len(t) : t[i] = "booking_undescribable"
      BY <2>2
    <3>2. Len(s) + i \in 1 .. Len(s \o t) /\ (s \o t)[Len(s) + i] = "booking_undescribable"
      BY <1>3, <3>1
    <3> QED
      BY <3>2
  <2> QED
    BY <1>4, <2>1, <2>2
<1>5. reason # "none" => P # <<>>
  <2> SUFFICES ASSUME reason # "none" PROVE P # <<>>
    OBVIOUS
  <2>1. Len(PageFor(first)) = 1
    BY <1>2
  <2>2. PageFor(first) \o PageFor(esc) \in Seq(Channels) /\ Len(PageFor(first) \o PageFor(esc)) >= 1
    BY <1>2, <1>3, <2>1
  <2>3. Len(P) >= 1
    BY <1>2, <1>3, <2>2
  <2> QED
    BY <2>3
<1>6. situation.odd => Has(P)
  <2> SUFFICES ASSUME situation.odd PROVE Has(P)
    OBVIOUS
  <2>1. PICK r \in {first, esc, held} : r = "booking_undescribable"
    OBVIOUS
  <2>2. Has(PageFor(r))
    <3>1. PageFor(r) = <<"booking_undescribable">>
      BY <2>1 DEF PageFor, Channel
    <3> QED
      BY <3>1
  <2> HIDE DEF first, held, Has
  <2>3. PageFor(first) \in Seq(Channels) /\ PageFor(esc) \in Seq(Channels) /\ PageFor(held) \in Seq(Channels)
    BY <1>2
  <2>4. PageFor(first) \o PageFor(esc) \in Seq(Channels)
    BY <1>3, <2>3
  <2>5. CASE r = held
    BY <1>4, <2>2, <2>3, <2>4, <2>5
  <2>6. CASE r \in {first, esc}
    <3>1. Has(PageFor(first) \o PageFor(esc))
      BY <1>4, <2>2, <2>3, <2>6
    <3> QED
      BY <1>4, <2>3, <2>4, <3>1
  <2> QED
    BY <2>1, <2>5, <2>6
<1> QED
  BY <1>1, <1>5, <1>6

(* What a row licenses is a class of what it tells of. *)
LEMMA EvidenceIsTold ==
  ASSUME SetType, RowsTell, NEW class \in SystemEvidence
  PROVE  \E k \in RowKinds, n \in Nat :
           class \in ContextClaims(k) /\ <<EventOf(k), n>> \in events /\ n >= cursor
<1>1. PICK r \in rows : class \in ContextClaims(r[1])
  BY DEF SystemEvidence, ClassesOf
<1>2. r = <<r[1], r[2]>> /\ r[1] \in RowKinds /\ r[2] \in 0 .. MaxMsgs
  BY DEF SetType
<1>3. <<EventOf(r[1]), r[2]>> \in events /\ r[2] >= cursor
  BY <1>2 DEF RowsTell
<1> QED
  BY <1>1, <1>2, <1>3

(* Evidence read from rows is true when the rows are. *)
LEMMA EvidenceOfRowsIsTrue ==
  ASSUME SetType, RowsTell, evidence' = SystemEvidence, base' = cursor, UNCHANGED events
  PROVE  EvidenceIsTrue'
<1>1. ASSUME NEW class \in SystemEvidence
      PROVE  \/ class = "C1" /\ Since({"done", "nudge"})'
             \/ class = "C3" /\ Since({"reached"})'
             \/ class = "C4" /\ Since({"fact"})'
  <2>1. PICK k \in RowKinds, n \in Nat :
          class \in ContextClaims(k) /\ <<EventOf(k), n>> \in events /\ n >= cursor
    BY EvidenceIsTold
  <2>2. \A kinds : EventOf(k) \in kinds => Since(kinds)'
    <3>1. <<EventOf(k), n>>[1] = EventOf(k) /\ <<EventOf(k), n>>[2] >= base'
      BY <2>1
    <3> QED
      BY <2>1, <3>1 DEF Since
  <2>3. CASE k \in {"task_done", "sla_nudge"}
    <3>1. class = "C1" /\ EventOf(k) \in {"done", "nudge"}
      BY <2>1, <2>3 DEF ContextClaims, EventOf
    <3> QED
      BY <2>2, <3>1
  <2>4. CASE k = "ops_escalation"
    <3>1. class = "C3" /\ EventOf(k) \in {"reached"}
      BY <2>1, <2>4 DEF ContextClaims, EventOf
    <3> QED
      BY <2>2, <3>1
  <2>5. CASE k = "fact_saved"
    <3>1. class = "C4" /\ EventOf(k) \in {"fact"}
      BY <2>1, <2>5 DEF ContextClaims, EventOf
    <3> QED
      BY <2>2, <3>1
  <2> QED
    BY <2>3, <2>4, <2>5 DEF RowKinds
<1> QED
  BY <1>1 DEF EvidenceIsTrue

(* A step that touches neither the loop nor what has happened in it. *)
LEMMA LoopKept ==
  ASSUME LoopIsTrue, events \subseteq events',
         pc' = "loop" => pc = "loop" /\ UNCHANGED <<base, evidence, runs, carried, missed, pass>>
  PROVE  LoopIsTrue'
<1> SUFFICES ASSUME pc' = "loop" PROVE (EvidenceIsTrue /\ RunsAreTrue)'
  BY DEF LoopIsTrue
<1>1. \A kinds : Since(kinds) => Since(kinds)'
  BY SinceKept
<1> QED
  BY <1>1 DEF LoopIsTrue, EvidenceIsTrue, RunsAreTrue

(* A run of a tool joins those of its loop, with what it has brought about. *)
LEMMA LoopRuns ==
  ASSUME LoopIsTrue, NEW tool, NEW answer, Ran(tool, answer), events \subseteq events',
         answer = "ok" /\ tool = "create_staff_task" => Since({"card"})',
         answer = "ok" /\ tool = "escalate_to_human" => Since({"reached", "queued"})',
         answer = "ok" /\ tool = "remember_fact" => Since({"fact"})',
         missed' => missed \/ <<tool, answer>> = <<"create_staff_task", "failed">>
  PROVE  LoopIsTrue'
<1>1. /\ pc = "loop" /\ pc' = "loop" /\ runs' = runs \cup {<<tool, answer>>}
      /\ UNCHANGED <<base, evidence, carried, pass>>
  BY DEF Ran, loopVars
<1>2. \A kinds : Since(kinds) => Since(kinds)'
  BY <1>1, SinceKept
<1>3. EvidenceIsTrue'
  BY <1>1, <1>2 DEF LoopIsTrue, EvidenceIsTrue
<1>4. RunsAreTrue'
  BY <1>1, <1>2 DEF LoopIsTrue, RunsAreTrue
<1> QED
  BY <1>3, <1>4 DEF LoopIsTrue

(* Every step keeps what the loop may license true. *)
LEMMA LoopStep ==
  ASSUME CounterType, SetType, Turn, RowsTell, LoopIsTrue, [Next]_vars
  PROVE  LoopIsTrue'
<1>1. ASSUME NEW s \in Situations, RunClaudeTurn(s) PROVE LoopIsTrue'
  <2>1. EvidenceIsTrue'
    BY <1>1, EvidenceOfRowsIsTrue DEF RunClaudeTurn, restVars
  <2>2. runs' = {} /\ carried' = NothingCarried /\ ~missed'
    BY <1>1 DEF RunClaudeTurn, TurnIsDue, Turn
  <2> QED
    BY <2>1, <2>2 DEF LoopIsTrue, RunsAreTrue
<1>2. ASSUME NEW s \in Situations, KillSwitch(s) PROVE LoopIsTrue'
  BY <1>2, LoopKept DEF KillSwitch, TurnIsDue, ForgetTurn, dbVars, loopVars, turnVars, restVars
<1>3. ASSUME NEW line \in FixedLines, SkipModel(line) PROVE LoopIsTrue'
  BY <1>3, LoopKept DEF SkipModel, TurnIsDue, FixedLines, ForgetTurn, dbVars, loopVars, turnVars,
       restVars
<1>4. CASE SettleSilently
  <2>1. pc' # "loop"
    BY <1>4 DEF SettleSilently, TurnIsDue, turnVars
  <2> QED
    BY <2>1 DEF LoopIsTrue
<1>5. ASSUME NEW answer \in {"ok", "failed"}, CreateStaffTask(answer)
      PROVE  LoopIsTrue'
  <2>1. Ran("create_staff_task", answer) /\ base' <= msgs
    BY <1>5 DEF CreateStaffTask, Ran, loopVars, Turn, CounterType
  <2>2. missed' => missed \/ answer = "failed"
    BY <1>5, Zenon DEF CreateStaffTask
  <2>3. events \subseteq events' /\ (answer = "ok" => Since({"card"})')
    <3>1. CASE answer = "ok"
      BY <1>5, <2>1, <3>1, SinceHappens DEF CreateStaffTask, Happens
    <3>2. CASE answer # "ok"
      BY <1>5, <3>2 DEF CreateStaffTask
    <3> QED
      BY <3>1, <3>2
  <2> QED
    BY <2>1, <2>2, <2>3, LoopRuns
<1>6. ASSUME NEW answer \in {"reached", "queued", "failed"}, EscalateToHuman(answer)
      PROVE  LoopIsTrue'
  <2> DEFINE a == IF answer = "failed" THEN "failed" ELSE "ok"
  <2>1. Ran("escalate_to_human", a) /\ base' <= msgs /\ missed' = missed
    BY <1>6 DEF EscalateToHuman, Ran, loopVars, Turn, CounterType
  <2>2. events \subseteq events' /\ (a = "ok" => Since({"reached", "queued"})')
    <3>1. CASE answer # "failed"
      <4>1. Happens(answer) /\ answer \in {"reached", "queued"}
        BY <1>6, <3>1 DEF EscalateToHuman
      <4> QED
        BY <2>1, <4>1, SinceHappens DEF Happens
    <3>2. CASE answer = "failed"
      BY <1>6, <3>2 DEF EscalateToHuman
    <3> QED
      BY <3>1, <3>2
  <2> HIDE DEF a
  <2> QED
    BY <2>1, <2>2, LoopRuns
<1>7. CASE RememberFact
  <2>1. Ran("remember_fact", "ok") /\ base' <= msgs /\ missed' = missed /\ Happens("fact")
    BY <1>7 DEF RememberFact, Ran, loopVars, Turn, CounterType
  <2>2. events \subseteq events' /\ Since({"fact"})'
    BY <2>1, SinceHappens DEF Happens
  <2> QED
    BY <2>1, <2>2, LoopRuns
<1>8. CASE GetQuote
  <2>1. Ran("get_quote", "ok") /\ UNCHANGED <<missed, events>>
    BY <1>8 DEF GetQuote
  <2> QED
    BY <2>1, LoopRuns
<1>9. ASSUME NEW ref \in References, NEW typed \in BOOLEAN, NEW proven \in BOOLEAN,
         NEW plain \in BOOLEAN,
         GetBooking(ref, typed, proven, plain)
      PROVE  LoopIsTrue'
  BY <1>9, LoopKept DEF GetBooking, ForgetTurn, dbVars, loopVars, turnVars, restVars
<1>10. ASSUME NEW draft \in Drafts, Answering(draft) PROVE LoopIsTrue'
  <2>1. pc = "loop"
    BY <1>10, GuardrailsAnswer
  <2>2. PICK outcome : Answer(outcome)
    BY <1>10, GuardrailsAnswer
  <2> QED
    BY <2>1, <2>2, LoopKept DEF Answer, restVars
<1>11. ASSUME NEW draft \in Drafts, Regenerate(draft) PROVE LoopIsTrue'
  <2>1. /\ pc = "loop" /\ pass = 1 /\ pass' = 2 /\ runs' = {}
        /\ carried'.vetoed = VetoedBy(runs)
        /\ UNCHANGED <<base, evidence, missed, events>>
    BY <1>11 DEF Regenerate, Vetoes, restVars
  <2>2. EvidenceIsTrue'
    BY <2>1 DEF LoopIsTrue, EvidenceIsTrue, Since
  <2>3. missed => <<"create_staff_task", "failed">> \in runs
    BY <2>1 DEF LoopIsTrue, RunsAreTrue, NothingCarried
  <2>4. <<"create_staff_task", "failed">> \in runs => {"C1", "C2"} \subseteq VetoedBy(runs)
    BY DEF VetoedBy, VetoOnFailure
  <2> QED
    BY <2>1, <2>2, <2>3, <2>4 DEF LoopIsTrue, RunsAreTrue
<1>12. ASSUME NEW open \in BOOLEAN, NEW unlocked \in BOOLEAN, ClaimTurn(open, unlocked)
      PROVE  LoopIsTrue'
  BY <1>12, LoopKept DEF ClaimTurn, ForgetTurn, dbVars, loopVars, turnVars, restVars
<1>13. ASSUME NEW delivered \in BOOLEAN, EscalateToOps(delivered) PROVE LoopIsTrue'
  BY <1>13, LoopKept DEF EscalateToOps, ForgetTurn, dbVars, loopVars, turnVars, restVars
<1>14. CASE RecordReferenceAttempt
  BY <1>14, LoopKept DEF RecordReferenceAttempt, ForgetTurn, dbVars, loopVars, turnVars, restVars
<1>15. ASSUME NEW landed \in BOOLEAN, Deliver(landed) PROVE LoopIsTrue'
  BY <1>15 DEF Deliver, LoopIsTrue
<1>16. CASE SaveFactRow
  BY <1>16, LoopKept DEF SaveFactRow, Happens, ForgetTurn, dbVars, loopVars, turnVars, restVars
<1>17. ASSUME NEW u \in Batches, NEW verdict \in {"approved", "rejected"},
         ClaimDraftDecision(u, verdict)
      PROVE  LoopIsTrue'
  BY <1>17, LoopKept DEF ClaimDraftDecision, Undecided, ForgetTurn, dbVars, loopVars, turnVars,
       restVars
<1>18. ASSUME NEW u \in Batches, CheckHold(u) PROVE LoopIsTrue'
  BY <1>18, LoopKept DEF CheckHold, ForgetTurn, dbVars, loopVars, turnVars, restVars
<1>19. ASSUME NEW u \in Batches, NEW landed \in BOOLEAN, SendApproved(u, landed)
      PROVE  LoopIsTrue'
  BY <1>19, LoopKept DEF SendApproved, ForgetTurn, dbVars, loopVars, turnVars, restVars
<1>20. ASSUME NEW stale \in SUBSET Batches, ExpireStaleDrafts(stale) PROVE LoopIsTrue'
  BY <1>20, LoopKept DEF ExpireStaleDrafts, ForgetTurn, dbVars, loopVars, turnVars, restVars
<1>21. CASE GuestWrites
  BY <1>21, LoopKept DEF GuestWrites, ForgetTurn, dbVars, loopVars, turnVars, restVars
<1>22. ASSUME NEW k \in Telling, StaffTells(k) PROVE LoopIsTrue'
  BY <1>22, LoopKept DEF StaffTells, Happens, ForgetTurn, dbVars, loopVars, turnVars, restVars
<1>23. CASE TakeOver
  BY <1>23, LoopKept DEF TakeOver, ForgetTurn, dbVars, loopVars, turnVars, restVars
<1>24. CASE HandBack
  BY <1>24, LoopKept DEF HandBack, ForgetTurn, dbVars, loopVars, turnVars, restVars
<1>25. CASE ModelThrows
  BY <1>25 DEF ModelThrows, LoopIsTrue
<1>26. CASE Crash
  BY <1>26 DEF Crash, LoopIsTrue
<1>27. CASE UNCHANGED vars
  BY <1>27, LoopKept DEF vars, ForgetTurn, dbVars, loopVars, turnVars, restVars
<1> QED
  BY <1>1, <1>2, <1>3, <1>4, <1>5, <1>6, <1>7, <1>8, <1>9, <1>10, <1>11, <1>12, <1>13,
     <1>14, <1>15, <1>16, <1>17, <1>18, <1>19, <1>20, <1>21, <1>22, <1>23, <1>24, <1>25,
     <1>26, <1>27
     DEF Next, BeginStep, ToolStep, GuardrailStep, Answering, ClaimedStep, DraftStep, WorldStep,
         FaultStep

(* What the guardrails answer is backed, and paged where it must be.        *)
LEMMA AnswerSends ==
  ASSUME SetType, Turn, LoopIsTrue, NEW draft \in Drafts, Answering(draft)
  PROVE  (Backing /\ Paging)'
<1>1. pc = "loop" /\ EvidenceIsTrue /\ RunsAreTrue /\ runs \subseteq Runs
  BY GuardrailsAnswer DEF LoopIsTrue, SetType
<1>2. PICK o : Answer(o) /\ Honest(o)
  BY AnswerIsHonest
<1>3. /\ out' = o.text \cap Claims
      /\ pages' = PagesOf(o.reason, guest, claim.esc)
      /\ guest'.odd = guest.odd
      /\ UNCHANGED <<events, base, missed>>
  BY <1>2 DEF Answer, restVars, Nobody
<1>4. \A kinds : Since(kinds)' <=> Since(kinds)
  BY <1>3 DEF Since
<1>5. Backed(out)'
  <2>1. \A class \in out' \cap Backable : Since(Proof(class)) /\ ~(missed /\ class \in {"C1", "C2"})
    BY <1>1, <1>2, <1>3, CoveredIsBacked DEF Honest
  <2> QED
    BY <1>3, <1>4, <2>1, BackableClaims DEF Backed
<1>6. "C3" \in out' => Since({"reached", "queued", "lost"})' \/ pages' # <<>>
  <2>1. CASE o.reason = "none"
    BY <1>1, <1>2, <1>3, <1>4, <2>1, CoveredIsPaged DEF Honest
  <2>2. CASE o.reason # "none"
    BY <1>3, <2>2, PagesOfReason
  <2> QED
    BY <2>1, <2>2
<1>7. guest'.odd => Waits("booking_undescribable")'
  <2>1. guest.odd =>
          \E i \in 1 .. Len(PagesOf(o.reason, guest, claim.esc)) :
            PagesOf(o.reason, guest, claim.esc)[i] = "booking_undescribable"
    BY PagesOfReason, Zenon
  <2>2. guest'.odd => \E i \in 1 .. Len(pages') : pages'[i] = "booking_undescribable"
    BY <1>3, <2>1
  <2> QED
    BY <2>2 DEF Waits
<1> QED
  BY <1>5, <1>6, <1>7 DEF Backing, Paging

(* A step of somebody else leaves what is about to be sent as it is. *)
LEMMA SendingKept ==
  ASSUME Backing, Paging, events \subseteq events',
         Sending' => Sending /\ UNCHANGED <<base, out, pages, missed, guest>>
  PROVE  (Backing /\ Paging)'
<1> SUFFICES ASSUME Sending' PROVE (Backing /\ Paging)'
  BY DEF Backing, Paging
<1>1. \A kinds : Since(kinds) => Since(kinds)'
  BY SinceKept
<1>2. Backing'
  BY <1>1 DEF Backing, Backed
<1>3. Paging'
  BY <1>1 DEF Paging, Waits
<1> QED
  BY <1>2, <1>3

(* Every step keeps what is about to be sent backed, and its pages owed or made. *)
LEMMA SendingStep ==
  ASSUME CounterType, SetType, Turn, LoopIsTrue, Backing, Paging, [Next]_vars
  PROVE  (Backing /\ Paging)'
<1>1. ASSUME NEW s \in Situations, RunClaudeTurn(s) PROVE (Backing /\ Paging)'
  BY <1>1 DEF RunClaudeTurn, ForgetTurn, Backing, Paging, Sending
<1>2. ASSUME NEW s \in Situations, KillSwitch(s) PROVE (Backing /\ Paging)'
  <2>1. /\ out' = {"C3"} /\ guest'.odd = s.odd
        /\ pages' = PagesOf("referral", s, "none")
    BY <1>2 DEF KillSwitch, Hold, Nobody
  <2>2. Backing'
    BY <2>1 DEF Backing, Backed
  <2>3. Paging'
    BY <2>1, PagesOfReason DEF Paging, Waits
  <2> QED
    BY <2>2, <2>3
<1>3. ASSUME NEW line \in FixedLines, SkipModel(line) PROVE (Backing /\ Paging)'
  <2>1. /\ out' = line.text /\ line.text \subseteq {"C3"}
        /\ pages' = PagesOf(line.reason, Nobody, "none")
        /\ "C3" \in line.text => line.reason # "none"
    BY <1>3 DEF SkipModel, FixedLines
  <2>2. ~guest'.odd
    BY <1>3 DEF SkipModel, TurnIsDue, Turn, Nobody
  <2>3. Backing'
    BY <2>1 DEF Backing, Backed
  <2>4. Paging'
    BY <2>1, <2>2, PagesOfReason DEF Paging
  <2> QED
    BY <2>3, <2>4
<1>4. CASE SettleSilently
  BY <1>4 DEF SettleSilently, TurnIsDue, turnVars, Backing, Paging, Sending
<1>5. ASSUME NEW answer \in {"ok", "failed"}, CreateStaffTask(answer)
      PROVE  (Backing /\ Paging)'
  BY <1>5, SendingKept DEF Sending, CreateStaffTask, Ran, Happens, ForgetTurn, dbVars, loopVars,
       turnVars, restVars
<1>6. ASSUME NEW answer \in {"reached", "queued", "failed"}, EscalateToHuman(answer)
      PROVE  (Backing /\ Paging)'
  BY <1>6, SendingKept DEF Sending, EscalateToHuman, Ran, Happens, ForgetTurn, dbVars, loopVars,
       turnVars, restVars
<1>7. CASE RememberFact
  BY <1>7, SendingKept DEF Sending, RememberFact, Ran, Happens, ForgetTurn, dbVars, loopVars,
       turnVars, restVars
<1>8. CASE GetQuote
  BY <1>8, SendingKept DEF Sending, GetQuote, Ran, ForgetTurn, dbVars, loopVars, turnVars, restVars
<1>9. ASSUME NEW ref \in References, NEW typed \in BOOLEAN, NEW proven \in BOOLEAN,
         NEW plain \in BOOLEAN,
         GetBooking(ref, typed, proven, plain)
      PROVE  (Backing /\ Paging)'
  BY <1>9, SendingKept DEF Sending, GetBooking, ForgetTurn, dbVars, loopVars, turnVars, restVars
<1>10. ASSUME NEW draft \in Drafts, Answering(draft) PROVE (Backing /\ Paging)'
  BY <1>10, AnswerSends
<1>11. ASSUME NEW draft \in Drafts, Regenerate(draft) PROVE (Backing /\ Paging)'
  BY <1>11 DEF Regenerate, ForgetTurn, Backing, Paging, Sending
<1>12. ASSUME NEW open \in BOOLEAN, NEW unlocked \in BOOLEAN, ClaimTurn(open, unlocked)
      PROVE  (Backing /\ Paging)'
  <2>1. Sending /\ UNCHANGED <<base, out, pages, missed, guest, events>>
    BY <1>12 DEF ClaimTurn, Sending, loopVars, restVars
  <2> QED
    BY <2>1, SendingKept
<1>13. ASSUME NEW delivered \in BOOLEAN, EscalateToOps(delivered) PROVE (Backing /\ Paging)'
  <2>1. /\ Sending /\ pages # <<>> /\ pages' = Tail(pages)
        /\ UNCHANGED <<base, out, missed, guest>>
    BY <1>13 DEF EscalateToOps, Sending, loopVars
  <2>2. /\ events \subseteq events'
        /\ <<IF delivered THEN "reached" ELSE "lost", msgs>> \in events'
        /\ Head(pages) = "booking_undescribable" => <<"booking", msgs>> \in events'
    BY <1>13 DEF EscalateToOps
  <2>3. base' <= msgs
    BY <2>1 DEF Turn, CounterType
  <2>4. \A kinds : Since(kinds) => Since(kinds)'
    BY <2>1, <2>2, SinceKept
  <2>5. Since({"reached", "queued", "lost"})'
    <3> DEFINE e == <<IF delivered THEN "reached" ELSE "lost", msgs>>
    <3>1. e[1] \in {"reached", "queued", "lost"} /\ e[2] >= base'
      BY <2>3
    <3> QED
      BY <2>2, <3>1 DEF Since
  <2>6. guest'.odd => Since({"booking"})' \/ Waits("booking_undescribable")'
    <3>1. CASE Since({"booking"})
      BY <2>4, <3>1
    <3>2. CASE Head(pages) = "booking_undescribable"
      <4>1. <<"booking", msgs>>[1] = "booking" /\ <<"booking", msgs>>[2] >= base'
        BY <2>3
      <4> QED
        BY <2>2, <3>2, <4>1 DEF Since
    <3>3. ASSUME Waits("booking_undescribable"), Head(pages) # "booking_undescribable"
          PROVE  Waits("booking_undescribable")'
      <4>1. PICK i \in 1 .. Len(pages) : pages[i] = "booking_undescribable"
        BY <3>3 DEF Waits
      <4>2. i # 1 /\ i - 1 \in 1 .. Len(Tail(pages)) /\ Tail(pages)[i - 1] = pages[i]
        BY <2>1, <3>3, <4>1 DEF SetType
      <4> QED
        BY <2>1, <4>1, <4>2 DEF Waits
    <3>4. guest.odd => Since({"booking"}) \/ Waits("booking_undescribable")
      BY <2>1 DEF Paging
    <3> QED
      BY <2>1, <3>1, <3>2, <3>3, <3>4
  <2>7. Backing'
    BY <2>1, <2>4 DEF Backing, Backed, Sending
  <2> QED
    BY <2>5, <2>6, <2>7 DEF Paging
<1>14. CASE RecordReferenceAttempt
  <2>1. Sending /\ UNCHANGED <<base, out, pages, missed, guest, events>>
    BY <1>14 DEF RecordReferenceAttempt, Sending, loopVars, restVars
  <2> QED
    BY <2>1, SendingKept
<1>15. ASSUME NEW landed \in BOOLEAN, Deliver(landed) PROVE (Backing /\ Paging)'
  BY <1>15 DEF Deliver, Backing, Paging, Sending
<1>16. CASE SaveFactRow
  BY <1>16 DEF SaveFactRow, ForgetTurn, Backing, Paging, Sending
<1>17. ASSUME NEW u \in Batches, NEW verdict \in {"approved", "rejected"},
         ClaimDraftDecision(u, verdict)
      PROVE  (Backing /\ Paging)'
  BY <1>17, SendingKept DEF Sending, ClaimDraftDecision, Undecided, ForgetTurn, dbVars, loopVars,
       turnVars, restVars
<1>18. ASSUME NEW u \in Batches, CheckHold(u) PROVE (Backing /\ Paging)'
  BY <1>18, SendingKept DEF Sending, CheckHold, ForgetTurn, dbVars, loopVars, turnVars, restVars
<1>19. ASSUME NEW u \in Batches, NEW landed \in BOOLEAN, SendApproved(u, landed)
      PROVE  (Backing /\ Paging)'
  BY <1>19, SendingKept DEF Sending, SendApproved, ForgetTurn, dbVars, loopVars, turnVars, restVars
<1>20. ASSUME NEW stale \in SUBSET Batches, ExpireStaleDrafts(stale) PROVE (Backing /\ Paging)'
  BY <1>20, SendingKept DEF Sending, ExpireStaleDrafts, ForgetTurn, dbVars, loopVars, turnVars,
       restVars
<1>21. CASE GuestWrites
  BY <1>21, SendingKept DEF Sending, GuestWrites, ForgetTurn, dbVars, loopVars, turnVars, restVars
<1>22. ASSUME NEW k \in Telling, StaffTells(k) PROVE (Backing /\ Paging)'
  BY <1>22, SendingKept DEF Sending, StaffTells, Happens, ForgetTurn, dbVars, loopVars, turnVars,
       restVars
<1>23. CASE TakeOver
  BY <1>23, SendingKept DEF Sending, TakeOver, ForgetTurn, dbVars, loopVars, turnVars, restVars
<1>24. CASE HandBack
  BY <1>24, SendingKept DEF Sending, HandBack, ForgetTurn, dbVars, loopVars, turnVars, restVars
<1>25. CASE ModelThrows
  BY <1>25 DEF ModelThrows, ForgetTurn, Backing, Paging, Sending
<1>26. CASE Crash
  BY <1>26 DEF Crash, ForgetTurn, Backing, Paging, Sending
<1>27. CASE UNCHANGED vars
  BY <1>27, SendingKept DEF Sending, vars, ForgetTurn, dbVars, loopVars, turnVars, restVars
<1> QED
  BY <1>1, <1>2, <1>3, <1>4, <1>5, <1>6, <1>7, <1>8, <1>9, <1>10, <1>11, <1>12, <1>13,
     <1>14, <1>15, <1>16, <1>17, <1>18, <1>19, <1>20, <1>21, <1>22, <1>23, <1>24, <1>25,
     <1>26, <1>27
     DEF Next, BeginStep, ToolStep, GuardrailStep, Answering, ClaimedStep, DraftStep, WorldStep,
         FaultStep

(* The reply of the turn at hand has not been shown yet. *)
LEMMA ReplyOfTheTurn ==
  ASSUME CounterType, Turn, Replied, upto # 0
  PROVE  upto \in Batches /\ ~reply[upto].known /\ reply[upto].times = 0 /\ ~InHand(upto)
<1>1. upto \in Batches /\ pc \notin {"idle", "fact"}
  BY DEF CounterType, Turn, Batches
<1>2. RepliedOf(upto)
  BY <1>1 DEF Replied
<1>3. CASE pc \in {"loop", "claim"}
  <2>1. upto > cursor
    BY <1>3 DEF Turn, CounterType
  <2> QED
    BY <1>1, <1>2, <2>1 DEF RepliedOf, NoReply
<1>4. CASE pc \in {"page", "deliver"}
  BY <1>1, <1>2, <1>4 DEF Replied, Unseen, RepliedOf
<1> QED
  BY <1>1, <1>3, <1>4 DEF CounterType

(* A reply is shown by its delivery, and by nothing else while its turn lasts. *)
LEMMA OnlyDeliverShows ==
  ASSUME CounterType, ReplyType, Turn, Replied, Shows, [Next]_vars
  PROVE  pc = "deliver"
<1>1. ASSUME NEW s \in Situations, RunClaudeTurn(s) PROVE pc = "deliver"
  BY <1>1 DEF Shows, RunClaudeTurn, TurnIsDue, dbVars, loopVars, turnVars, restVars
<1>2. ASSUME NEW s \in Situations, KillSwitch(s) PROVE pc = "deliver"
  BY <1>2 DEF Shows, KillSwitch, TurnIsDue, dbVars, loopVars, turnVars, restVars
<1>3. ASSUME NEW line \in FixedLines, SkipModel(line) PROVE pc = "deliver"
  BY <1>3 DEF Shows, SkipModel, TurnIsDue, FixedLines, dbVars, loopVars, turnVars, restVars
<1>4. CASE SettleSilently
  BY <1>4 DEF Shows, SettleSilently, TurnIsDue, dbVars, loopVars, turnVars, restVars
<1>5. ASSUME NEW answer \in {"ok", "failed"}, CreateStaffTask(answer)
      PROVE  pc = "deliver"
  BY <1>5 DEF Shows, CreateStaffTask, Ran, Happens, dbVars, loopVars, turnVars, restVars
<1>6. ASSUME NEW answer \in {"reached", "queued", "failed"}, EscalateToHuman(answer)
      PROVE  pc = "deliver"
  BY <1>6 DEF Shows, EscalateToHuman, Ran, Happens, dbVars, loopVars, turnVars, restVars
<1>7. CASE RememberFact
  BY <1>7 DEF Shows, RememberFact, Ran, Happens, dbVars, loopVars, turnVars, restVars
<1>8. CASE GetQuote
  BY <1>8 DEF Shows, GetQuote, Ran, dbVars, loopVars, turnVars, restVars
<1>9. ASSUME NEW ref \in References, NEW typed \in BOOLEAN, NEW proven \in BOOLEAN,
         NEW plain \in BOOLEAN,
         GetBooking(ref, typed, proven, plain)
      PROVE  pc = "deliver"
  BY <1>9 DEF Shows, GetBooking, dbVars, loopVars, turnVars, restVars
<1>10. ASSUME NEW draft \in Drafts, Answering(draft) PROVE pc = "deliver"
  <2>1. PICK outcome : Answer(outcome)
    BY <1>10, GuardrailsAnswer
  <2> QED
    BY <2>1 DEF Answer, Shows, dbVars
<1>11. ASSUME NEW draft \in Drafts, Regenerate(draft) PROVE pc = "deliver"
  BY <1>11 DEF Shows, Regenerate, dbVars, loopVars, turnVars, restVars
<1>12. ASSUME NEW open \in BOOLEAN, NEW unlocked \in BOOLEAN, ClaimTurn(open, unlocked)
      PROVE  pc = "deliver"
  <2>1. upto \in Batches /\ ~reply[upto].known /\ reply[upto].times = 0
    BY ReplyOfTheTurn DEF Shows
  <2>2. reply'[upto].known = reply[upto].known /\ reply'[upto].times = reply[upto].times
    BY <1>12, <2>1 DEF ClaimTurn, ReplyType
  <2> QED
    BY <2>1, <2>2 DEF Shows
<1>13. ASSUME NEW delivered \in BOOLEAN, EscalateToOps(delivered) PROVE pc = "deliver"
  BY <1>13 DEF Shows, EscalateToOps, dbVars, loopVars, turnVars, restVars
<1>14. CASE RecordReferenceAttempt
  BY <1>14 DEF Shows, RecordReferenceAttempt, dbVars, loopVars, turnVars, restVars
<1>15. ASSUME NEW landed \in BOOLEAN, Deliver(landed) PROVE pc = "deliver"
  BY <1>15 DEF Deliver
<1>16. CASE SaveFactRow
  BY <1>16 DEF Shows, SaveFactRow, Happens, dbVars, loopVars, turnVars, restVars
<1>17. ASSUME NEW u \in Batches, NEW verdict \in {"approved", "rejected"},
         ClaimDraftDecision(u, verdict)
      PROVE  pc = "deliver"
  <2>1. upto \in Batches /\ ~reply[upto].known
    BY ReplyOfTheTurn DEF Shows
  <2>2. reply'[upto] = reply[upto]
    BY <1>17, <2>1 DEF ClaimDraftDecision, ReplyType
  <2> QED
    BY <2>2 DEF Shows
<1>18. ASSUME NEW u \in Batches, CheckHold(u) PROVE pc = "deliver"
  BY <1>18 DEF Shows, CheckHold, dbVars, loopVars, turnVars, restVars
<1>19. ASSUME NEW u \in Batches, NEW landed \in BOOLEAN, SendApproved(u, landed)
      PROVE  pc = "deliver"
  <2>1. upto \in Batches /\ ~InHand(upto)
    BY ReplyOfTheTurn DEF Shows
  <2>2. reply'[upto] = reply[upto]
    BY <1>19, <2>1 DEF SendApproved, InHand, ReplyType
  <2> QED
    BY <2>2 DEF Shows
<1>20. ASSUME NEW stale \in SUBSET Batches, ExpireStaleDrafts(stale) PROVE pc = "deliver"
  <2>1. upto \in Batches /\ ~reply[upto].known /\ reply[upto].times = 0
    BY ReplyOfTheTurn DEF Shows
  <2>2. reply'[upto].known = reply[upto].known /\ reply'[upto].times = reply[upto].times
    BY <1>20, <2>1 DEF ExpireStaleDrafts, ReplyType
  <2> QED
    BY <2>1, <2>2 DEF Shows
<1>21. CASE GuestWrites
  BY <1>21 DEF Shows, GuestWrites, dbVars, loopVars, turnVars, restVars
<1>22. ASSUME NEW k \in Telling, StaffTells(k) PROVE pc = "deliver"
  BY <1>22 DEF Shows, StaffTells, Happens, dbVars, loopVars, turnVars, restVars
<1>23. CASE TakeOver
  BY <1>23 DEF Shows, TakeOver, dbVars, loopVars, turnVars, restVars
<1>24. CASE HandBack
  BY <1>24 DEF Shows, HandBack, dbVars, loopVars, turnVars, restVars
<1>25. CASE ModelThrows
  BY <1>25 DEF Shows, ModelThrows, dbVars, loopVars, turnVars, restVars
<1>26. CASE Crash
  BY <1>26 DEF Shows, Crash, dbVars, loopVars, turnVars, restVars
<1>27. CASE UNCHANGED vars
  BY <1>27 DEF Shows, vars, dbVars, loopVars, turnVars, restVars
<1> QED
  BY <1>1, <1>2, <1>3, <1>4, <1>5, <1>6, <1>7, <1>8, <1>9, <1>10, <1>11, <1>12, <1>13,
     <1>14, <1>15, <1>16, <1>17, <1>18, <1>19, <1>20, <1>21, <1>22, <1>23, <1>24, <1>25,
     <1>26, <1>27
     DEF Next, BeginStep, ToolStep, GuardrailStep, Answering, ClaimedStep, DraftStep, WorldStep,
         FaultStep

(***************************************************************************)
(* The inductive invariant, and what follows from it.                      *)
(***************************************************************************)
Inv ==
  /\ CounterType /\ SetType /\ RecordType /\ ReplyType
  /\ Turn
  /\ Replied /\ Struck
  /\ RowsTell /\ LoopIsTrue /\ Backing /\ Paging

(* It holds at the start, and every step keeps it. *)
LEMMA InitInv == Init => Inv
<1> SUFFICES ASSUME Init PROVE Inv
  OBVIOUS
<1>1. CounterType
  BY ConstantsAssumption DEF Init, CounterType
<1>2. SetType
  BY DEF Init, SetType
<1>3. RecordType
  BY DEF Init, RecordType, Nobody, NoClaim, NothingCarried
<1>4. ReplyType
  BY DEF Init, ReplyType, NoReply
<1>5. Turn /\ RowsTell /\ LoopIsTrue /\ Backing /\ Paging
  BY DEF Init, Turn, RowsTell, LoopIsTrue, Backing, Paging, Sending
<1>6. Replied /\ Struck
  BY DEF Init, Replied, RepliedOf, InHand, Unseen, Struck, NoReply
<1> QED
  BY <1>1, <1>2, <1>3, <1>4, <1>5, <1>6 DEF Inv

(* Each part is kept by a lemma of its own. *)
LEMMA NextInv == Inv /\ [Next]_vars => Inv'
<1> SUFFICES ASSUME Inv, [Next]_vars PROVE Inv'
  OBVIOUS
<1> QED
  BY CounterStep, SetStep, RecordStep, ReplyStep, TurnStep, RepliedStep, StruckStep, RowsStep,
     LoopStep, SendingStep DEF Inv

(* The inductive invariant: what the turn rests on is true, at each of its steps. *)
THEOREM Inductive == Spec => []Inv
<1> QED
  BY InitInv, NextInv, PTL DEF Spec

(* Every variable of the replies keeps to its type. *)
THEOREM TypeCorrect == Spec => []TypeOK
<1>1. Inv => TypeOK
  BY DEF Inv, CounterType, SetType, RecordType, ReplyType, TypeOK
<1> QED
  BY <1>1, Inductive, PTL

(* No batch is answered twice, and no draft goes out that nobody approved.  *)
THEOREM OneReplySafe == Spec => []OneReplyPerBatch
<1>1. Inv => OneReplyPerBatch
  BY DEF Inv, Replied, RepliedOf, OneReplyPerBatch
<1> QED
  BY <1>1, Inductive, PTL

(* A guest's mistake costs one strike. *)
THEOREM OneStrikeSafe == Spec => []OneStrikePerBatch
<1>1. Inv => OneStrikePerBatch
  BY DEF Inv, CounterType, Batches, Struck, OneStrikePerBatch
<1> QED
  BY <1>1, Inductive, PTL

(* No reply claims what has not happened, for every vocabulary of drafts.   *)
THEOREM ClaimsBackedSafe == Spec => ClaimsAreBacked
<1>1. Inv /\ [Next]_vars => [Shows => Backed(out)]_vars
  <2> SUFFICES ASSUME Inv, [Next]_vars, Shows PROVE Backed(out)
    OBVIOUS
  <2>1. pc = "deliver"
    BY OnlyDeliverShows DEF Inv
  <2> QED
    BY <2>1 DEF Inv, Backing, Sending
<1> QED
  BY <1>1, Inductive, PTL DEF Spec, ClaimsAreBacked

(* No guest reads that the team is being brought in, nor anything about a   *)
(* booking that a human must see, before the page was made.                 *)
THEOREM ReferralSafe == Spec => ReferralIsMade
<1>1. Inv /\ [Next]_vars => [Shows => Told]_vars
  <2> SUFFICES ASSUME Inv, [Next]_vars, Shows PROVE Told
    OBVIOUS
  <2>1. pc = "deliver" /\ pages = <<>>
    BY OnlyDeliverShows DEF Inv, Turn
  <2>2. ~Waits("booking_undescribable")
    BY <2>1 DEF Waits
  <2> QED
    BY <2>1, <2>2 DEF Inv, Paging, Sending, Told
<1> QED
  BY <1>1, Inductive, PTL DEF Spec, ReferralIsMade

=============================================================================
