----------------------------- MODULE SendLedger -----------------------------
(***************************************************************************)
(* The send-intent ledger: every outbound WhatsApp message is a row of the *)
(* table messages, committed as 'queued' before the Graph call and settled *)
(* afterwards (wa/client.ts, wa/sendFailure.ts).  Around one row there are *)
(* five actors that do not wait for each other:                            *)
(*                                                                         *)
(*   - the dispatcher, an async function of the process, which posts to    *)
(*     Graph through lib/http.ts (up to MaxTries attempts) and settles;    *)
(*   - Graph itself, which may accept an attempt whose answer never        *)
(*     arrives, and may do so after the dispatcher gave up on it;          *)
(*   - Meta's status webhooks: duplicated, reordered, late, or early;      *)
(*   - the five-minute sweep over stranded rows (wa/sendReconcile.ts);     *)
(*   - the platform, which may kill the process at any point.              *)
(***************************************************************************)
EXTENDS Integers, FiniteSets

CONSTANTS
  Msgs,           (* Message rows. *)
  MaxTries,       (* MAX_TRIES of lib/http.ts. *)
  MaxCrashes,     (* Bounds the process deaths of one behaviour. *)
  Slow            (* Rows whose dispatch may outlast STALE_SEND_AFTER_MS. *)

ASSUME MaxTriesAssumption == MaxTries \in Nat \ {0}
ASSUME MaxCrashesAssumption == MaxCrashes \in Nat
ASSUME SlowAssumption == Slow \subseteq Msgs

VARIABLES
  (* The row. *)
  status,         (* messages.status; "none" before the row exists. *)
  waId,           (* messages.wa_message_id: the accepted attempt; 0 is NULL. *)
  unconfirmed,    (* messages.error is the sweep's: delivery unconfirmed. *)
  old,            (* created_at is older than STALE_SEND_AFTER_MS. *)
  (* The dispatcher. *)
  pc,             (* Where the dispatch of the row stands. *)
  tries,          (* Attempts lib/http.ts has posted. *)
  heldId,         (* The local waMessageId, hoisted outside the try; 0 unset. *)
  verdict,        (* The SendResult the caller gets. *)
  (* Graph, and the platform. *)
  req,            (* What became of each attempt at Meta. *)
  crashes

row == <<status, waId, unconfirmed, old>>
dispatcher == <<pc, tries, heldId, verdict>>
vars == <<status, waId, unconfirmed, old, pc, tries, heldId, verdict, req, crashes>>

Attempts == 1 .. MaxTries

(***************************************************************************)
(* message_status as a rank lattice: failed ranks below delivered and      *)
(* read, because delivery evidence must win.                               *)
(***************************************************************************)
RankOf == [none |-> 0, queued |-> 1, sent |-> 2, failed |-> 3, delivered |-> 4, read |-> 5]

Statuses == {"none", "queued", "sent", "failed", "delivered", "read"}
OutboundStatuses == {"sent", "delivered", "read", "failed"}
Live == {"ready", "waiting", "gotId", "failing"}

TypeOK ==
  /\ status \in [Msgs -> Statuses]
  /\ waId \in [Msgs -> 0 .. MaxTries]
  /\ unconfirmed \in [Msgs -> BOOLEAN]
  /\ old \in [Msgs -> BOOLEAN]
  /\ pc \in [Msgs -> {"idle", "done", "dead"} \cup Live]
  /\ tries \in [Msgs -> 0 .. MaxTries]
  /\ heldId \in [Msgs -> 0 .. MaxTries]
  /\ verdict \in [Msgs -> {"none", "ok", "retryable", "permanent"}]
  /\ req \in [Msgs -> [Attempts -> {"unsent", "inflight", "accepted", "rejected", "error5xx"}]]
  /\ crashes \in 0 .. MaxCrashes

Init ==
  /\ status = [m \in Msgs |-> "none"]
  /\ waId = [m \in Msgs |-> 0]
  /\ unconfirmed = [m \in Msgs |-> FALSE]
  /\ old = [m \in Msgs |-> FALSE]
  /\ pc = [m \in Msgs |-> "idle"]
  /\ tries = [m \in Msgs |-> 0]
  /\ heldId = [m \in Msgs |-> 0]
  /\ verdict = [m \in Msgs |-> "none"]
  /\ req = [m \in Msgs |-> [k \in Attempts |-> "unsent"]]
  /\ crashes = 0

-----------------------------------------------------------------------------
(* The dispatcher. *)

(* createSendIntent: the row is committed before any Graph call. *)
CreateSendIntent(m) ==
  /\ pc[m] = "idle"
  /\ status' = [status EXCEPT ![m] = "queued"]
  /\ pc' = [pc EXCEPT ![m] = "ready"]
  /\ UNCHANGED <<waId, unconfirmed, old, tries, heldId, verdict, req, crashes>>

(* One attempt of the lib/http.ts loop leaves for Graph. *)
Post(m) ==
  /\ pc[m] = "ready"
  /\ tries[m] < MaxTries
  /\ tries' = [tries EXCEPT ![m] = @ + 1]
  /\ req' = [req EXCEPT ![m][tries[m] + 1] = "inflight"]
  /\ pc' = [pc EXCEPT ![m] = "waiting"]
  /\ UNCHANGED <<row, heldId, verdict, crashes>>

(* The dispatch moves on to failSend with the result its caller will see. *)
Fail(m, v) ==
  /\ pc' = [pc EXCEPT ![m] = "failing"]
  /\ verdict' = [verdict EXCEPT ![m] = v]

(* Mutant: the thrown error gets no verdict. *)
TimeoutUndecided(m) ==
  /\ pc[m] = "waiting"
  /\ \/ /\ tries[m] < MaxTries
        /\ pc' = [pc EXCEPT ![m] = "ready"]
        /\ UNCHANGED verdict
     \/ /\ tries[m] = MaxTries
        /\ Fail(m, "undecided")
  /\ UNCHANGED <<row, tries, heldId, req, crashes>>

(***************************************************************************)
(* No answer within the attempt's timeout, whatever Meta did or will do    *)
(* with it.  lib/http.ts posts again; the last attempt's error is thrown,  *)
(* and isRetryable has neither an HTTP status nor a Meta code to go by.    *)
(***************************************************************************)
Timeout(m) ==
  /\ pc[m] = "waiting"
  /\ \/ /\ tries[m] < MaxTries
        /\ pc' = [pc EXCEPT ![m] = "ready"]
        /\ UNCHANGED verdict
     \/ /\ tries[m] = MaxTries
        /\ Fail(m, "retryable")
  /\ UNCHANGED <<row, tries, heldId, req, crashes>>

(* A 5xx is retried; the last one is returned and carries a code or none. *)
Receive5xx(m) ==
  /\ pc[m] = "waiting"
  /\ req[m][tries[m]] = "error5xx"
  /\ \/ /\ tries[m] < MaxTries
        /\ pc' = [pc EXCEPT ![m] = "ready"]
        /\ UNCHANGED verdict
     \/ /\ tries[m] = MaxTries
        /\ \E v \in {"retryable", "permanent"} : Fail(m, v)
  /\ UNCHANGED <<row, tries, heldId, req, crashes>>

(* A 4xx is an answer: final for lib/http.ts, classed by Meta's code. *)
ReceiveRejected(m) ==
  /\ pc[m] = "waiting"
  /\ req[m][tries[m]] = "rejected"
  /\ \E v \in {"retryable", "permanent"} : Fail(m, v)
  /\ UNCHANGED <<row, tries, heldId, req, crashes>>

(* A 2xx with a message id. *)
ReceiveAccepted(m) ==
  /\ pc[m] = "waiting"
  /\ req[m][tries[m]] = "accepted"
  /\ heldId' = [heldId EXCEPT ![m] = tries[m]]
  /\ pc' = [pc EXCEPT ![m] = "gotId"]
  /\ UNCHANGED <<row, tries, verdict, req, crashes>>

(* A 2xx whose body has no message id: it may have reached the guest. *)
ReceiveNoId(m) ==
  /\ pc[m] = "waiting"
  /\ req[m][tries[m]] = "accepted"
  /\ Fail(m, "permanent")
  /\ UNCHANGED <<row, tries, heldId, req, crashes>>

(* Mutant: the UPDATE leaves the id out. *)
WriteSentWithoutId(m) ==
  /\ status' = [status EXCEPT ![m] = IF @ = "queued" THEN "sent" ELSE @]
  /\ UNCHANGED waId

(* The guarded queued -> sent UPDATE; it may find the row gone from queued. *)
WriteSent(m) ==
  IF status[m] = "queued"
  THEN /\ status' = [status EXCEPT ![m] = "sent"]
       /\ waId' = [waId EXCEPT ![m] = heldId[m]]
  ELSE UNCHANGED <<status, waId>>

SettleSent(m) ==
  /\ pc[m] = "gotId"
  /\ WriteSent(m)
  /\ pc' = [pc EXCEPT ![m] = "done"]
  /\ verdict' = [verdict EXCEPT ![m] = "ok"]
  /\ UNCHANGED <<unconfirmed, old, tries, heldId, req, crashes>>

(* The UPDATE throws - before it commits, or after, its answer being lost. *)
SettleThrows(m) ==
  /\ pc[m] = "gotId"
  /\ WriteSent(m) \/ UNCHANGED <<status, waId>>
  /\ Fail(m, "permanent")
  /\ UNCHANGED <<unconfirmed, old, tries, heldId, req, crashes>>

(* Mutant: the id Meta gave is not kept on failure. *)
FailSendDropsId(m) ==
  /\ pc[m] = "failing"
  /\ IF status[m] = "queued"
     THEN /\ status' = [status EXCEPT ![m] = "failed"]
          /\ unconfirmed' = [unconfirmed EXCEPT ![m] = FALSE]
     ELSE UNCHANGED <<status, unconfirmed>>
  /\ pc' = [pc EXCEPT ![m] = "done"]
  /\ UNCHANGED <<waId, old, tries, heldId, verdict, req, crashes>>

(* failSend: guarded on queued, and keeps the wa id whenever there is one. *)
FailSend(m) ==
  /\ pc[m] = "failing"
  /\ IF status[m] = "queued"
     THEN /\ status' = [status EXCEPT ![m] = "failed"]
          /\ unconfirmed' = [unconfirmed EXCEPT ![m] = FALSE]
          /\ waId' = [waId EXCEPT ![m] = IF heldId[m] = 0 THEN @ ELSE heldId[m]]
     ELSE UNCHANGED <<status, unconfirmed, waId>>
  /\ pc' = [pc EXCEPT ![m] = "done"]
  /\ UNCHANGED <<old, tries, heldId, verdict, req, crashes>>

(* failSend swallows its own database error: the row stays queued. *)
FailSendThrows(m) ==
  /\ pc[m] = "failing"
  /\ pc' = [pc EXCEPT ![m] = "done"]
  /\ UNCHANGED <<row, tries, heldId, verdict, req, crashes>>

Dispatch(m) ==
  \/ Post(m) \/ Timeout(m) \/ Receive5xx(m) \/ ReceiveRejected(m)
  \/ ReceiveAccepted(m) \/ ReceiveNoId(m)
  \/ SettleSent(m) \/ SettleThrows(m) \/ FailSend(m) \/ FailSendThrows(m)

-----------------------------------------------------------------------------
(* Graph, its webhooks, the sweep, and the platform. *)

(* Meta judges an attempt, whether or not anyone still waits for it. *)
Graph(m, k) ==
  /\ req[m][k] = "inflight"
  /\ \E o \in {"accepted", "rejected", "error5xx"} : req' = [req EXCEPT ![m][k] = o]
  /\ UNCHANGED <<row, dispatcher, crashes>>

(* Mutant: the last webhook to come wins, whatever its rank. *)
ApplyStatusUpdateUnranked(m, k, s) ==
  /\ req[m][k] = "accepted"
  /\ IF waId[m] = k
     THEN /\ status' = [status EXCEPT ![m] = s]
          /\ unconfirmed' = [unconfirmed EXCEPT ![m] = FALSE]
     ELSE UNCHANGED <<status, unconfirmed>>
  /\ UNCHANGED <<waId, old, dispatcher, req, crashes>>

(***************************************************************************)
(* applyStatusUpdate for one status webhook about attempt k.  It keys on   *)
(* wa_message_id, so it finds the row only when k is the id on file, and   *)
(* applies only a higher rank.                                             *)
(***************************************************************************)
ApplyStatusUpdate(m, k, s) ==
  /\ req[m][k] = "accepted"
  /\ IF waId[m] = k /\ RankOf[status[m]] < RankOf[s]
     THEN /\ status' = [status EXCEPT ![m] = s]
          /\ unconfirmed' = [unconfirmed EXCEPT ![m] = FALSE]
     ELSE UNCHANGED <<status, unconfirmed>>
  /\ UNCHANGED <<waId, old, dispatcher, req, crashes>>

(* Ten minutes pass over a row.  A live dispatch outlasts them only if it  *)
(* is slow: three attempts of ten seconds fit twenty times.                *)
Age(m) ==
  /\ status[m] # "none"
  /\ ~old[m]
  /\ m \in Slow \/ pc[m] \notin Live
  /\ old' = [old EXCEPT ![m] = TRUE]
  /\ UNCHANGED <<status, waId, unconfirmed, dispatcher, req, crashes>>

(* Mutant: the sweep looks for rows with an id. *)
StrandedWithId(m) == status[m] = "queued" /\ old[m] /\ waId[m] # 0

Stranded(m) == status[m] = "queued" /\ old[m]

(* Mutant: the sweep hands the stranded rows back to the dispatcher. *)
ReconcileByResending ==
  /\ \E m \in Msgs : Stranded(m)
  /\ status' = [m \in Msgs |-> IF Stranded(m) THEN "failed" ELSE status[m]]
  /\ pc' = [m \in Msgs |-> IF Stranded(m) THEN "ready" ELSE pc[m]]
  /\ UNCHANGED <<waId, unconfirmed, old, tries, heldId, verdict, req, crashes>>

(* reconcileStaleSends: one UPDATE over every stranded row; never a resend. *)
ReconcileStaleSends ==
  /\ \E m \in Msgs : Stranded(m)
  /\ status' = [m \in Msgs |-> IF Stranded(m) THEN "failed" ELSE status[m]]
  /\ unconfirmed' = [m \in Msgs |-> Stranded(m) \/ unconfirmed[m]]
  /\ UNCHANGED <<waId, old, dispatcher, req, crashes>>

(* The process dies; nothing resumes the dispatches it was running. *)
Crash ==
  /\ crashes < MaxCrashes
  /\ crashes' = crashes + 1
  /\ pc' = [m \in Msgs |-> IF pc[m] \in Live THEN "dead" ELSE pc[m]]
  /\ UNCHANGED <<row, tries, heldId, verdict, req>>

Next ==
  \/ \E m \in Msgs : CreateSendIntent(m) \/ Dispatch(m) \/ Age(m)
  \/ \E m \in Msgs, k \in Attempts : Graph(m, k)
  \/ \E m \in Msgs, k \in Attempts, s \in OutboundStatuses : ApplyStatusUpdate(m, k, s)
  \/ ReconcileStaleSends
  \/ Crash

Spec == Init /\ [][Next]_vars

(***************************************************************************)
(* A live dispatch always takes its next step (its waits have timeouts),   *)
(* the clock runs, and the sweep is a cron whose next tick is its retry.   *)
(* Callers, Meta and crashes owe nothing.                                  *)
(***************************************************************************)
FairSpec ==
  /\ Spec
  /\ \A m \in Msgs : WF_vars(Dispatch(m)) /\ WF_vars(Age(m))
  /\ WF_vars(ReconcileStaleSends)

-----------------------------------------------------------------------------
(* Properties. *)

Accepted(m) == {k \in Attempts : req[m][k] = "accepted"}
ShownInTranscript(m) == status[m] \in {"sent", "delivered", "read"}

(* getRecentMessages replays only sent, delivered and read rows to the     *)
(* model as things the guest was told.  Whatever the order of settle,      *)
(* sweep, crash and webhooks, Meta has accepted such a row under its id.   *)
TranscriptIsReal ==
  \A m \in Msgs : ShownInTranscript(m) => waId[m] \in Accepted(m)

(* failSend writes the wa id on failure whenever Meta gave one, so that a  *)
(* later webhook can heal the row: a failed row whose dispatch held an id  *)
(* carries it, or else it tells ops that delivery is unconfirmed.          *)
Healable(m) ==
  status[m] = "failed" /\ heldId[m] # 0 => waId[m] = heldId[m] \/ unconfirmed[m]

FailureStaysHealable == \A m \in Msgs : Healable(m)

(* Delivery evidence outranks failure and no settle, sweep or webhook      *)
(* moves a row down the lattice; once written, the wa id never changes.    *)
StatusOnlyClimbs ==
  [][\A m \in Msgs : /\ RankOf[status[m]] <= RankOf[status'[m]]
                     /\ waId[m] # 0 => waId'[m] = waId[m]]_vars

(* Crash, failure and sweep never resend: once a row is settled, or its    *)
(* dispatch is gone, no attempt leaves for Graph on its behalf - unless    *)
(* the dispatch outlasts the cutoff, and the sweep settles under it.       *)
NeverResent ==
  [][\A m \in Msgs \ Slow : tries'[m] # tries[m] => status[m] = "queued" /\ pc[m] \in Live]_vars

(* An attempt whose acceptance was read ends the lib/http.ts loop: copies  *)
(* at Meta beyond the first are attempts nobody got an answer to.          *)
AnsweredAttemptIsLast ==
  \A m \in Msgs : heldId[m] # 0 => tries[m] = heldId[m]

(***************************************************************************)
(* Who holds the wa id when.  This is the inductive invariant behind the   *)
(* safety properties above: an id is read off an accepted last attempt,    *)
(* reaches the row only from the dispatcher's hand, and reaches it exactly *)
(* when the row leaves queued by way of sent; a dispatch still posting has *)
(* no id, and its row is queued unless the sweep gave it up first.         *)
(***************************************************************************)
Custody(m) ==
  /\ heldId[m] # 0 => /\ heldId[m] = tries[m]
                      /\ req[m][heldId[m]] = "accepted"
  /\ waId[m] # 0 => waId[m] = heldId[m]
  /\ status[m] \in {"none", "queued"} => waId[m] = 0
  /\ ShownInTranscript(m) => waId[m] # 0
  /\ pc[m] = "gotId" => heldId[m] # 0
  /\ pc[m] = "idle" => status[m] = "none" /\ ~old[m] /\ heldId[m] = 0
  /\ pc[m] \in {"ready", "waiting"} => heldId[m] = 0
  /\ pc[m] = "waiting" => tries[m] # 0
  /\ pc[m] \in {"ready", "waiting", "gotId"} =>
       /\ waId[m] = 0
       /\ status[m] \in {"queued", "failed"}
       /\ status[m] = "failed" => unconfirmed[m]
  /\ m \notin Slow /\ pc[m] \in {"ready", "waiting", "gotId"} =>
       status[m] = "queued" /\ ~old[m]

IdCustody == \A m \in Msgs : Custody(m)

(* The gap the sweep closes: no row stays queued for ever.                 *)
QueuedIsResolved ==
  \A m \in Msgs : status[m] = "queued" ~> status[m] # "queued"

(* README.md: the intent row is committed before the network call, and     *)
(* "Crashes, retries and redeploys can never double-send".                 *)
NeverDoubleSent ==
  \A m \in Msgs : Cardinality(Accepted(m)) <= 1
=============================================================================
