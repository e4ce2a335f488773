-------------------------- MODULE SendLedgerProofs --------------------------
(***************************************************************************)
(* Theorems about the send-intent ledger, for every number of rows, of     *)
(* attempts and of crashes, and whichever dispatches may outlast the       *)
(* sweep's cutoff.                                                         *)
(***************************************************************************)
EXTENDS SendLedger, TLAPS

(* TypeOK, IdCustody and FailureStaysHealable are inductive together.      *)
Inv == TypeOK /\ IdCustody /\ FailureStaysHealable

(* The rank of every status, so that the provers need not open the record. *)
LEMMA Ranks ==
  /\ RankOf["none"] = 0 /\ RankOf["queued"] = 1 /\ RankOf["sent"] = 2
  /\ RankOf["failed"] = 3 /\ RankOf["delivered"] = 4 /\ RankOf["read"] = 5
  /\ \A s \in Statuses : RankOf[s] \in 0 .. 5
BY DEF RankOf, Statuses

(* The initial states are well typed. *)
LEMMA InitTypeOK == Init => TypeOK
BY MaxTriesAssumption, MaxCrashesAssumption
   DEF Init, TypeOK, Statuses, Live, Attempts

(* The guarded queued -> sent UPDATE writes a status and an id. *)
LEMMA WriteSentType ==
  ASSUME TypeOK, NEW m \in Msgs, WriteSent(m)
  PROVE  status' \in [Msgs -> Statuses] /\ waId' \in [Msgs -> 0 .. MaxTries]
<1>1. CASE status[m] = "queued"
  BY <1>1 DEF WriteSent, TypeOK, Statuses
<1>2. CASE status[m] # "queued"
  BY <1>2 DEF WriteSent, TypeOK
<1> QED
  BY <1>1, <1>2

(* Every step keeps the types. *)
LEMMA NextTypeOK == TypeOK /\ [Next]_vars => TypeOK'
<1> SUFFICES ASSUME TypeOK, [Next]_vars PROVE TypeOK'
  OBVIOUS
<1> USE MaxTriesAssumption, MaxCrashesAssumption
    DEF TypeOK, Statuses, Live, Attempts, row, dispatcher
<1>1. ASSUME NEW m \in Msgs, CreateSendIntent(m) PROVE TypeOK'
  BY <1>1 DEF CreateSendIntent
<1>2. ASSUME NEW m \in Msgs, Dispatch(m) PROVE TypeOK'
  <2>1. CASE Post(m)
    BY <2>1 DEF Post
  <2>2. CASE Timeout(m)
    BY <2>2 DEF Timeout, Fail
  <2>3. CASE Receive5xx(m)
    <3>1. CASE pc' = [pc EXCEPT ![m] = "ready"] /\ UNCHANGED verdict
      BY <2>3, <3>1 DEF Receive5xx
    <3>2. CASE \E v \in {"retryable", "permanent"} : Fail(m, v)
      BY <2>3, <3>2 DEF Receive5xx, Fail
    <3> QED
      BY <2>3, <3>1, <3>2 DEF Receive5xx
  <2>4. CASE ReceiveRejected(m)
    BY <2>4 DEF ReceiveRejected, Fail
  <2>5. CASE ReceiveAccepted(m)
    BY <2>5 DEF ReceiveAccepted
  <2>6. CASE ReceiveNoId(m)
    BY <2>6 DEF ReceiveNoId, Fail
  <2>7. CASE SettleSent(m)
    BY <2>7, WriteSentType DEF SettleSent
  <2>8. CASE SettleThrows(m)
    <3>1. status' \in [Msgs -> Statuses] /\ waId' \in [Msgs -> 0 .. MaxTries]
      BY <2>8, WriteSentType DEF SettleThrows
    <3> QED
      BY <2>8, <3>1 DEF SettleThrows, Fail
  <2>9. CASE FailSend(m)
    BY <2>9 DEF FailSend
  <2>10. CASE FailSendThrows(m)
    BY <2>10 DEF FailSendThrows
  <2> QED
    BY <1>2, <2>1, <2>2, <2>3, <2>4, <2>5, <2>6, <2>7, <2>8, <2>9, <2>10 DEF Dispatch
<1>3. ASSUME NEW m \in Msgs, Age(m) PROVE TypeOK'
  BY <1>3 DEF Age
<1>4. ASSUME NEW m \in Msgs, NEW k \in Attempts, Graph(m, k) PROVE TypeOK'
  BY <1>4 DEF Graph
<1>5. ASSUME NEW m \in Msgs, NEW k \in Attempts, NEW s \in OutboundStatuses,
             ApplyStatusUpdate(m, k, s)
      PROVE  TypeOK'
  <2>1. RankOf[s] \in 0 .. 5 /\ s \in Statuses
    BY Ranks DEF OutboundStatuses
  <2>2. status' \in [Msgs -> Statuses] /\ unconfirmed' \in [Msgs -> BOOLEAN]
    BY <1>5, <2>1 DEF ApplyStatusUpdate
  <2> QED
    BY <1>5, <2>2 DEF ApplyStatusUpdate
<1>6. CASE ReconcileStaleSends
  BY <1>6 DEF ReconcileStaleSends
<1>7. CASE Crash
  BY <1>7 DEF Crash
<1>8. CASE UNCHANGED vars
  BY <1>8 DEF vars
<1> QED
  BY <1>1, <1>2, <1>3, <1>4, <1>5, <1>6, <1>7, <1>8 DEF Next

-----------------------------------------------------------------------------
(* The initial states satisfy the invariant. *)
LEMMA InitInv == Init => Inv
BY InitTypeOK DEF Init, Inv, IdCustody, Custody, FailureStaysHealable, Healable, ShownInTranscript

(***************************************************************************)
(* Every step keeps it.  The rows are independent, so that each case fixes *)
(* the row n the invariant is about and the row m that steps.              *)
(***************************************************************************)
LEMMA NextInv == Inv /\ [Next]_vars => Inv'
<1> SUFFICES ASSUME Inv, [Next]_vars PROVE IdCustody' /\ FailureStaysHealable'
  BY NextTypeOK DEF Inv
<1>t. TypeOK /\ TypeOK'
  BY NextTypeOK DEF Inv
<1> USE DEF Inv, IdCustody, Custody, FailureStaysHealable, Healable, ShownInTranscript,
        row, dispatcher
<1>1. ASSUME NEW m \in Msgs, CreateSendIntent(m)
      PROVE  IdCustody' /\ FailureStaysHealable'
  BY <1>t, <1>1 DEF CreateSendIntent, TypeOK
<1>2. ASSUME NEW m \in Msgs, Dispatch(m)
      PROVE  IdCustody' /\ FailureStaysHealable'
  <2>1. CASE Post(m)
    BY <1>t, <2>1 DEF Post, TypeOK, Attempts
  <2>2. CASE Timeout(m)
    BY <1>t, <2>2 DEF Timeout, Fail, TypeOK
  <2>3. CASE Receive5xx(m)
    <3>1. CASE pc' = [pc EXCEPT ![m] = "ready"]
      BY <1>t, <2>3, <3>1 DEF Receive5xx, TypeOK
    <3>2. CASE \E v \in {"retryable", "permanent"} : Fail(m, v)
      BY <1>t, <2>3, <3>2 DEF Receive5xx, Fail, TypeOK
    <3> QED
      BY <2>3, <3>1, <3>2 DEF Receive5xx
  <2>4. CASE ReceiveRejected(m)
    BY <1>t, <2>4 DEF ReceiveRejected, Fail, TypeOK
  <2>5. CASE ReceiveAccepted(m)
    <3> SUFFICES ASSUME NEW n \in Msgs PROVE Custody(n)' /\ Healable(n)'
      BY DEF IdCustody, FailureStaysHealable
    <3>1. CASE n = m
      BY <1>t, <2>5, <3>1 DEF ReceiveAccepted, TypeOK
    <3>2. CASE n # m
      BY <1>t, <2>5, <3>2 DEF ReceiveAccepted, TypeOK
    <3> QED
      BY <3>1, <3>2
  <2>6. CASE ReceiveNoId(m)
    BY <1>t, <2>6 DEF ReceiveNoId, Fail, TypeOK
  <2>7. CASE SettleSent(m)
    <3> SUFFICES ASSUME NEW n \in Msgs PROVE Custody(n)' /\ Healable(n)'
      BY DEF IdCustody, FailureStaysHealable
    <3>1. CASE n = m
      BY <1>t, <2>7, <3>1 DEF SettleSent, WriteSent, TypeOK
    <3>2. CASE n # m
      BY <1>t, <2>7, <3>2 DEF SettleSent, WriteSent, TypeOK
    <3> QED
      BY <3>1, <3>2
  <2>8. CASE SettleThrows(m)
    <3>1. CASE WriteSent(m)
      <4> SUFFICES ASSUME NEW n \in Msgs PROVE Custody(n)' /\ Healable(n)'
        BY DEF IdCustody, FailureStaysHealable
      <4>1. CASE n = m
        BY <1>t, <2>8, <3>1, <4>1 DEF SettleThrows, WriteSent, Fail, TypeOK
      <4>2. CASE n # m
        BY <1>t, <2>8, <3>1, <4>2 DEF SettleThrows, WriteSent, Fail, TypeOK
      <4> QED
        BY <4>1, <4>2
    <3>2. CASE UNCHANGED <<status, waId>>
      BY <1>t, <2>8, <3>2 DEF SettleThrows, Fail, TypeOK
    <3> QED
      BY <2>8, <3>1, <3>2 DEF SettleThrows
  <2>9. CASE FailSend(m)
    <3> SUFFICES ASSUME NEW n \in Msgs PROVE Custody(n)' /\ Healable(n)'
      BY DEF IdCustody, FailureStaysHealable
    <3>1. CASE n = m
      BY <1>t, <2>9, <3>1 DEF FailSend, TypeOK
    <3>2. CASE n # m
      BY <1>t, <2>9, <3>2 DEF FailSend, TypeOK
    <3> QED
      BY <3>1, <3>2
  <2>10. CASE FailSendThrows(m)
    BY <1>t, <2>10 DEF FailSendThrows, TypeOK
  <2> QED
    BY <1>2, <2>1, <2>2, <2>3, <2>4, <2>5, <2>6, <2>7, <2>8, <2>9, <2>10 DEF Dispatch
<1>3. ASSUME NEW m \in Msgs, Age(m) PROVE IdCustody' /\ FailureStaysHealable'
  BY <1>t, <1>3 DEF Age, TypeOK, Live
<1>4. ASSUME NEW m \in Msgs, NEW k \in Attempts, Graph(m, k)
      PROVE  IdCustody' /\ FailureStaysHealable'
  BY <1>t, <1>4 DEF Graph, TypeOK
<1>5. ASSUME NEW m \in Msgs, NEW k \in Attempts, NEW s \in OutboundStatuses,
             ApplyStatusUpdate(m, k, s)
      PROVE  IdCustody' /\ FailureStaysHealable'
  <2>1. CASE waId[m] = k /\ RankOf[status[m]] < RankOf[s]
    <3>1. waId[m] # 0 /\ waId[m] = heldId[m] /\ pc[m] \notin {"idle", "ready", "waiting", "gotId"}
      BY <2>1 DEF Attempts
    <3>2. \A n \in Msgs \ {m} : status'[n] = status[n] /\ (unconfirmed'[n] <=> unconfirmed[n])
      BY <2>1, <1>5 DEF ApplyStatusUpdate, TypeOK
    <3>3. status'[m] = s /\ UNCHANGED <<waId, old, pc, tries, heldId, req>>
      BY <2>1, <1>5 DEF ApplyStatusUpdate, TypeOK, dispatcher
    <3> QED
      BY <3>1, <3>2, <3>3 DEF OutboundStatuses
  <2>2. CASE ~(waId[m] = k /\ RankOf[status[m]] < RankOf[s])
    BY <2>2, <1>5 DEF ApplyStatusUpdate
  <2> QED
    BY <2>1, <2>2
<1>6. CASE ReconcileStaleSends
  BY <1>t, <1>6 DEF ReconcileStaleSends, Stranded, TypeOK
<1>7. CASE Crash
  BY <1>t, <1>7 DEF Crash, TypeOK, Live
<1>8. CASE UNCHANGED vars
  BY <1>8 DEF vars
<1> QED
  BY <1>1, <1>2, <1>3, <1>4, <1>5, <1>6, <1>7, <1>8 DEF Next

(* The ledger's reachable states all satisfy the invariant. *)
THEOREM InvHolds == Spec => []Inv
BY InitInv, NextInv, PTL DEF Spec

(* Every variable keeps to its type. *)
THEOREM TypeCorrect == Spec => []TypeOK
BY InvHolds, PTL DEF Inv

(* What the model is shown as said was accepted by Meta under the row's id. *)
THEOREM TranscriptSafe == Spec => []TranscriptIsReal
<1>1. Inv => TranscriptIsReal
  BY DEF Inv, TypeOK, IdCustody, Custody, TranscriptIsReal, Accepted, Attempts
<1> QED
  BY <1>1, InvHolds, PTL

(* A failed row whose dispatch held an id carries it, or says unconfirmed.  *)
THEOREM HealableSafe == Spec => []FailureStaysHealable
BY InvHolds, PTL DEF Inv

(* The attempt whose acceptance was read is the last one posted.            *)
THEOREM AnsweredLastSafe == Spec => []AnsweredAttemptIsLast
<1>1. Inv => AnsweredAttemptIsLast
  BY DEF Inv, IdCustody, Custody, AnsweredAttemptIsLast
<1> QED
  BY <1>1, InvHolds, PTL

-----------------------------------------------------------------------------
(* The body of StatusOnlyClimbs, and of NeverResent, for one step.          *)
Climbs ==
  \A m \in Msgs : /\ RankOf[status[m]] <= RankOf[status'[m]]
                  /\ waId[m] # 0 => waId'[m] = waId[m]
NoResend ==
  \A m \in Msgs \ Slow : tries'[m] # tries[m] => status[m] = "queued" /\ pc[m] \in Live

(* A step that leaves the row's status and id alone climbs by standing still. *)
LEMMA StandStill == TypeOK /\ UNCHANGED <<status, waId>> => Climbs
BY Ranks DEF TypeOK, Climbs

(* A step that writes one row climbs if its new status ranks no lower and   *)
(* its old id, if any, is kept.                                             *)
LEMMA OneRowClimbs ==
  ASSUME TypeOK, NEW m \in Msgs,
         \A n \in Msgs \ {m} : status'[n] = status[n] /\ waId'[n] = waId[n],
         RankOf[status[m]] <= RankOf[status'[m]],
         waId[m] # 0 => waId'[m] = waId[m]
  PROVE  Climbs
<1> SUFFICES ASSUME NEW n \in Msgs
             PROVE  RankOf[status[n]] <= RankOf[status'[n]] /\ (waId[n] # 0 => waId'[n] = waId[n])
  BY DEF Climbs
<1>1. CASE n = m
  BY <1>1
<1>2. CASE n # m
  <2>1. RankOf[status[n]] \in 0 .. 5
    BY Ranks DEF TypeOK
  <2> QED
    BY <1>2, <2>1
<1> QED
  BY <1>1, <1>2

(***************************************************************************)
(* No settle, sweep or webhook lowers a status: the settles and the sweep  *)
(* act on queued only, and a webhook applies a higher rank only.  The id   *)
(* is written only from queued, where Custody says there is none.          *)
(***************************************************************************)
LEMMA StepClimbs == Inv /\ [Next]_vars => Climbs
<1> SUFFICES ASSUME Inv, [Next]_vars PROVE Climbs
  OBVIOUS
<1>t. TypeOK
  BY DEF Inv
<1>c. \A n \in Msgs : status[n] \in {"none", "queued"} => waId[n] = 0
  BY DEF Inv, IdCustody, Custody
<1>1. ASSUME NEW m \in Msgs, CreateSendIntent(m) PROVE Climbs
  <2>1. status[m] = "none" /\ status' = [status EXCEPT ![m] = "queued"] /\ waId' = waId
    BY <1>1 DEF CreateSendIntent, Inv, IdCustody, Custody
  <2>2. status'[m] = "queued" /\ \A n \in Msgs \ {m} : status'[n] = status[n]
    BY <1>t, <2>1 DEF TypeOK
  <2> QED
    BY <1>t, <2>1, <2>2, Ranks, OneRowClimbs
<1>2. ASSUME NEW m \in Msgs, WriteSent(m) PROVE Climbs
  <2>1. CASE status[m] = "queued"
    <3>1. status'[m] = "sent" /\ \A n \in Msgs \ {m} : status'[n] = status[n] /\ waId'[n] = waId[n]
      BY <1>t, <1>2, <2>1 DEF WriteSent, TypeOK
    <3> QED
      BY <1>t, <1>c, <2>1, <3>1, Ranks, OneRowClimbs
  <2>2. CASE status[m] # "queued"
    BY <1>t, <1>2, <2>2, StandStill DEF WriteSent
  <2> QED
    BY <2>1, <2>2
<1>3. ASSUME NEW m \in Msgs, FailSend(m) PROVE Climbs
  <2>1. CASE status[m] = "queued"
    <3>1. status'[m] = "failed" /\ \A n \in Msgs \ {m} : status'[n] = status[n] /\ waId'[n] = waId[n]
      BY <1>t, <1>3, <2>1 DEF FailSend, TypeOK
    <3> QED
      BY <1>t, <1>c, <2>1, <3>1, Ranks, OneRowClimbs
  <2>2. CASE status[m] # "queued"
    BY <1>t, <1>3, <2>2, StandStill DEF FailSend
  <2> QED
    BY <2>1, <2>2
<1>4. ASSUME NEW m \in Msgs, Dispatch(m) PROVE Climbs
  BY <1>t, <1>2, <1>3, <1>4, StandStill
     DEF Dispatch, Post, Timeout, Receive5xx, ReceiveRejected, ReceiveAccepted,
         ReceiveNoId, SettleSent, SettleThrows, FailSendThrows, row
<1>5. ASSUME NEW m \in Msgs, NEW k \in Attempts, NEW s \in OutboundStatuses,
             ApplyStatusUpdate(m, k, s)
      PROVE  Climbs
  <2>1. CASE waId[m] = k /\ RankOf[status[m]] < RankOf[s]
    <3>1. status'[m] = s /\ waId' = waId /\ \A n \in Msgs \ {m} : status'[n] = status[n]
      BY <1>t, <1>5, <2>1 DEF ApplyStatusUpdate, TypeOK
    <3>2. RankOf[status[m]] \in 0 .. 5 /\ RankOf[s] \in 0 .. 5
      BY <1>t, Ranks DEF TypeOK, OutboundStatuses, Statuses
    <3> QED
      BY <1>t, <2>1, <3>1, <3>2, OneRowClimbs
  <2>2. CASE ~(waId[m] = k /\ RankOf[status[m]] < RankOf[s])
    BY <1>t, <1>5, <2>2, StandStill DEF ApplyStatusUpdate
  <2> QED
    BY <2>1, <2>2
<1>6. CASE ReconcileStaleSends
  <2> SUFFICES ASSUME NEW n \in Msgs PROVE RankOf[status[n]] <= RankOf[status'[n]]
    BY <1>6 DEF ReconcileStaleSends, Climbs
  <2>1. status'[n] = IF Stranded(n) THEN "failed" ELSE status[n]
    BY <1>6 DEF ReconcileStaleSends
  <2>2. RankOf[status[n]] \in 0 .. 5
    BY <1>t, Ranks DEF TypeOK
  <2> QED
    BY <2>1, <2>2, Ranks DEF Stranded
<1>7. ASSUME \/ \E m \in Msgs : Age(m)
             \/ \E m \in Msgs, k \in Attempts : Graph(m, k)
             \/ Crash
             \/ UNCHANGED vars
      PROVE  Climbs
  BY <1>t, <1>7, StandStill DEF Age, Graph, Crash, vars, row
<1> QED
  BY <1>1, <1>4, <1>5, <1>6, <1>7 DEF Next

(* Statuses only climb, and a written wa id is never changed.               *)
THEOREM StatusOnlyClimbsSafe == Spec => StatusOnlyClimbs
<1>1. Inv /\ [Next]_vars => [Climbs]_vars
  BY StepClimbs
<1> QED
  BY <1>1, InvHolds, PTL DEF Spec, StatusOnlyClimbs, Climbs

(* Only Post touches tries, and Custody says what its row is then.          *)
LEMMA StepNoResend == Inv /\ [Next]_vars => NoResend
<1> SUFFICES ASSUME Inv, [Next]_vars, NEW n \in Msgs \ Slow, tries'[n] # tries[n]
             PROVE  status[n] = "queued" /\ pc[n] \in Live
  BY DEF NoResend
<1>d. ASSUME NEW m \in Msgs, Dispatch(m) PROVE Post(m) \/ UNCHANGED tries
  BY <1>d DEF Dispatch, Timeout, Receive5xx, ReceiveRejected, ReceiveAccepted, ReceiveNoId,
              SettleSent, SettleThrows, FailSend, FailSendThrows
<1>e. ASSUME NEW m \in Msgs, CreateSendIntent(m) \/ Age(m) PROVE UNCHANGED tries
  BY <1>e DEF CreateSendIntent, Age, dispatcher
<1>f. ASSUME NEW m \in Msgs, NEW k \in Attempts,
             \/ Graph(m, k)
             \/ \E s \in OutboundStatuses : ApplyStatusUpdate(m, k, s)
      PROVE  UNCHANGED tries
  BY <1>f DEF Graph, ApplyStatusUpdate, dispatcher
<1>g. ReconcileStaleSends \/ Crash \/ UNCHANGED vars => UNCHANGED tries
  BY DEF ReconcileStaleSends, Crash, vars, dispatcher
<1>1. PICK m \in Msgs : Post(m)
  BY <1>d, <1>e, <1>f, <1>g DEF Next
<1>2. n = m
  BY <1>1 DEF Post, Inv, TypeOK
<1> QED
  BY <1>1, <1>2 DEF Post, Inv, IdCustody, Custody, Live

(* A row whose dispatch does not outlast the cutoff is never resent.        *)
THEOREM NeverResentSafe == Spec => NeverResent
<1>1. Inv /\ [Next]_vars => [NoResend]_vars
  BY StepNoResend
<1> QED
  BY <1>1, InvHolds, PTL DEF Spec, NeverResent, NoResend
=============================================================================
