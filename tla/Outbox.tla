-------------------------------- MODULE Outbox --------------------------------
(***************************************************************************)
(* What the scheduled messages promise a guest, without plans, sweeps,     *)
(* ticks, batches or clocks: each is offered, and then goes once or ends   *)
(* for good; nothing goes of a booking whose messages were withdrawn, and  *)
(* no marketing to a guest who does not want it.  The exceptions are part  *)
(* of the promise: a message whose failure was doubtful may go again, one  *)
(* that was put back under somebody who had asked already is not asked     *)
(* about again, and neither is the consent of a guest it was moved to.     *)
(***************************************************************************)
EXTENDS Naturals

CONSTANTS
  Sends, Guests, Bookings,
  BookingOf,        (* Of a send; not in Bookings if it has none. *)
  Marketing         (* Sends that a guest must have asked for. *)

VARIABLES
  state,            (* "none", "open", "gone" or "ended". *)
  to,               (* Whom a send is for. *)
  copies,           (* Messages that Meta has accepted. *)
  doubts,           (* Attempts that were reported as failed, and accepted. *)
  withdrawn,        (* Bookings whose messages were withdrawn. *)
  willing,          (* Guests who want marketing. *)
  moved,            (* Sends that changed hands while somebody held them. *)
  unasked           (* Sends that were put back while somebody held them. *)

obVars == <<state, to, copies, doubts, withdrawn, willing, moved, unasked>>

OBInit ==
  /\ state \in [Sends -> {"none", "open", "gone"}]
  /\ to \in [Sends -> Guests]
  /\ copies = [s \in Sends |-> IF state[s] = "gone" THEN 1 ELSE 0]
  /\ doubts = [s \in Sends |-> 0]
  /\ withdrawn = {}
  /\ willing \subseteq Guests
  /\ moved = {} /\ unasked = {}

(* Whoever held a send may let go of it at any time.                        *)
LetGo == moved' \subseteq moved /\ unasked' \subseteq unasked

Ended(S) == [s \in Sends |-> IF s \in S /\ state[s] = "open" THEN "ended" ELSE state[s]]

(* A message is offered to a guest, or an open one to another guest.        *)
Offer(s, g) ==
  /\ state[s] \in {"none", "open"}
  /\ state' = [state EXCEPT ![s] = "open"]
  /\ to' = [to EXCEPT ![s] = g]
  /\ moved' \subseteq moved \cup {s}
  /\ UNCHANGED <<copies, doubts, withdrawn, willing, unasked>>

(* Open messages are skipped, revoked, rejected or moot.                    *)
End ==
  /\ UNCHANGED <<to, copies, doubts, withdrawn, willing>>
  /\ LetGo
  /\ \E S \in SUBSET Sends : state' = Ended(S)

Withdraw(b) ==
  /\ state' = Ended({s \in Sends : BookingOf[s] = b})
  /\ withdrawn' = withdrawn \cup {b}
  /\ UNCHANGED <<to, copies, doubts, willing, moved, unasked>>

(* The booking is alive again. *)
Revive(b) ==
  /\ withdrawn' = withdrawn \ {b}
  /\ UNCHANGED <<state, to, copies, doubts, willing, moved, unasked>>

OptIn(g) ==
  /\ willing' = willing \cup {g}
  /\ UNCHANGED <<state, to, copies, doubts, withdrawn, moved, unasked>>

(* A STOP takes back what is open.                                          *)
Stop(g) ==
  /\ willing' = willing \ {g}
  /\ state' = Ended({s \in Marketing : to[s] = g})
  /\ UNCHANGED <<to, copies, doubts, withdrawn, moved, unasked>>

(* An open message goes out.                                                *)
Go(s) ==
  /\ state[s] = "open"
  /\ BookingOf[s] \in withdrawn => s \in unasked
  /\ s \in Marketing => to[s] \in willing \/ s \in moved \cup unasked
  /\ state' = [state EXCEPT ![s] = "gone"]
  /\ UNCHANGED <<to, copies, doubts, withdrawn, willing, moved, unasked>>

(* It is under way until Meta has accepted it.                              *)
UnderWay(s) == state[s] = "gone" /\ copies[s] <= doubts[s]

(* Meta accepts messages: one, or those that a crash has left in the open.  *)
Land ==
  /\ UNCHANGED <<state, to, doubts, withdrawn, willing>>
  /\ LetGo
  /\ \E S \in SUBSET {s \in Sends : UnderWay(s)} :
       copies' = [s \in Sends |-> IF s \in S THEN copies[s] + 1 ELSE copies[s]]

(* An attempt fails, or seems to, and the message is put back.              *)
PutBack(s) ==
  /\ UnderWay(s)
  /\ state' \in {state, [state EXCEPT ![s] = "open"]}
  /\ \/ UNCHANGED <<copies, doubts>>
     \/ /\ copies' = [copies EXCEPT ![s] = @ + 1]
        /\ doubts' = [doubts EXCEPT ![s] = @ + 1]
  /\ moved' \subseteq moved /\ unasked' \subseteq unasked \cup {s}
  /\ UNCHANGED <<to, withdrawn, willing>>

(* Meta refuses it.                                                         *)
Fail(s) ==
  /\ UnderWay(s)
  /\ state' = [state EXCEPT ![s] = "ended"]
  /\ LetGo
  /\ UNCHANGED <<to, copies, doubts, withdrawn, willing>>

OBNext ==
  \/ End \/ Land
  \/ \E s \in Sends :
       Go(s) \/ PutBack(s) \/ Fail(s) \/ \E g \in Guests : Offer(s, g)
  \/ \E b \in Bookings : Withdraw(b) \/ Revive(b)
  \/ \E g \in Guests : OptIn(g) \/ Stop(g)

OBSpec == OBInit /\ [][OBNext]_obVars
=============================================================================
