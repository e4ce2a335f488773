----------------------------- MODULE TurnTaking -----------------------------
(***************************************************************************)
(* What the conversation worker promises a guest, without its queues, its  *)
(* retries or its races: messages are taken up in the order in which they  *)
(* were written, everything pending up to some message in one turn, no     *)
(* message in two turns, and a turn answers at most once.  One exception   *)
(* is part of the promise: a message that turns up after a younger one is  *)
(* late, and a turn may pass a late message by, for good.                  *)
(***************************************************************************)
EXTENDS Naturals

CONSTANT N          (* Guest messages are numbered in the order of created_at. *)

VARIABLES
  pending,          (* Stored, not yet taken up and not passed by. *)
  taken,            (* Taken up by a turn. *)
  answered,         (* Taken up by a turn that committed a reply or a draft. *)
  late              (* Stored after a younger one. *)

ttVars == <<pending, taken, answered, late>>

TTInit == pending = {} /\ taken = {} /\ answered = {} /\ late = {}

(* A message is stored after all that it follows.                           *)
Arrive(i) ==
  /\ \A j \in pending \cup taken : j < i
  /\ pending' = pending \cup {i}
  /\ UNCHANGED <<taken, answered, late>>

(* A message is stored behind a younger one: behind one that was taken up,  *)
(* it has been passed by.                                                   *)
ArriveLate(i) ==
  /\ i \notin pending \cup taken \cup late
  /\ \E j \in pending \cup taken : i < j
  /\ late' = late \cup {i}
  /\ pending' = IF \E j \in taken : i < j THEN pending ELSE pending \cup {i}
  /\ UNCHANGED <<taken, answered>>

(* A turn takes up everything pending up to message n, with a reply or not, *)
(* except late messages that turned up after it had looked.                 *)
Turn(n, unseen, replies) ==
  LET reached == {i \in pending : i <= n}
      batch == reached \ unseen
  IN
  /\ unseen \subseteq late
  /\ n \in batch
  /\ pending' = pending \ reached
  /\ taken' = taken \cup batch
  /\ answered' = IF replies THEN answered \cup batch ELSE answered
  /\ UNCHANGED late

TTNext ==
  \/ \E i \in 1 .. N : Arrive(i) \/ ArriveLate(i)
  \/ \E n \in 1 .. N, unseen \in SUBSET (1 .. N), replies \in BOOLEAN : Turn(n, unseen, replies)

TTSpec == TTInit /\ [][TTNext]_ttVars
=============================================================================
