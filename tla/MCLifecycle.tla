---------------------------- MODULE MCLifecycle ----------------------------
(* Small instances of Lifecycle: two stays that are over, with their        *)
(* thank-yous and win-backs, and a guest who may become a lead; or a        *)
(* booking yet to be made, with its pre-arrival, and the rows that eZee     *)
(* may turn it into.                                                        *)
EXTENDS Lifecycle, TLC

CONSTANTS pre, post, post2, win, win2, lead, b1, b2, g1, g2, w1, w2, k1, k2

MCKindOf ==
  [s \in Sends |-> CASE s = pre -> "prearrival" [] s \in {post, post2} -> "poststay"
                 [] s = lead -> "lead_followup" [] OTHER -> "winback"]
MCBookingOf ==
  [s \in Sends |-> IF s = lead THEN Nobody ELSE IF s \in {post2, win2} THEN b2 ELSE b1]
MCLeadOf == [s \in Sends |-> g1]

(* The ticks are alike, and so are the two stays that are over. *)
Swap == (b1 :> b2 @@ b2 :> b1) @@ (post :> post2 @@ post2 :> post) @@ (win :> win2 @@ win2 :> win)
Symmetry == Permutations(Ticks) \cup {p @@ Swap : p \in Permutations(Ticks)}

Row(state, phone, words) ==
  [state |-> state, phone |-> phone, source |-> TRUE, words |-> words, stay |-> "ahead"]
MCUpdates ==
  {Row("live", g1, "ok"), Row("live", g2, "ok"), Row("live", Nobody, "ok"),
   Row("live", g1, "multi")}
=============================================================================
