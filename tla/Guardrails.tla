----------------------------- MODULE Guardrails -----------------------------
(***************************************************************************)
(* The guardrails between a model's draft and the guest                    *)
(* (brain/guardrails.ts, promises.ts, priceGuards.ts, stayGuards.ts,       *)
(* draftGuards.ts, leakGuards.ts) as operators on drafts and evidence.     *)
(*                                                                         *)
(* A draft is the set of what the scanners would find in it: claims of the *)
(* classes C1 to C5, money, an asserted stay or house, the identity line,  *)
(* faults of form and leaks.                                               *)
(***************************************************************************)
EXTENDS FiniteSets

(* C1: the team was told; C2: someone is on the way; C3: the team is being *)
(* brought in; C4: this will be remembered; C5: a specific thing is done.  *)
Claims == {"C1", "C2", "C3", "C4", "C5"}

(* "quote" is a figure of get_quote, "fee" a published fee beside its cue, *)
(* "price" any other figure; "deal" is the language of bargaining; "line"  *)
(* the approved answer to "are you a bot?"; "long" and "loud" are what a   *)
(* trim and the format clamp change.                                       *)
Marks == Claims \cup {"quote", "fee", "price", "deal", "stay", "unit",
                      "line", "long", "loud", "leak"}

(* The phrasebook: let me bring the team in; the final rate; the host.     *)
Hold == {"C3"}
RateLine == {"C3"}
DiscountLine == {}
IdentityLine == {"line"}

Tools == {"create_staff_task", "escalate_to_human", "remember_fact", "get_quote"}
Runs == Tools \X {"ok", "failed"}

(* What a successful run of a tool licenses, what a failed one disproves,  *)
(* and what a system row since the guest's previous message licenses.      *)
ToolClaims(tool) ==
  CASE tool = "create_staff_task" -> {"C1", "C2"}
    [] tool = "escalate_to_human" -> {"C3"}
    [] tool = "remember_fact" -> {"C4"}
    [] OTHER -> {}

VetoOnFailure(tool) ==
  CASE tool = "create_staff_task" -> {"C1", "C2", "C5"}
    [] tool = "escalate_to_human" -> {"C3"}
    [] OTHER -> {}

RowKinds == {"ops_escalation", "fact_saved", "task_done", "sla_nudge"}

ContextClaims(kind) ==
  CASE kind = "ops_escalation" -> {"C3"}
    [] kind = "fact_saved" -> {"C4"}
    [] kind \in {"task_done", "sla_nudge"} -> {"C1"}

VetoedBy(runs) == UNION {VetoOnFailure(r[1]) : r \in {x \in runs : x[2] = "failed"}}
ClassesOf(kinds) == UNION {ContextClaims(k) : k \in kinds}

(* e is what a pass is judged by: the runs of its loop, the classes that   *)
(* rows license, those vetoed in an earlier loop, and the guest's facts.   *)
Covered(class, e) ==
  /\ class \notin VetoedBy(e.runs) \cup e.vetoed
  /\ \/ class \in e.evidence
     \/ class = "C3" /\ e.must
     \/ \E run \in e.runs : run[2] = "ok" /\ class \in ToolClaims(run[1])

Uncovered(text, e) == {class \in text \cap Claims : ~Covered(class, e)}

Referral(text, e) == "C3" \in Uncovered(text, e)

PriceBreaks(text, e) ==
  \/ "price" \in text
  \/ "quote" \in text /\ <<"get_quote", "ok">> \notin e.runs

PromiseBreaks(text, e) == Uncovered(text, e) \ {"C3"} # {}
StayBreaks(text, e) == "stay" \in text /\ ~e.live

(* eZee's choice of a house is never trusted, so no house may be named.    *)
UnitBreaks(text) == "unit" \in text

StayReason(e) == IF e.odd THEN "booking_undescribable" ELSE "booking_overclaim"

(* The reason a broken draft defers with, or "none".                       *)
Broken(text, e) ==
  IF PriceBreaks(text, e) THEN "price"
  ELSE IF StayBreaks(text, e) THEN StayReason(e)
  ELSE IF UnitBreaks(text) THEN "booking_unit_unknown"
  ELSE IF PromiseBreaks(text, e) THEN "promise"
  ELSE "none"

(* The same for a draft that a trim or the clamp has changed: a house has  *)
(* the card of a stay here, and what an earlier loop vetoed is not asked.  *)
BrokenAgain(text, e) ==
  IF PriceBreaks(text, e) THEN "price"
  ELSE IF PromiseBreaks(text, [e EXCEPT !.vetoed = {}]) THEN "promise"
  ELSE IF StayBreaks(text, e) \/ UnitBreaks(text) THEN StayReason(e)
  ELSE "none"

Locked(draft) == IF "deal" \in draft THEN DiscountLine ELSE draft

NoIdentity(text, e) == e.bot /\ "line" \notin text

Accepted(text, e) ==
  /\ Broken(text, e) = "none"
  /\ ~NoIdentity(text, e)
  /\ "long" \notin text

(* A cut at a sentence keeps some of a text; one at a word may also leave  *)
(* a fee without the cue that made it legal.                               *)
Trims(text) ==
  LET kept == SUBSET (text \ {"long"}) IN
  kept \cup {(t \ {"fee"}) \cup {"price"} : t \in {x \in kept : "fee" \in x}}

Deferral(reason) == [text |-> IF reason = "price" THEN RateLine ELSE Hold, reason |-> reason]

(* The last gate.  refers is the verdict on the draft before its changes.  *)
Final(text, refers, e, trimmed) ==
  LET clamped == text \ {"loud"}
      changed == trimmed \/ clamped # text
      again   == IF changed THEN BrokenAgain(clamped, e) ELSE "none"
      out     == IF changed /\ NoIdentity(clamped, e) THEN IdentityLine ELSE clamped
  IN  IF again # "none" THEN Deferral(again)
      ELSE IF "leak" \in out THEN [text |-> Hold, reason |-> "leak"]
      ELSE [text |-> out, reason |-> IF refers \/ e.must THEN "referral" ELSE "none"]
=============================================================================
