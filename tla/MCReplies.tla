------------------------------ MODULE MCReplies ------------------------------
(***************************************************************************)
(* Drafts that meet each guardrail alone, and some that meet two.          *)
(***************************************************************************)
EXTENDS Replies

MCDrafts ==
  {{}, {"C1"}, {"C2", "line"}, {"C3", "loud"}, {"C4", "C5"}, {"C4"}, {"quote"}, {"deal", "price"},
   {"stay", "line"}, {"unit", "C3"}, {"fee", "C1", "C3", "long"}, {"leak", "loud"}}

Ask(must, bot, live, odd) == [must |-> must, bot |-> bot, live |-> live, odd |-> odd]

MCSituations ==
  {Ask(FALSE, FALSE, TRUE, FALSE), Ask(TRUE, FALSE, FALSE, FALSE), Ask(FALSE, TRUE, FALSE, TRUE)}
=============================================================================
