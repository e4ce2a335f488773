---------------------------- MODULE MCStaffTasks ----------------------------
(* Small instances of StaffTasks: two batches, each with what it may ask.  *)
EXTENDS StaffTasks

CONSTANTS s1, s2, e1, m2, k1, k2

MCBatch == [t \in Tasks |-> IF t \in {s1, e1} THEN 1 ELSE 2]
MCAsk ==
  [t \in Tasks |-> IF t \in {s1, s2} THEN "service"
                   ELSE IF t = m2 THEN "media" ELSE "escalation"]

(* Two services and a follow-up; an escalation and a service after it.     *)
MCAgendas == {{s1, s2, m2}, {e1, s2}}
LiveAgendas == {{s1, m2}, {e1}}
=============================================================================
