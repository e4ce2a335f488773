\* Two messages, one telling run in each loop, one thing that staff do
\* between turns, one crash or failure of the model.
SPECIFICATION Spec
CONSTANTS
  Drafts <- MCDrafts
  Situations <- MCSituations
  References = {r1}
  None = none
  Limit = 1
  DraftMode = {2}
  Telling = {"sla_nudge"}
  MaxMsgs = 2
  MaxRuns = 1
  MaxExtras = 1
INVARIANTS
  TypeOK
  OneReplyPerBatch
  OneStrikePerBatch
PROPERTIES
  ClaimsAreBacked
  ReferralIsMade
CHECK_DEADLOCK FALSE
