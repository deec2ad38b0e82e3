SPECIFICATION Spec
CONSTANTS
  Contents = {c1, c2}
  Valid = {c2}
  Laws = {l1}
  PlainLaws = {l2}
  Threshold = 3
  MaxItems = 2
  None = None
  Flows <- MCFlows
  ReviewsArrive = TRUE
  MaxFaults = 1
CHECK_DEADLOCK FALSE
INVARIANTS CompletedIsReviewed AttestedWasReviewed
PROPERTIES ResolvedStaysResolved ResolvedByVerdict RuledIsObeyed RejectionsAreBounded FixIsJudged
