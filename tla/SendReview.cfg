SPECIFICATION FairSpec
CONSTANTS
  Texts = {t1, t2}
  Bad = bad
  MaxPlans <- FewPlans
  MaxJobs <- FewJobs
INVARIANTS TypeOK PlanningBacked SentAsReviewed
PROPERTIES PaysAsReviewed PlanningEnds
CHECK_DEADLOCK FALSE
