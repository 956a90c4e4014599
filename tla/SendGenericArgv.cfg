SPECIFICATION Spec
CONSTANTS
  Texts = {t1}
  Bad = bad
  MaxPlans <- FewPlans
  MaxJobs <- FewJobs
INVARIANTS NeverGenericArgv
CHECK_DEADLOCK FALSE
