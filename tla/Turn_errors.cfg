SPECIFICATION Spec
CONSTANTS
  t1 = t1
  t2 = t2
  Tasks = {t1}
  Blank = Blank
  Canned = Canned
  NoResult = NoResult
  MAX_PLAN_STEPS = 3
  MAX_CLARIFICATIONS_PER_TURN = 1
  TASK_HISTORY_KEEP_TURNS = 1
  MaxTurns = 1
  Crashes = FALSE
  Workflows <- ShortWorkflows
  Requests <- OneRequest
INVARIANTS
  FailureSparesOtherSteps
