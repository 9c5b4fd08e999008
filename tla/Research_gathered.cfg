SPECIFICATION Spec
CONSTANTS
  MAX_RESEARCH_ATTEMPTS = 2
  MAX_ITERATIONS = 3
  MAX_SEARCH_ATTEMPTS = 1
  MAX_FETCH_ATTEMPTS = 3
  MaxToolCalls = 2
INVARIANTS
  GatheredIsHandedOn
