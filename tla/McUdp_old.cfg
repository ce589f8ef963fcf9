SPECIFICATION Spec
CONSTANTS
  TagCount = 3
  Wide = {2}
  Retries = 1
  MaxAge = 1
  MaxCopies = 0
INVARIANTS OwnAnswer
