SPECIFICATION FairSpec
CONSTANTS
  TagCount = 2
  Wide = {1}
  Retries = 1
  MaxAge = 1
  MaxCopies = 1
INVARIANTS IInv OwnAnswerUnlessHaunted
PROPERTIES PollEnds
