SPECIFICATION FairSpec
CONSTANTS
  Requests = {r1, r2, r3}
  Limit = 2
  Day = 2
  MaxTime = 4
INVARIANTS WithinLimit CountIsHonest
PROPERTIES RefusedOnlyWhenSpent WindowsDoNotSlide EveryQuestionEnds
