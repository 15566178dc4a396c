CONSTANTS
  Calls = {k1, k2}
  Reporters = {r1, r2}
  SendsFirst = {k2}
  MaxReports = 3
SPECIFICATION FairSpec
INVARIANTS NoPanic LeaksAreUnanswered
PROPERTIES EveryoneReturns UnknownIsLate AnswerBoxSpec
\* Every call returns in the end.
CHECK_DEADLOCK FALSE
