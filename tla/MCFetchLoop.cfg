\* Two calls on one permit, three attempts each, whatever the source answers.
SPECIFICATION FairSpec
CONSTANTS
  MaxAttempts = 3
  BaseBackoff = 1
  MaxBackoff = 2
  MaxRetryAfter = 3
  JitterPercent = 50
  MaxBytes = 2
  Absent = Absent
  NaN = NaN
  Tasks = {t1, t2}
  MaxConcurrent = 1
  MinInterval = 2
  MaxJitter = 1
  Never = Never
  a = a
  Ids = {a}
  SourceAnswers <- AllAnswers
  Feeds <- FewFeeds
  Cancels = TRUE
  Nothing = Nothing
INVARIANTS
  TypeOK
  RetryBudget
  GivesUpForAReason
  FailuresAreOutages
  LimiterComesBack
PROPERTIES
  SourceIsPaced
  EveryFetchEnds
