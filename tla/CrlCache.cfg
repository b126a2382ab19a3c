CONSTANTS
  Crls <- SeveralCrls
  NoCrl = NoCrl
  Subjects <- SeveralSubjects
  Times <- SomeTimes
  UseDeltaCrl = TRUE
SPECIFICATION Spec
INVARIANTS CacheConsistent UsedFits SavedOrFresher
