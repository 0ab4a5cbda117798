\* Two callers of commit, one save with and one without the rollback.
SPECIFICATION FairSpec
CONSTANTS
  Owner = {a, b, c, d}
  Guarded = {a, b, c}
  Awaited = {a, b}
  Torn = {torn}
INVARIANTS
  RestartKeepsSaved
  RolledBack
PROPERTIES
  EverySaveAnswered
  ImplementsAtomicStore
