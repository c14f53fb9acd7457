SPECIFICATION Spec
CONSTANTS
  cron = cron
  manual = manual
  Proc = {cron, manual}
  Cron = cron
  NumKnobs = 2
  MaxStarts = 1
  MaxKills = 0
  MaxUnanswered = 0
  Overlap = TRUE
INVARIANTS
  MutualExclusion
