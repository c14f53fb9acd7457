SPECIFICATION Spec
CONSTANTS
  cron = cron
  manual = manual
  Proc = {cron, manual}
  Cron = cron
  NumKnobs = 3
  MaxStarts = 5
  MaxKills = 1
  MaxUnanswered = 1
  Overlap = FALSE
INVARIANTS
  MutualExclusion
  OwnMeasurement
  DoneHasRow
PROPERTIES
  MarksArePermanent
  EndsMarked
  QueueDrains
