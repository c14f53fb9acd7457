SPECIFICATION Spec
CONSTANTS
  cron = cron
  manual = manual
  Proc = {cron, manual}
  Cron = cron
  NumKnobs = 2
  MaxStarts = 2
  MaxKills = 0
  MaxUnanswered = 1
  Overlap = FALSE
PROPERTIES
  TriedIsMarked
