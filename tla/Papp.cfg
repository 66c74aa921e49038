SPECIFICATION FairSpec
CONSTANTS
  Values = {2, 3}
  Limit <- Everyone
INVARIANTS TypeOK LastSetApplied SettingsConverge
PROPERTIES AnswersAdvertised SetsTakeEffect
CHECK_DEADLOCK FALSE
