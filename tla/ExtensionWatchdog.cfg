SPECIFICATION WorkerSpec
CONSTANTS
  MaxCalls = 3
  Period = 2
INVARIANTS
  AlarmCoversIntent
  IntentSurvives
PROPERTY
  StrandRecovers
