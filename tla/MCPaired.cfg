\* Seven arms, and the frontier script's table at four thresholds, over the same episode.
SPECIFICATION DiagSpec
CONSTANTS
  TicksPerDay = 2
  RetryDays = {1, 2, 3}
  HaltDay = 3
  MaxContacts = 3
  FundsTimes = {5, 7}
  ClearanceTimes = {0, 3, 4}
  AccelDelays = {1, 3}
  Never = 100
  WindowDays = 7
  Conditions = {"insufficient_funds", "ambiguous_decline", "card_expired", "bank_technical_error", "transaction_limit_exceeded", "payment_risk_check_failed", "subscription_cancelled_by_customer"}
  Levels = {0, 2, 4}
  Grid = {1, 2, 3, 7}
INVARIANTS
  TypeOK
  NoArmBelowTheFloor
  NoArmLosesARescue
  OracleIsTheCeiling
  StrengtheningIsFree
  ResultsAreCoherent
  StressVerdictIsSound
  DeficitIsRestraint
  TranscriptionIsA3D
  GridHasTwoRegimes
  PatienceNeverCostsAnInvoice
