\* A policy that respects nothing: any action, any remedy, unknown ones included.
SPECIFICATION FairSpec
CONSTANTS
  TicksPerDay = 2
  RetryDays = {1, 2, 3}
  HaltDay = 3
  MaxContacts = 3
  FundsTimes = {0, 3, 7, 9}
  ClearanceTimes = {0, 3, 4}
  AccelDelays = {1, 3}
  Never = 100
  WindowDays = 5
  Conditions = {"insufficient_funds", "ambiguous_decline", "card_expired", "bank_technical_error", "transaction_limit_exceeded", "payment_risk_check_failed", "subscription_cancelled_by_customer"}
  Policy = "any"
INVARIANTS
  TypeOK
  OutcomesAreExclusive
  SafetyGates
  EngagementIsShown
  FallbackIsAccepted
  StopIsCostless
  BankErrorSelfHeals
PROPERTIES
  OutcomeIsFinal
  AuditTrail
