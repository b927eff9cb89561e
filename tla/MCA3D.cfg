\* A3-D on the configured schedule: retries on days 1-3, halt on day 3, three
\* contacts, a 30-day window.
SPECIFICATION FairSpec
CONSTANTS
  TicksPerDay = 3
  RetryDays = {1, 2, 3}
  HaltDay = 3
  MaxContacts = 3
  FundsTimes = {0, 4, 8, 10, 12}
  ClearanceTimes = {0, 2, 3, 6}
  AccelDelays = {1, 2, 5}
  Never = 100
  WindowDays = 30
  Conditions = {"insufficient_funds", "ambiguous_decline", "card_expired", "bank_technical_error", "transaction_limit_exceeded", "payment_risk_check_failed", "subscription_cancelled_by_customer"}
  Policy = "A3-D"
INVARIANTS
  A3DIsNeverRejected
  SilentCustomersAreSpared
  OnePostHaltContact
