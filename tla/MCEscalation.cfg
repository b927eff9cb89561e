\* A3-LLM, one run for the escalation count: any answer the parser lets through, or the planner fallback.
SPECIFICATION AuditSpec
CONSTANTS
  TicksPerDay = 2
  RetryDays = {1, 2, 3}
  HaltDay = 3
  MaxContacts = 2
  FundsTimes = {0, 7}
  ClearanceTimes = {0}
  AccelDelays = {3}
  Never = 100
  WindowDays = 5
  Conditions = {"insufficient_funds", "ambiguous_decline", "card_expired", "payment_risk_check_failed", "subscription_cancelled_by_customer"}
  Policy = "A3-LLM"
INVARIANTS
  EscalationsAreStops
