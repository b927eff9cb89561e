\* The halt email against the comment on post-halt top-up draws.
SPECIFICATION FairSpec
CONSTANTS
  TicksPerDay = 2
  RetryDays = {1, 2, 3}
  HaltDay = 3
  MaxContacts = 3
  FundsTimes = {0, 9}
  ClearanceTimes = {0}
  AccelDelays = {1}
  Never = 100
  WindowDays = 5
  Conditions = {"insufficient_funds", "card_expired"}
  Policy = "A3-D"
PROPERTIES
  NoPostHaltTopupDraw
