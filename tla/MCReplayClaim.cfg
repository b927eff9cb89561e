\* The claim that a recorded run can always be replayed, with a client that
\* always returns some text.
SPECIFICATION Spec
CONSTANTS
  DecisionPoints = 2
  Returned = {"CONTACT", "WAIT", "garbled", "off_schema"}
  MaxSessions = 2
INVARIANTS
  RecordedRunsReplay
