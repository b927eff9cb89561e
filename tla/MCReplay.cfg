\* A live run, cut short or not, continued, replayed or started anew, with a
\* client that can return anything.
SPECIFICATION Spec
CONSTANTS
  DecisionPoints = 3
  Returned = {"CONTACT", "WAIT", "garbled", "off_schema", "None"}
  MaxSessions = 3
INVARIANTS
  TypeOK
  ReplayNeverDiverges
  ReplayStopsOnlyWithoutText
  ResumedRunsAgree
