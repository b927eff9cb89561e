\* A second arm that crashes, cleared and invoked again.
SPECIFICATION Spec
CONSTANTS
  Scope = {"A0", "A3-D"}
  Endings = {}
  MaxSessions = 1
  MaxHead = 2
INVARIANTS
  ClearedArmCanBeReplayed
