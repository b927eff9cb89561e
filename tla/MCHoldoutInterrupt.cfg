\* An interrupt from the keyboard while an arm runs.
SPECIFICATION Spec
CONSTANTS
  Scope = {"A0", "A3-D"}
  Endings = {"KeyboardInterrupt"}
  MaxSessions = 1
  MaxHead = 2
INVARIANTS
  EveryArmThatRaisesHasItsLine
