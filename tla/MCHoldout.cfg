\* Two sessions of three arms, with every failure and every operator action.
SPECIFICATION FairSpec
CONSTANTS
  Scope = {"A0", "A3-D", "A4"}
  Endings = {"KeyboardInterrupt", "killed"}
  MaxSessions = 2
  MaxHead = 3
INVARIANTS
  TypeOK
  CompleteLineMeansArtifacts
  RunParamsSealTheDirectory
  OneRemnantAtMost
  OnlyTheFrozenSurfaceRuns
PROPERTIES
  EveryAttemptIsAuthorizedAnew
  EverySessionEnds
