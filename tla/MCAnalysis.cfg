\* Two episodes, three lines to a file, every arm with its own results.
SPECIFICATION Spec
CONSTANTS
  Episodes = {1, 2}
  Foreign = 3
  MaxLines = 3
  ContactsEach = {1, 2}
INVARIANTS
  AcceptedDataIsTheRun
  PassingBeatsEveryBoundedArm
