\* The sessions of this repository: Update() returns true always.
SPECIFICATION Spec
CONSTANTS
  ThreadCount = 1
  Sessions = {s1, s2}
  ChecksClosed = FALSE
PROPERTIES ClosedReleased
