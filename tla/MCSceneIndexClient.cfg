\* One client: its commands come one after the other.
SPECIFICATION Spec
CONSTANTS
  Hosters = {2}
  Players = {1}
  NetThreads = {"n1"}
  Scenes = {"town"}
  HomeScene <- MCHomeScene
  Birth <- MCBirth
  Speed <- MCSpeed
  Points <- MCPoints
  Sight = 1
INVARIANTS TypeOK   
