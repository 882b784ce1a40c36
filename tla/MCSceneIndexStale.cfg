\* One client moves.
SPECIFICATION Spec
CONSTANTS
  Hosters = {}
  Players = {1}
  NetThreads = {"n1"}
  Scenes = {"town"}
  HomeScene <- MCHomeScene
  Birth <- MCBirth
  Speed <- MCSpeed
  Points <- MCPoints
  Sight = 1
INVARIANTS NoStaleEntries
