\* Two network threads run the commands of the same Player object.
SPECIFICATION Spec
CONSTANTS
  Hosters = {}
  Players = {1}
  NetThreads = {n1, n2}
  Scenes = {"town", "field"}
  HomeScene <- MCHomeScene
  Birth <- MCBirth
  Speed <- MCSpeed
  Points <- MCNearPoints
  Sight = 0
SYMMETRY ThreadSymmetry
INVARIANTS NeverLost
