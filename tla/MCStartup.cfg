\* Seven files, at most one bad and one garbled, any of the directories missing;
\* Plant has the number of Hoster, Skill that of Scene.
SPECIFICATION Spec
CONSTANTS
  scene = scene  hoster = hoster  notes = notes  plant = plant  skill = skill
  s1 = s1  s2 = s2  h1 = h1  h2 = h2  n1 = n1  p1 = p1  k1 = k1
  None = None  PlantType = 6  SkillType = 9
  Declared <- MCDeclared  C2SCount = 6
  Dirs <- MCDirs  MessageOf <- MCMessageOf  TypeT <- MCTypeT
  Files <- MCFiles  DirOf <- MCDirOf  IdOf <- MCIdOf  SceneOf <- MCSceneOf
  MaxBad = 1  MaxGarbled = 1
INVARIANTS TypeOK TablesAgree SoundDirsComplete HostersHomed
