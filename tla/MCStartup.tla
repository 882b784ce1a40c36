------------------------------ MODULE MCStartup ------------------------------
(* Startup on a small disk: two files of one scene; one hoster that lives    *)
(* there and one of the same id that lives nowhere; a directory that is no   *)
(* asset; and two messages whose type_t may have the default of another one. *)
EXTENDS Startup, TLC

CONSTANTS scene, hoster, notes, plant, skill, s1, s2, h1, h2, n1, p1, k1,
          PlantType, SkillType   \* the defaults of type_t in Plant and Skill

MCDeclared == <<0, 4, 2, 5, 4, 7>>
MCDirs == {scene, hoster, notes, plant, skill}
MCMessageOf == scene :> "Scene" @@ hoster :> "Hoster" @@ notes :> "none"
               @@ plant :> "Plant" @@ skill :> "Skill"
MCTypeT == "Scene" :> 9 @@ "Hoster" :> 6 @@ "Plant" :> PlantType @@ "Skill" :> SkillType
MCFiles == {s1, s2, h1, h2, n1, p1, k1}
MCDirOf == s1 :> scene @@ s2 :> scene @@ h1 :> hoster @@ h2 :> hoster
           @@ n1 :> notes @@ p1 :> plant @@ k1 :> skill
MCIdOf == s1 :> 1 @@ s2 :> 1 @@ h1 :> 3 @@ h2 :> 3
          @@ n1 :> 3 @@ p1 :> 4 @@ k1 :> 4
MCSceneOf == [f \in MCFiles |-> IF f = h1 THEN 1 ELSE IF f = h2 THEN 9 ELSE 0]
=============================================================================
