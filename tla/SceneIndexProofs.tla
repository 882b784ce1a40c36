-------------------------- MODULE SceneIndexProofs --------------------------
(***************************************************************************)
(* Theorems about SceneIndex for any hosters, players, scenes, positions,  *)
(* speeds, sight and number of network threads.                            *)
(*                                                                         *)
(* What makes the hosters safe among unlocked threads is ownership: only   *)
(* the World thread operates on a hoster, one at a time, and a step of any *)
(* other thread touches the entries of a player only.  OwnerOK states it;  *)
(* PlaceOK and ProgressOK say what the World thread has done so far.       *)
(* The players have no owner; what is left for them is that a thread that  *)
(* erases an entry also inserts one afterwards (KeptIn).                   *)
(***************************************************************************)
EXTENDS SceneIndex, TLAPS

\* The World thread works on hosters and only moves them; the network threads
\* work on players.  A thread inside a scene is inside a real one.
OwnerOK ==
  /\ stage[World] # "idle" => ent[World] \in Hosters /\ op[World] = "move"
  /\ stage[World] # "check"
  /\ \A a \in NetThreads : stage[a] # "idle" => ent[a] \in Players
  /\ \A a \in Actors : stage[a] \in {"eraseX", "eraseZ", "insertX", "insertZ",
                                     "scanX", "scanZ"} => scn[a] \in Scenes
  /\ \A a \in Actors : stage[a] # "idle" => heard[a] = {}

\* A hoster is in its home scene, within its speed of its place of birth.
PlaceOK ==
  /\ Hosters \subseteq registered
  /\ \A h \in Hosters :
       /\ loc[h] = HomeScene[h]
       /\ Within(Cell(pos[h][1]), Cell(Birth[h][1]), Speed[h])
       /\ Within(Cell(pos[h][2]), Cell(Birth[h][2]), Speed[h])

\* The World thread inserts its hoster where the hoster is.
ProgressOK ==
  LET h == ent[World] IN
  /\ stage[World] \in {"call", "eraseX", "eraseZ", "insertX", "insertZ"} =>
       dest[World] = pos[h]
  /\ stage[World] \in {"eraseX", "eraseZ", "insertX", "insertZ"} =>
       scn[World] = HomeScene[h]
  /\ stage[World] = "insertZ" => <<Cell(pos[h][1]), h>> \in xs[HomeScene[h]]

\* What a thread has seen on an axis fits the center it looks around, and so does
\* the cell it reads next.
SeenOK ==
  \A a \in Actors :
    /\ stage[a] \notin {"scanX", "scanZ"} => xseen[a] = {} /\ zseen[a] = {}
    /\ stage[a] = "scanX" => Within(at[a], center[a][1], Sight)
    /\ stage[a] = "scanZ" => at[a] >= center[a][2] - Sight
    /\ \A h \in xseen[a] \cap Hosters :
         Within(Cell(Birth[h][1]), center[a][1], Sight + Speed[h])
    /\ \A h \in zseen[a] \cap Hosters :
         Within(Cell(Birth[h][2]), center[a][2], Sight + Speed[h])

IndInv == TypeOK /\ OwnerOK /\ PlaceOK /\ ProgressOK /\ HosterLeash
          /\ HosterIndexed /\ SeenOK /\ HearsNearby

\* A network thread is about to enter player e into the scene e will then have.
Entering(e) == \E a \in NetThreads :
                 ent[a] = e /\ op[a] = "enter" /\ stage[a] \in {"check", "call"}

\* A network thread has still to insert e into an index of scene s.
Inserting(e, s, stages) == \E a \in NetThreads :
                             ent[a] = e /\ scn[a] = s /\ stage[a] \in stages

\* A player in a scene is registered and listed on both axes, or some thread is on
\* its way to see to it: a thread that erases is a thread that inserts later.
KeptIn(e) ==
  loc[e] # NoScene =>
    /\ e \in registered \/ Entering(e)
    /\ \/ \E q \in xs[loc[e]] : q[2] = e
       \/ Entering(e) \/ Inserting(e, loc[e], {"eraseZ", "insertX"})
    /\ \/ \E q \in zs[loc[e]] : q[2] = e
       \/ Entering(e) \/ Inserting(e, loc[e], {"insertX", "insertZ"})

KeptInv == IndInv /\ \A e \in Players : KeptIn(e)

-----------------------------------------------------------------------------
(* The conversion to cells.                                                *)

\* The cell of a coordinate is an integer.
LEMMA CellType ==
  ASSUME NEW p \in Int
  PROVE  Cell(p) \in Int
BY DEF Cell

\* Truncation towards zero never moves a cell further than the position moved:
\* crossing zero can only bring it closer.
LEMMA CellShift ==
  ASSUME NEW b \in Int, NEW n \in Nat, NEW d \in -n .. n
  PROVE  Within(Cell(b + 2 * d), Cell(b), n)
BY DEF Cell, Within

\* Distances add up.
LEMMA WithinTriangle ==
  ASSUME NEW a \in Int, NEW b \in Int, NEW c \in Int, NEW r \in Int, NEW s \in Int,
         Within(a, b, r), c - s <= a, a <= c + s
  PROVE  Within(b, c, s + r)
BY DEF Within
-----------------------------------------------------------------------------
(* The steps.                                                              *)

\* Every step keeps every variable in its type.
LEMMA TypeStep ==
  ASSUME IndInv, [Next]_vars
  PROVE  TypeOK'
<1> USE EntitiesAssumption, CellType DEF IndInv, Goto, threadVars, worldVars, callVars, searchVars, Entities, Actors
<1>1. ASSUME NEW a \in Actors, CallScene(a) PROVE TypeOK'
  <2>1. ent[a] \in Entities /\ loc[ent[a]] \in Scenes \cup {NoScene}
    BY DEF TypeOK
  <2>2. scn' \in [Actors -> Scenes \cup {NoScene}]
    BY <1>1, <2>1 DEF CallScene, TypeOK
  <2>3. registered' \in SUBSET Entities
    BY <1>1, <2>1 DEF CallScene, TypeOK
  <2>4. stage' \in [Actors -> Stages]
    BY <1>1 DEF CallScene, TypeOK, Stages
  <2>5. QED
    BY <1>1, <2>2, <2>3, <2>4 DEF CallScene, TypeOK
<1>2. ASSUME NEW a \in Actors, EraseX(a) PROVE TypeOK'
  BY <1>2 DEF EraseX, TypeOK, OwnerOK, Stages, Origin, Listed, NearBy
<1>3. ASSUME NEW a \in Actors, EraseZ(a) PROVE TypeOK'
  BY <1>3 DEF EraseZ, TypeOK, OwnerOK, Stages, Origin, Listed, NearBy
<1>4. ASSUME NEW a \in Actors, InsertX(a) PROVE TypeOK'
  <2>1. InsertAt(a) \in Int \X Int
    BY <1>4 DEF InsertAt, TypeOK
  <2>2. <<Cell(InsertAt(a)[1]), ent[a]>> \in Int \X Entities /\ scn[a] \in Scenes
    <3>1. InsertAt(a)[1] \in Int
      BY <2>1
    <3>2. QED
      BY <1>4, <3>1 DEF InsertX, TypeOK, OwnerOK
  <2>3. xs' \in [Scenes -> SUBSET (Int \X Entities)]
    BY <1>4, <2>2 DEF InsertX, TypeOK
  <2>4. QED
    BY <1>4, <2>3 DEF InsertX, TypeOK, Stages
<1>5. ASSUME NEW a \in Actors, InsertZ(a) PROVE TypeOK'
  <2>1. InsertAt(a) \in Int \X Int
    BY <1>5 DEF InsertAt, TypeOK
  <2>2. <<Cell(InsertAt(a)[2]), ent[a]>> \in Int \X Entities /\ scn[a] \in Scenes
    <3>1. InsertAt(a)[2] \in Int
      BY <2>1
    <3>2. QED
      BY <1>5, <3>1 DEF InsertZ, TypeOK, OwnerOK
  <2>3. zs' \in [Scenes -> SUBSET (Int \X Entities)]
    BY <1>5, <2>2 DEF InsertZ, TypeOK
  <2>4. QED
    BY <1>5, <2>3 DEF InsertZ, TypeOK, Stages
<1>6. ASSUME NEW a \in Actors, Near(a) PROVE TypeOK'
  <2>1. ent[a] \in Entities /\ loc[ent[a]] \in Scenes \cup {NoScene}
        /\ pos[ent[a]] \in Int \X Int
    BY DEF TypeOK
  <2>2. Cell(pos[ent[a]][1]) \in Int /\ Cell(pos[ent[a]][2]) \in Int
    BY <2>1
  <2>3. center' \in [Actors -> Int \X Int] /\ at' \in [Actors -> Int]
    BY <1>6, <2>2 DEF Near, TypeOK
  <2>4. scn' \in [Actors -> Scenes \cup {NoScene}] /\ stage' \in [Actors -> Stages]
    BY <1>6, <2>1 DEF Near, TypeOK, Stages
  <2>5. QED
    BY <1>6, <2>3, <2>4 DEF Near, TypeOK
<1>7. ASSUME NEW a \in Actors, ScanX(a) PROVE TypeOK'
  BY <1>7 DEF ScanX, TypeOK, OwnerOK, Stages, Origin, Listed, NearBy
<1>8. ASSUME NEW a \in Actors, ScanZ(a) PROVE TypeOK'
  BY <1>8 DEF ScanZ, TypeOK, OwnerOK, Stages, Origin, Listed, NearBy
<1>9. CASE HosterPass
  BY <1>9 DEF HosterPass, TypeOK, OwnerOK, Stages, Origin, Listed, NearBy
<1>10. ASSUME NEW h \in Hosters, HosterUpdate(h) PROVE TypeOK'
  BY <1>10 DEF HosterUpdate, StepMove, Begin, TypeOK, OwnerOK, Stages, Origin, Listed, NearBy
<1>11. ASSUME NEW a \in NetThreads, NEW e \in Players, CmdEnterScene(a, e) PROVE TypeOK'
  BY <1>11 DEF CmdEnterScene, OnEnterScene, Begin, TypeOK, OwnerOK, Stages, Origin, Listed, NearBy
<1>12. ASSUME NEW a \in NetThreads, NEW e \in Players, CmdMove(a, e) PROVE TypeOK'
  BY <1>12 DEF CmdMove, StepMove, Begin, TypeOK, OwnerOK, Stages, Origin, Listed, NearBy
<1>13. ASSUME NEW a \in NetThreads, NEW e \in Players, Load(a, e) PROVE TypeOK'
  BY <1>13 DEF Load, TypeOK, OwnerOK, Stages, Origin, Listed, NearBy
<1>14. CASE UNCHANGED vars
  BY <1>14 DEF vars, TypeOK, OwnerOK, Stages, Origin, Listed, NearBy
<1>15. ASSUME NEW a \in Actors, CheckScene(a) PROVE TypeOK'
  BY <1>15 DEF CheckScene, TypeOK, OwnerOK, Stages
<1>16. ASSUME NEW a \in Actors, Broadcast(a) PROVE TypeOK'
  <2>1. heard' \in [Actors -> SUBSET Entities]
    <3>1. PICK R \in NearBy(xseen[a], zseen[a]) :
            heard' = [heard EXCEPT ![a] = R \cap registered]
      BY <1>16 DEF Broadcast
    <3>2. R \cap registered \in SUBSET Entities
      BY DEF TypeOK
    <3>3. QED
      BY <3>1, <3>2 DEF TypeOK
  <2>2. /\ xseen' \in [Actors -> SUBSET Entities] /\ zseen' \in [Actors -> SUBSET Entities]
        /\ stage' \in [Actors -> Stages]
    BY <1>16 DEF Broadcast, TypeOK, Stages
  <2>3. QED
    BY <1>16, <2>1, <2>2 DEF Broadcast, TypeOK
<1>17. QED
  BY <1>1, <1>2, <1>3, <1>4, <1>5, <1>6, <1>7, <1>8, <1>9, <1>10, <1>11, <1>12, <1>13, <1>14,
     <1>15, <1>16 DEF Next, EntityStep

\* Every step respects the ownership of hosters.
LEMMA OwnerStep ==
  ASSUME IndInv, [Next]_vars
  PROVE  OwnerOK'
<1> USE EntitiesAssumption DEF IndInv, Goto, threadVars, worldVars, callVars, searchVars, Entities, Actors
<1>1. ASSUME NEW a \in Actors, CallScene(a) PROVE OwnerOK'
  BY <1>1 DEF CallScene, TypeOK, OwnerOK, Stages
<1>2. ASSUME NEW a \in Actors, EraseX(a) PROVE OwnerOK'
  BY <1>2 DEF EraseX, TypeOK, OwnerOK, Stages
<1>3. ASSUME NEW a \in Actors, EraseZ(a) PROVE OwnerOK'
  BY <1>3 DEF EraseZ, TypeOK, OwnerOK, Stages
<1>4. ASSUME NEW a \in Actors, InsertX(a) PROVE OwnerOK'
  BY <1>4 DEF InsertX, InsertAt, TypeOK, OwnerOK, Stages
<1>5. ASSUME NEW a \in Actors, InsertZ(a) PROVE OwnerOK'
  BY <1>5 DEF InsertZ, InsertAt, TypeOK, OwnerOK, Stages
<1>6. ASSUME NEW a \in Actors, Near(a) PROVE OwnerOK'
  BY <1>6 DEF Near, TypeOK, OwnerOK, Stages
<1>7. ASSUME NEW a \in Actors, ScanX(a) PROVE OwnerOK'
  BY <1>7 DEF ScanX, TypeOK, OwnerOK, Stages
<1>8. ASSUME NEW a \in Actors, ScanZ(a) PROVE OwnerOK'
  BY <1>8 DEF ScanZ, TypeOK, OwnerOK, Stages
<1>9. CASE HosterPass
  BY <1>9 DEF HosterPass, TypeOK, OwnerOK, Stages
<1>10. ASSUME NEW h \in Hosters, HosterUpdate(h) PROVE OwnerOK'
  BY <1>10 DEF HosterUpdate, StepMove, Begin, TypeOK, OwnerOK, Stages
<1>11. ASSUME NEW a \in NetThreads, NEW e \in Players, CmdEnterScene(a, e) PROVE OwnerOK'
  BY <1>11 DEF CmdEnterScene, OnEnterScene, Begin, TypeOK, OwnerOK, Stages
<1>12. ASSUME NEW a \in NetThreads, NEW e \in Players, CmdMove(a, e) PROVE OwnerOK'
  BY <1>12 DEF CmdMove, StepMove, Begin, TypeOK, OwnerOK, Stages
<1>13. ASSUME NEW a \in NetThreads, NEW e \in Players, Load(a, e) PROVE OwnerOK'
  BY <1>13 DEF Load, TypeOK, OwnerOK, Stages
<1>14. CASE UNCHANGED vars
  BY <1>14 DEF vars, TypeOK, OwnerOK, Stages
<1>15. ASSUME NEW a \in Actors, CheckScene(a) PROVE OwnerOK'
  BY <1>15 DEF CheckScene, TypeOK, OwnerOK, Stages
<1>16. ASSUME NEW a \in Actors, Broadcast(a) PROVE OwnerOK'
  BY <1>16 DEF Broadcast, TypeOK, OwnerOK, Stages
<1>17. QED
  BY <1>1, <1>2, <1>3, <1>4, <1>5, <1>6, <1>7, <1>8, <1>9, <1>10, <1>11, <1>12, <1>13, <1>14,
     <1>15, <1>16 DEF Next, EntityStep

\* Every step keeps the hosters near home.
LEMMA PlaceStep ==
  ASSUME IndInv, [Next]_vars
  PROVE  PlaceOK'
<1> USE EntitiesAssumption DEF IndInv, Goto, threadVars, worldVars, callVars, searchVars, Entities, Actors
<1>1. ASSUME NEW a \in Actors, CallScene(a) PROVE PlaceOK'
  BY <1>1 DEF CallScene, TypeOK, OwnerOK, PlaceOK
<1>2. ASSUME NEW a \in Actors, EraseX(a) PROVE PlaceOK'
  BY <1>2 DEF EraseX, TypeOK, OwnerOK, PlaceOK
<1>3. ASSUME NEW a \in Actors, EraseZ(a) PROVE PlaceOK'
  BY <1>3 DEF EraseZ, TypeOK, OwnerOK, PlaceOK
<1>4. ASSUME NEW a \in Actors, InsertX(a) PROVE PlaceOK'
  BY <1>4 DEF InsertX, InsertAt, TypeOK, OwnerOK, PlaceOK
<1>5. ASSUME NEW a \in Actors, InsertZ(a) PROVE PlaceOK'
  BY <1>5 DEF InsertZ, InsertAt, TypeOK, OwnerOK, PlaceOK
<1>6. ASSUME NEW a \in Actors, Near(a) PROVE PlaceOK'
  BY <1>6 DEF Near, TypeOK, OwnerOK, PlaceOK
<1>7. ASSUME NEW a \in Actors, ScanX(a) PROVE PlaceOK'
  BY <1>7 DEF ScanX, TypeOK, OwnerOK, PlaceOK
<1>8. ASSUME NEW a \in Actors, ScanZ(a) PROVE PlaceOK'
  BY <1>8 DEF ScanZ, TypeOK, OwnerOK, PlaceOK
<1>9. CASE HosterPass
  BY <1>9 DEF HosterPass, TypeOK, OwnerOK, PlaceOK
<1>10. ASSUME NEW h \in Hosters, HosterUpdate(h) PROVE PlaceOK'
  <2>1. PICK dx \in -Speed[h] .. Speed[h], dz \in -Speed[h] .. Speed[h] :
          StepMove(World, h, <<Birth[h][1] + 2 * dx, Birth[h][2] + 2 * dz>>)
    BY <1>10 DEF HosterUpdate
  <2>2. pos' = [pos EXCEPT ![h] = <<Birth[h][1] + 2 * dx, Birth[h][2] + 2 * dz>>]
    BY <2>1 DEF StepMove
  <2>3. Birth[h][1] \in Int /\ Birth[h][2] \in Int /\ Speed[h] \in Nat
    OBVIOUS
  <2>4. /\ Within(Cell(Birth[h][1] + 2 * dx), Cell(Birth[h][1]), Speed[h])
        /\ Within(Cell(Birth[h][2] + 2 * dz), Cell(Birth[h][2]), Speed[h])
    BY <2>3, CellShift
  <2>5. pos'[h] = <<Birth[h][1] + 2 * dx, Birth[h][2] + 2 * dz>>
    BY <2>2 DEF TypeOK
  <2>6. \A g \in Hosters \ {h} : pos'[g] = pos[g]
    BY <2>2 DEF TypeOK
  <2>7. loc' = loc /\ registered' = registered
    BY <2>1 DEF StepMove
  <2>8. ASSUME NEW g \in Hosters
        PROVE  /\ Within(Cell(pos'[g][1]), Cell(Birth[g][1]), Speed[g])
               /\ Within(Cell(pos'[g][2]), Cell(Birth[g][2]), Speed[g])
    BY <2>4, <2>5, <2>6 DEF PlaceOK
  <2>9. QED
    BY <2>7, <2>8 DEF PlaceOK
<1>11. ASSUME NEW a \in NetThreads, NEW e \in Players, CmdEnterScene(a, e) PROVE PlaceOK'
  BY <1>11 DEF CmdEnterScene, OnEnterScene, Begin, TypeOK, OwnerOK, PlaceOK
<1>12. ASSUME NEW a \in NetThreads, NEW e \in Players, CmdMove(a, e) PROVE PlaceOK'
  BY <1>12 DEF CmdMove, StepMove, Begin, TypeOK, OwnerOK, PlaceOK
<1>13. ASSUME NEW a \in NetThreads, NEW e \in Players, Load(a, e) PROVE PlaceOK'
  BY <1>13 DEF Load, TypeOK, OwnerOK, PlaceOK
<1>14. CASE UNCHANGED vars
  BY <1>14 DEF vars, TypeOK, OwnerOK, PlaceOK
<1>15. ASSUME NEW a \in Actors, CheckScene(a) PROVE PlaceOK'
  BY <1>15 DEF CheckScene, TypeOK, OwnerOK, PlaceOK
<1>16. ASSUME NEW a \in Actors, Broadcast(a) PROVE PlaceOK'
  BY <1>16 DEF Broadcast, TypeOK, OwnerOK, PlaceOK
<1>17. QED
  BY <1>1, <1>2, <1>3, <1>4, <1>5, <1>6, <1>7, <1>8, <1>9, <1>10, <1>11, <1>12, <1>13, <1>14,
     <1>15, <1>16 DEF Next, EntityStep

\* No step of another thread disturbs what the World thread has done.
LEMMA ProgressStep ==
  ASSUME IndInv, [Next]_vars
  PROVE  ProgressOK'
<1> USE EntitiesAssumption DEF IndInv, Goto, threadVars, worldVars, callVars, searchVars, Entities, Actors
<1>1. ASSUME NEW a \in Actors, CallScene(a) PROVE ProgressOK'
  BY <1>1 DEF CallScene, TypeOK, OwnerOK, PlaceOK, ProgressOK
<1>2. ASSUME NEW a \in Actors, EraseX(a) PROVE ProgressOK'
  BY <1>2 DEF EraseX, TypeOK, OwnerOK, PlaceOK, ProgressOK
<1>3. ASSUME NEW a \in Actors, EraseZ(a) PROVE ProgressOK'
  BY <1>3 DEF EraseZ, TypeOK, OwnerOK, PlaceOK, ProgressOK
<1>4. ASSUME NEW a \in Actors, InsertX(a) PROVE ProgressOK'
  BY <1>4 DEF InsertX, InsertAt, TypeOK, OwnerOK, PlaceOK, ProgressOK
<1>5. ASSUME NEW a \in Actors, InsertZ(a) PROVE ProgressOK'
  BY <1>5 DEF InsertZ, InsertAt, TypeOK, OwnerOK, PlaceOK, ProgressOK
<1>6. ASSUME NEW a \in Actors, Near(a) PROVE ProgressOK'
  BY <1>6 DEF Near, TypeOK, OwnerOK, PlaceOK, ProgressOK
<1>7. ASSUME NEW a \in Actors, ScanX(a) PROVE ProgressOK'
  BY <1>7 DEF ScanX, TypeOK, OwnerOK, PlaceOK, ProgressOK
<1>8. ASSUME NEW a \in Actors, ScanZ(a) PROVE ProgressOK'
  BY <1>8 DEF ScanZ, TypeOK, OwnerOK, PlaceOK, ProgressOK
<1>9. CASE HosterPass
  BY <1>9 DEF HosterPass, TypeOK, OwnerOK, PlaceOK, ProgressOK
<1>10. ASSUME NEW h \in Hosters, HosterUpdate(h) PROVE ProgressOK'
  BY <1>10 DEF HosterUpdate, StepMove, Begin, TypeOK, OwnerOK, PlaceOK, ProgressOK
<1>11. ASSUME NEW a \in NetThreads, NEW e \in Players, CmdEnterScene(a, e) PROVE ProgressOK'
  BY <1>11 DEF CmdEnterScene, OnEnterScene, Begin, TypeOK, OwnerOK, PlaceOK, ProgressOK
<1>12. ASSUME NEW a \in NetThreads, NEW e \in Players, CmdMove(a, e) PROVE ProgressOK'
  <2>1. /\ stage'[World] = stage[World] /\ ent'[World] = ent[World]
        /\ dest'[World] = dest[World] /\ scn' = scn /\ xs' = xs
    BY <1>12 DEF CmdMove, StepMove, Begin, TypeOK
  <2>2. stage[World] # "idle" => pos'[ent[World]] = pos[ent[World]]
    BY <1>12 DEF CmdMove, StepMove, TypeOK, OwnerOK
  <2>3. QED
    BY <2>1, <2>2 DEF ProgressOK
<1>13. ASSUME NEW a \in NetThreads, NEW e \in Players, Load(a, e) PROVE ProgressOK'
  BY <1>13 DEF Load, TypeOK, OwnerOK, PlaceOK, ProgressOK
<1>14. CASE UNCHANGED vars
  BY <1>14 DEF vars, TypeOK, OwnerOK, PlaceOK, ProgressOK
<1>15. ASSUME NEW a \in Actors, CheckScene(a) PROVE ProgressOK'
  BY <1>15 DEF CheckScene, TypeOK, OwnerOK, PlaceOK, ProgressOK
<1>16. ASSUME NEW a \in Actors, Broadcast(a) PROVE ProgressOK'
  BY <1>16 DEF Broadcast, TypeOK, OwnerOK, PlaceOK, ProgressOK
<1>17. QED
  BY <1>1, <1>2, <1>3, <1>4, <1>5, <1>6, <1>7, <1>8, <1>9, <1>10, <1>11, <1>12, <1>13, <1>14,
     <1>15, <1>16 DEF Next, EntityStep

\* Every step keeps the entries of hosters near their homes.
LEMMA LeashStep ==
  ASSUME IndInv, [Next]_vars
  PROVE  HosterLeash'
<1> USE EntitiesAssumption DEF IndInv, Goto, threadVars, worldVars, callVars, searchVars, Entities, Actors
<1>1. ASSUME NEW a \in Actors, CallScene(a) PROVE HosterLeash'
  BY <1>1 DEF CallScene, TypeOK, OwnerOK, PlaceOK, ProgressOK, HosterLeash
<1>2. ASSUME NEW a \in Actors, EraseX(a) PROVE HosterLeash'
  BY <1>2 DEF EraseX, TypeOK, OwnerOK, PlaceOK, ProgressOK, HosterLeash
<1>3. ASSUME NEW a \in Actors, EraseZ(a) PROVE HosterLeash'
  BY <1>3 DEF EraseZ, TypeOK, OwnerOK, PlaceOK, ProgressOK, HosterLeash
<1>4. ASSUME NEW a \in Actors, InsertX(a) PROVE HosterLeash'
  BY <1>4 DEF InsertX, InsertAt, TypeOK, OwnerOK, PlaceOK, ProgressOK, HosterLeash
<1>5. ASSUME NEW a \in Actors, InsertZ(a) PROVE HosterLeash'
  BY <1>5 DEF InsertZ, InsertAt, TypeOK, OwnerOK, PlaceOK, ProgressOK, HosterLeash
<1>6. ASSUME NEW a \in Actors, Near(a) PROVE HosterLeash'
  BY <1>6 DEF Near, TypeOK, OwnerOK, PlaceOK, ProgressOK, HosterLeash
<1>7. ASSUME NEW a \in Actors, ScanX(a) PROVE HosterLeash'
  BY <1>7 DEF ScanX, TypeOK, OwnerOK, PlaceOK, ProgressOK, HosterLeash
<1>8. ASSUME NEW a \in Actors, ScanZ(a) PROVE HosterLeash'
  BY <1>8 DEF ScanZ, TypeOK, OwnerOK, PlaceOK, ProgressOK, HosterLeash
<1>9. CASE HosterPass
  BY <1>9 DEF HosterPass, TypeOK, OwnerOK, PlaceOK, ProgressOK, HosterLeash
<1>10. ASSUME NEW h \in Hosters, HosterUpdate(h) PROVE HosterLeash'
  BY <1>10 DEF HosterUpdate, StepMove, Begin, TypeOK, OwnerOK, PlaceOK, ProgressOK, HosterLeash
<1>11. ASSUME NEW a \in NetThreads, NEW e \in Players, CmdEnterScene(a, e) PROVE HosterLeash'
  BY <1>11 DEF CmdEnterScene, OnEnterScene, Begin, TypeOK, OwnerOK, PlaceOK, ProgressOK, HosterLeash
<1>12. ASSUME NEW a \in NetThreads, NEW e \in Players, CmdMove(a, e) PROVE HosterLeash'
  BY <1>12 DEF CmdMove, StepMove, Begin, TypeOK, OwnerOK, PlaceOK, ProgressOK, HosterLeash
<1>13. ASSUME NEW a \in NetThreads, NEW e \in Players, Load(a, e) PROVE HosterLeash'
  BY <1>13 DEF Load, TypeOK, OwnerOK, PlaceOK, ProgressOK, HosterLeash
<1>14. CASE UNCHANGED vars
  BY <1>14 DEF vars, TypeOK, OwnerOK, PlaceOK, ProgressOK, HosterLeash
<1>15. ASSUME NEW a \in Actors, CheckScene(a) PROVE HosterLeash'
  BY <1>15 DEF CheckScene, TypeOK, OwnerOK, PlaceOK, ProgressOK, HosterLeash
<1>16. ASSUME NEW a \in Actors, Broadcast(a) PROVE HosterLeash'
  BY <1>16 DEF Broadcast, TypeOK, OwnerOK, PlaceOK, ProgressOK, HosterLeash
<1>17. QED
  BY <1>1, <1>2, <1>3, <1>4, <1>5, <1>6, <1>7, <1>8, <1>9, <1>10, <1>11, <1>12, <1>13, <1>14,
     <1>15, <1>16 DEF Next, EntityStep

\* A step that leaves the hosters where they are and removes none of their entries
\* keeps the settled ones indexed.
LEMMA HostersKept ==
  ASSUME IndInv,
         \A h \in Hosters : pos'[h] = pos[h] /\ loc'[h] = loc[h]
                           /\ (Settled(h)' => Settled(h)),
         registered \subseteq registered',
         \A s \in Scenes : xs[s] \subseteq xs'[s] /\ zs[s] \subseteq zs'[s]
  PROVE  HosterIndexed'
<1> SUFFICES ASSUME NEW h \in Hosters, Settled(h)' PROVE IndexedAt(h)'
  BY DEF HosterIndexed
<1>1. IndexedAt(h)
  BY DEF IndInv, HosterIndexed
<1>2. loc[h] \in Scenes
  BY EntitiesAssumption DEF IndInv, PlaceOK
<1>3. QED
  BY <1>1, <1>2 DEF IndexedAt

\* Every step keeps the settled hosters indexed.
LEMMA IndexedStep ==
  ASSUME IndInv, [Next]_vars
  PROVE  HosterIndexed'
<1> USE EntitiesAssumption DEF IndInv, Goto, threadVars, worldVars, callVars, searchVars, Entities, Actors
<1>1. ASSUME NEW a \in Actors, CallScene(a) PROVE HosterIndexed'
  BY <1>1 DEF CallScene, TypeOK, OwnerOK, PlaceOK, ProgressOK, HosterIndexed, Settled, IndexedAt
<1>2. ASSUME NEW a \in Actors, EraseX(a) PROVE HosterIndexed'
  BY <1>2 DEF EraseX, TypeOK, OwnerOK, PlaceOK, ProgressOK, HosterIndexed, Settled, IndexedAt
<1>3. ASSUME NEW a \in Actors, EraseZ(a) PROVE HosterIndexed'
  BY <1>3 DEF EraseZ, TypeOK, OwnerOK, PlaceOK, ProgressOK, HosterIndexed, Settled, IndexedAt
<1>4. ASSUME NEW a \in Actors, InsertX(a) PROVE HosterIndexed'
  BY <1>4 DEF InsertX, InsertAt, TypeOK, OwnerOK, PlaceOK, ProgressOK, HosterIndexed, Settled, IndexedAt
<1>5. ASSUME NEW a \in Actors, InsertZ(a) PROVE HosterIndexed'
  <2>1. /\ zs' = [zs EXCEPT ![scn[a]] = @ \cup {<<Cell(InsertAt(a)[2]), ent[a]>>}]
        /\ stage' = [stage EXCEPT ![a] = "near"] /\ stage[a] = "insertZ"
        /\ UNCHANGED <<pos, loc, registered, xs, ent>>
    BY <1>5 DEF InsertZ
  <2>2. \A s \in Scenes : zs[s] \subseteq zs'[s]
    BY <2>1 DEF TypeOK
  <2>3. \A b \in Actors \ {a} : stage'[b] = stage[b]
    BY <2>1 DEF TypeOK
  <2>4. CASE a \in NetThreads
    <3>1. ent[a] \in Players
      BY <2>1, <2>4 DEF OwnerOK
    <3>2. \A h \in Hosters : Settled(h)' => Settled(h)
      BY <2>1, <2>3, <3>1 DEF Settled
    <3>3. QED
      BY <2>1, <2>2, <3>2, HostersKept
  <2>5. CASE a = World
    <3> SUFFICES ASSUME NEW h \in Hosters, Settled(h)' PROVE IndexedAt(h)'
      BY DEF HosterIndexed
    <3>1. CASE h = ent[World]
      <4>1. /\ InsertAt(World) = pos[h] /\ scn[World] = HomeScene[h] /\ loc[h] = HomeScene[h]
            /\ <<Cell(pos[h][1]), h>> \in xs[HomeScene[h]] /\ h \in registered
            /\ HomeScene[h] \in Scenes
        BY <2>1, <2>5, <3>1 DEF InsertAt, OwnerOK, PlaceOK, ProgressOK
      <4>2. <<Cell(pos[h][2]), h>> \in zs'[HomeScene[h]]
        BY <2>1, <2>5, <3>1, <4>1 DEF TypeOK
      <4>3. QED
        BY <2>1, <4>1, <4>2 DEF IndexedAt
    <3>2. CASE h # ent[World]
      <4>1. Settled(h)
        BY <2>1, <2>3, <2>5, <3>2 DEF Settled
      <4>2. IndexedAt(h) /\ loc[h] \in Scenes
        BY <4>1 DEF HosterIndexed, PlaceOK
      <4>3. QED
        BY <2>1, <2>2, <4>2 DEF IndexedAt
    <3>3. QED
      BY <3>1, <3>2
  <2>6. QED
    BY <2>4, <2>5
<1>6. ASSUME NEW a \in Actors, Near(a) PROVE HosterIndexed'
  BY <1>6 DEF Near, TypeOK, OwnerOK, PlaceOK, ProgressOK, HosterIndexed, Settled, IndexedAt
<1>7. ASSUME NEW a \in Actors, ScanX(a) PROVE HosterIndexed'
  BY <1>7 DEF ScanX, TypeOK, OwnerOK, PlaceOK, ProgressOK, HosterIndexed, Settled, IndexedAt
<1>8. ASSUME NEW a \in Actors, ScanZ(a) PROVE HosterIndexed'
  BY <1>8 DEF ScanZ, TypeOK, OwnerOK, PlaceOK, ProgressOK, HosterIndexed, Settled, IndexedAt
<1>9. CASE HosterPass
  BY <1>9 DEF HosterPass, TypeOK, OwnerOK, PlaceOK, ProgressOK, HosterIndexed, Settled, IndexedAt
<1>10. ASSUME NEW h \in Hosters, HosterUpdate(h) PROVE HosterIndexed'
  <2>1. PICK p \in Int \X Int : StepMove(World, h, p)
    BY <1>10 DEF HosterUpdate
  <2>2. /\ stage'[World] = "call" /\ ent'[World] = h /\ stage[World] = "idle"
        /\ \A b \in NetThreads : stage'[b] = stage[b] /\ ent'[b] = ent[b]
        /\ \A g \in Hosters \ {h} : pos'[g] = pos[g]
        /\ UNCHANGED <<loc, xs, zs, registered>>
    BY <2>1 DEF StepMove, Begin, TypeOK
  <2>3. ASSUME NEW g \in Hosters, Settled(g)'
        PROVE  IndexedAt(g)'
    <3>1. g # h
      BY <2>2, <2>3 DEF Settled
    <3>2. Settled(g)
      BY <2>2, <2>3 DEF Settled
    <3>3. IndexedAt(g)
      BY <3>2 DEF HosterIndexed
    <3>4. QED
      BY <2>2, <3>1, <3>3 DEF IndexedAt
  <2>4. QED
    BY <2>3 DEF HosterIndexed
<1>11. ASSUME NEW a \in NetThreads, NEW e \in Players, CmdEnterScene(a, e) PROVE HosterIndexed'
  <2>1. /\ stage[a] = "idle" /\ \A h \in Hosters : pos'[h] = pos[h] /\ loc'[h] = loc[h]
        /\ ent'[a] = e /\ \A b \in Actors \ {a} : stage'[b] = stage[b] /\ ent'[b] = ent[b]
        /\ UNCHANGED <<xs, zs, registered>>
    BY <1>11 DEF CmdEnterScene, OnEnterScene, Begin, TypeOK
  <2>2. \A h \in Hosters : Settled(h)' => Settled(h)
    BY <2>1 DEF Settled
  <2>3. QED
    BY <2>1, <2>2, HostersKept
<1>12. ASSUME NEW a \in NetThreads, NEW e \in Players, CmdMove(a, e) PROVE HosterIndexed'
  <2>1. /\ stage[a] = "idle" /\ \A h \in Hosters : pos'[h] = pos[h] /\ loc'[h] = loc[h]
        /\ ent'[a] = e /\ \A b \in Actors \ {a} : stage'[b] = stage[b] /\ ent'[b] = ent[b]
        /\ UNCHANGED <<xs, zs, registered>>
    BY <1>12 DEF CmdMove, StepMove, Begin, TypeOK
  <2>2. \A h \in Hosters : Settled(h)' => Settled(h)
    BY <2>1 DEF Settled
  <2>3. QED
    BY <2>1, <2>2, HostersKept
<1>13. ASSUME NEW a \in NetThreads, NEW e \in Players, Load(a, e) PROVE HosterIndexed'
  <2>1. ASSUME NEW h \in Hosters
        PROVE  pos'[h] = pos[h]
    BY <1>13 DEF Load, TypeOK
  <2>2. UNCHANGED <<loc, xs, zs, registered, stage, ent>>
    BY <1>13 DEF Load
  <2>3. ASSUME NEW h \in Hosters, Settled(h)'
        PROVE  IndexedAt(h)'
    <3>1. Settled(h)
      BY <2>2, <2>3 DEF Settled
    <3>2. IndexedAt(h)
      BY <3>1 DEF HosterIndexed
    <3>3. QED
      BY <2>1, <2>2, <3>2 DEF IndexedAt
  <2>4. QED
    BY <2>3 DEF HosterIndexed
<1>14. CASE UNCHANGED vars
  BY <1>14 DEF vars, TypeOK, OwnerOK, PlaceOK, ProgressOK, HosterIndexed, Settled, IndexedAt
<1>15. ASSUME NEW a \in Actors, CheckScene(a) PROVE HosterIndexed'
  BY <1>15 DEF CheckScene, TypeOK, OwnerOK, PlaceOK, ProgressOK, HosterIndexed, Settled, IndexedAt
<1>16. ASSUME NEW a \in Actors, Broadcast(a) PROVE HosterIndexed'
  BY <1>16 DEF Broadcast, TypeOK, OwnerOK, PlaceOK, ProgressOK, HosterIndexed, Settled, IndexedAt
<1>17. QED
  BY <1>1, <1>2, <1>3, <1>4, <1>5, <1>6, <1>7, <1>8, <1>9, <1>10, <1>11, <1>12, <1>13, <1>14,
     <1>15, <1>16 DEF Next, EntityStep

\* Every step keeps what was seen on the x axis within sight.
LEMMA SeenStep ==
  ASSUME IndInv, [Next]_vars
  PROVE  SeenOK'
<1> USE EntitiesAssumption DEF IndInv, Goto, threadVars, worldVars, callVars, searchVars, Entities, Actors
<1>1. ASSUME NEW a \in Actors, CallScene(a) PROVE SeenOK'
  BY <1>1 DEF CallScene, TypeOK, SeenOK
<1>2. ASSUME NEW a \in Actors, EraseX(a) PROVE SeenOK'
  BY <1>2 DEF EraseX, TypeOK, SeenOK
<1>3. ASSUME NEW a \in Actors, EraseZ(a) PROVE SeenOK'
  BY <1>3 DEF EraseZ, TypeOK, SeenOK
<1>4. ASSUME NEW a \in Actors, InsertX(a) PROVE SeenOK'
  BY <1>4 DEF InsertX, InsertAt, TypeOK, SeenOK
<1>5. ASSUME NEW a \in Actors, InsertZ(a) PROVE SeenOK'
  BY <1>5 DEF InsertZ, InsertAt, TypeOK, SeenOK
<1>6. ASSUME NEW a \in Actors, Near(a) PROVE SeenOK'
  <2>1. /\ at'[a] = center'[a][1] - Sight /\ center'[a][1] \in Int
        /\ stage[a] = "near" /\ stage'[a] \in {"idle", "scanX"}
        /\ \A b \in Actors \ {a} : /\ at'[b] = at[b] /\ center'[b] = center[b]
                                   /\ stage'[b] = stage[b]
        /\ UNCHANGED <<xseen, zseen>>
    <3>1. pos[ent[a]][1] \in Int
      BY DEF TypeOK
    <3>2. Cell(pos[ent[a]][1]) \in Int
      BY <3>1, CellType
    <3>3. /\ at' = [at EXCEPT ![a] = Cell(pos[ent[a]][1]) - Sight]
          /\ center' = [center EXCEPT ![a] = <<Cell(pos[ent[a]][1]), Cell(pos[ent[a]][2])>>]
          /\ stage[a] = "near" /\ xseen' = xseen /\ zseen' = zseen
      BY <1>6 DEF Near
    <3>4. stage' = [stage EXCEPT ![a] = IF loc[ent[a]] = NoScene THEN "idle" ELSE "scanX"]
      BY <1>6 DEF Near
    <3>5. stage'[a] \in {"idle", "scanX"} /\ \A b \in Actors \ {a} : stage'[b] = stage[b]
      BY <3>4 DEF TypeOK
    <3>6. center'[a] = <<Cell(pos[ent[a]][1]), Cell(pos[ent[a]][2])>>
      BY <3>3 DEF TypeOK
    <3>7. QED
      BY <3>2, <3>3, <3>5, <3>6 DEF TypeOK
  <2>2. Within(at'[a], center'[a][1], Sight)
    BY <2>1 DEF Within
  <2>3. xseen[a] = {} /\ zseen[a] = {}
    BY <2>1 DEF SeenOK
  <2>4. QED
    BY <2>1, <2>2, <2>3 DEF SeenOK
<1>7. ASSUME NEW a \in Actors, ScanX(a) PROVE SeenOK'
  <2>1. /\ scn[a] \in Scenes /\ Within(at[a], center[a][1], Sight)
        /\ at[a] \in Int /\ center[a][1] \in Int /\ center[a][2] \in Int
    BY <1>7 DEF ScanX, OwnerOK, SeenOK, TypeOK
  <2>2. ASSUME NEW h \in Hosters, h \in Listed(xs[scn[a]], at[a])
        PROVE  Within(Cell(Birth[h][1]), center[a][1], Sight + Speed[h])
    <3>1. PICK q \in xs[scn[a]] : q[2] = h /\ q[1] = at[a]
      BY <2>2 DEF Listed
    <3>2. Within(at[a], Cell(Birth[h][1]), Speed[h])
      BY <2>1, <3>1 DEF HosterLeash
    <3>3. Cell(Birth[h][1]) \in Int /\ Speed[h] \in Int
      BY CellType
    <3>4. QED
      BY <2>1, <3>2, <3>3, WithinTriangle DEF Within
  <2>3. /\ xseen'[a] = xseen[a] \cup Listed(xs[scn[a]], at[a])
        /\ \A b \in Actors \ {a} : /\ xseen'[b] = xseen[b] /\ at'[b] = at[b]
                                   /\ stage'[b] = stage[b]
        /\ center' = center /\ zseen' = zseen
    BY <1>7 DEF ScanX, TypeOK
  <2>4. \/ /\ stage'[a] = "scanX" /\ at'[a] = at[a] + 1
           /\ at[a] < center[a][1] + Sight
        \/ stage'[a] = "scanZ" /\ at'[a] = center[a][2] - Sight
    BY <1>7 DEF ScanX, TypeOK
  <2>5. /\ stage'[a] = "scanX" => Within(at'[a], center[a][1], Sight)
        /\ stage'[a] = "scanZ" => at'[a] >= center[a][2] - Sight
        /\ stage'[a] \in {"scanX", "scanZ"}
    BY <2>1, <2>4 DEF Within
  <2>6. QED
    BY <2>2, <2>3, <2>5 DEF SeenOK
<1>8. ASSUME NEW a \in Actors, ScanZ(a) PROVE SeenOK'
  <2>1. /\ scn[a] \in Scenes /\ Within(at[a], center[a][2], Sight)
        /\ at[a] \in Int /\ center[a][2] \in Int
    BY <1>8 DEF ScanZ, OwnerOK, SeenOK, TypeOK, Within
  <2>2. ASSUME NEW h \in Hosters, h \in Listed(zs[scn[a]], at[a])
        PROVE  Within(Cell(Birth[h][2]), center[a][2], Sight + Speed[h])
    <3>1. PICK q \in zs[scn[a]] : q[2] = h /\ q[1] = at[a]
      BY <2>2 DEF Listed
    <3>2. Within(at[a], Cell(Birth[h][2]), Speed[h])
      BY <2>1, <3>1 DEF HosterLeash
    <3>3. Cell(Birth[h][2]) \in Int /\ Speed[h] \in Int
      BY CellType
    <3>4. QED
      BY <2>1, <3>2, <3>3, WithinTriangle DEF Within
  <2>3. /\ zseen'[a] = zseen[a] \cup Listed(zs[scn[a]], at[a])
        /\ \A b \in Actors \ {a} : zseen'[b] = zseen[b] /\ at'[b] = at[b]
        /\ at'[a] = at[a] + 1 /\ stage[a] = "scanZ"
        /\ center' = center /\ xseen' = xseen /\ stage' = stage
    BY <1>8 DEF ScanZ, TypeOK
  <2>4. at'[a] >= center[a][2] - Sight
    BY <2>1, <2>3 DEF Within
  <2>5. QED
    BY <2>2, <2>3, <2>4 DEF SeenOK
<1>9. CASE HosterPass
  BY <1>9 DEF HosterPass, TypeOK, SeenOK
<1>10. ASSUME NEW h \in Hosters, HosterUpdate(h) PROVE SeenOK'
  BY <1>10 DEF HosterUpdate, StepMove, Begin, TypeOK, SeenOK
<1>11. ASSUME NEW a \in NetThreads, NEW e \in Players, CmdEnterScene(a, e) PROVE SeenOK'
  BY <1>11 DEF CmdEnterScene, OnEnterScene, Begin, TypeOK, SeenOK
<1>12. ASSUME NEW a \in NetThreads, NEW e \in Players, CmdMove(a, e) PROVE SeenOK'
  BY <1>12 DEF CmdMove, StepMove, Begin, TypeOK, SeenOK
<1>13. ASSUME NEW a \in NetThreads, NEW e \in Players, Load(a, e) PROVE SeenOK'
  BY <1>13 DEF Load, TypeOK, SeenOK
<1>14. CASE UNCHANGED vars
  BY <1>14 DEF vars, TypeOK, SeenOK
<1>15. ASSUME NEW a \in Actors, CheckScene(a) PROVE SeenOK'
  BY <1>15 DEF CheckScene, TypeOK, SeenOK
<1>16. ASSUME NEW a \in Actors, Broadcast(a) PROVE SeenOK'
  BY <1>16 DEF Broadcast, TypeOK, SeenOK
<1>17. QED
  BY <1>1, <1>2, <1>3, <1>4, <1>5, <1>6, <1>7, <1>8, <1>9, <1>10, <1>11, <1>12, <1>13, <1>14,
     <1>15, <1>16 DEF Next, EntityStep

\* Every step keeps the receivers within reach.
LEMMA HearsStep ==
  ASSUME IndInv, [Next]_vars
  PROVE  HearsNearby'
<1> USE EntitiesAssumption DEF IndInv, Goto, threadVars, worldVars, callVars, searchVars, Entities, Actors
<1>1. ASSUME NEW a \in Actors, CallScene(a) PROVE HearsNearby'
  BY <1>1 DEF CallScene, TypeOK, OwnerOK, HearsNearby
<1>2. ASSUME NEW a \in Actors, EraseX(a) PROVE HearsNearby'
  BY <1>2 DEF EraseX, TypeOK, OwnerOK, HearsNearby
<1>3. ASSUME NEW a \in Actors, EraseZ(a) PROVE HearsNearby'
  BY <1>3 DEF EraseZ, TypeOK, OwnerOK, HearsNearby
<1>4. ASSUME NEW a \in Actors, InsertX(a) PROVE HearsNearby'
  BY <1>4 DEF InsertX, InsertAt, TypeOK, OwnerOK, HearsNearby
<1>5. ASSUME NEW a \in Actors, InsertZ(a) PROVE HearsNearby'
  BY <1>5 DEF InsertZ, InsertAt, TypeOK, OwnerOK, HearsNearby
<1>6. ASSUME NEW a \in Actors, Near(a) PROVE HearsNearby'
  BY <1>6 DEF Near, TypeOK, OwnerOK, HearsNearby
<1>7. ASSUME NEW a \in Actors, ScanX(a) PROVE HearsNearby'
  BY <1>7 DEF ScanX, TypeOK, OwnerOK, HearsNearby
<1>8. ASSUME NEW a \in Actors, ScanZ(a) PROVE HearsNearby'
  BY <1>8 DEF ScanZ, TypeOK, OwnerOK, HearsNearby
<1>9. CASE HosterPass
  BY <1>9 DEF HosterPass, TypeOK, OwnerOK, HearsNearby
<1>10. ASSUME NEW h \in Hosters, HosterUpdate(h) PROVE HearsNearby'
  BY <1>10 DEF HosterUpdate, StepMove, Begin, TypeOK, OwnerOK, HearsNearby
<1>11. ASSUME NEW a \in NetThreads, NEW e \in Players, CmdEnterScene(a, e) PROVE HearsNearby'
  BY <1>11 DEF CmdEnterScene, OnEnterScene, Begin, TypeOK, OwnerOK, HearsNearby
<1>12. ASSUME NEW a \in NetThreads, NEW e \in Players, CmdMove(a, e) PROVE HearsNearby'
  BY <1>12 DEF CmdMove, StepMove, Begin, TypeOK, OwnerOK, HearsNearby
<1>13. ASSUME NEW a \in NetThreads, NEW e \in Players, Load(a, e) PROVE HearsNearby'
  BY <1>13 DEF Load, TypeOK, OwnerOK, HearsNearby
<1>14. CASE UNCHANGED vars
  BY <1>14 DEF vars, TypeOK, OwnerOK, HearsNearby
<1>15. ASSUME NEW a \in Actors, CheckScene(a) PROVE HearsNearby'
  BY <1>15 DEF CheckScene, TypeOK, OwnerOK, HearsNearby
<1>16. ASSUME NEW a \in Actors, Broadcast(a) PROVE HearsNearby'
  <2>1. PICK R \in NearBy(xseen[a], zseen[a]) :
          heard' = [heard EXCEPT ![a] = R \cap registered]
    BY <1>16 DEF Broadcast
  <2>2. R \subseteq xseen[a] /\ R \subseteq zseen[a]
    BY <2>1 DEF NearBy
  <2>3. ASSUME NEW h \in Hosters, h \in R
        PROVE  /\ Within(Cell(Birth[h][1]), center[a][1], Sight + Speed[h])
               /\ Within(Cell(Birth[h][2]), center[a][2], Sight + Speed[h])
    BY <2>2, <2>3 DEF SeenOK
  <2>4. center' = center /\ heard'[a] = R \cap registered
    BY <1>16, <2>1 DEF Broadcast, TypeOK
  <2>5. \A b \in Actors \ {a} : heard'[b] = heard[b]
    BY <2>1 DEF TypeOK
  <2>6. QED
    BY <2>3, <2>4, <2>5 DEF HearsNearby
<1>17. QED
  BY <1>1, <1>2, <1>3, <1>4, <1>5, <1>6, <1>7, <1>8, <1>9, <1>10, <1>11, <1>12, <1>13, <1>14,
     <1>15, <1>16 DEF Next, EntityStep

-----------------------------------------------------------------------------
\* The inductive invariant holds when the program starts.
LEMMA IndInvInit == Init => IndInv
<1> SUFFICES ASSUME Init PROVE IndInv
  OBVIOUS
<1> USE EntitiesAssumption DEF Entities, Actors
<1>1. TypeOK
  <2>1. \A h \in Hosters : Cell(Birth[h][1]) \in Int /\ Cell(Birth[h][2]) \in Int
    BY CellType
  <2>2. xs \in [Scenes -> SUBSET (Int \X Entities)]
    BY <2>1 DEF Init
  <2>3. zs \in [Scenes -> SUBSET (Int \X Entities)]
    BY <2>1 DEF Init
  <2>4. pos \in [Entities -> Int \X Int] /\ loc \in [Entities -> Scenes \cup {NoScene}]
    BY DEF Init, Origin
  <2>5. QED
    BY <2>2, <2>3, <2>4 DEF Init, TypeOK, Stages, Origin
<1>2. OwnerOK /\ ProgressOK /\ SeenOK /\ HearsNearby
  BY DEF Init, OwnerOK, ProgressOK, SeenOK, HearsNearby
<1>3. \A h \in Hosters : /\ Within(Cell(Birth[h][1]), Cell(Birth[h][1]), Speed[h])
                        /\ Within(Cell(Birth[h][2]), Cell(Birth[h][2]), Speed[h])
  BY CellType DEF Within
<1>4. PlaceOK
  BY <1>3 DEF Init, PlaceOK
<1>5. HosterLeash
  BY <1>3 DEF Init, HosterLeash
<1>6. HosterIndexed
  BY DEF Init, HosterIndexed, IndexedAt
<1>7. QED
  BY <1>1, <1>2, <1>4, <1>5, <1>6 DEF IndInv

\* The inductive invariant is kept by every step, action by action.
LEMMA IndInvStep == IndInv /\ [Next]_vars => IndInv'
BY TypeStep, OwnerStep, PlaceStep, ProgressStep, LeashStep, IndexedStep, SeenStep,
   HearsStep DEF IndInv

\* In every reachable state the scene index satisfies its inductive invariant:
\* only the World thread moves hosters, and each stage of a move has done what
\* the stages before it do (Scene.cpp:39-52).
THEOREM Invariance == Spec => []IndInv
BY IndInvInit, IndInvStep, PTL DEF Spec

\* Type correctness: the tables of a scene hold cells and entities, and a thread at
\* work on an entity has one, whoever else moves it (Scene.cpp:39-80).
THEOREM TypeCorrect == Spec => []TypeOK
<1>1. IndInv => TypeOK
  BY DEF IndInv
<1>2. QED
  BY <1>1, Invariance, PTL

\* A hoster that is not being moved is found at the cell it is in
\* (Entity.cpp:36-45, 73-81).
THEOREM HosterIndexedCorrect == Spec => []HosterIndexed
<1>1. IndInv => HosterIndexed
  BY DEF IndInv
<1>2. QED
  BY <1>1, Invariance, PTL

\* The index entries of a hoster stay within its speed of its place of birth
\* (Hoster.cpp).
THEOREM LeashCorrect == Spec => []HosterLeash
<1>1. IndInv => HosterLeash
  BY DEF IndInv
<1>2. QED
  BY <1>1, Invariance, PTL

\* A broadcast reaches only hosters that live within sight plus their speed
\* (Scene.cpp:62-80).
THEOREM HearsNearbyCorrect == Spec => []HearsNearby
<1>1. IndInv => HearsNearby
  BY DEF IndInv
<1>2. QED
  BY <1>1, Invariance, PTL

-----------------------------------------------------------------------------
(* Players on several threads.                                             *)

\* A step that leaves the threads on their way, the scene and the entries of a
\* player alone keeps it listed.
LEMMA KeptStays ==
  ASSUME NEW e \in Players, KeptIn(e), loc'[e] = loc[e], e \in registered => e \in registered',
         \A b \in NetThreads :
           ent[b] = e /\ stage[b] \in {"check", "call", "eraseZ", "insertX", "insertZ"} =>
             /\ ent'[b] = e /\ op'[b] = op[b]
             /\ stage'[b] = stage[b] /\ scn'[b] = scn[b],
         \A q \in xs[loc[e]] : q[2] = e => q \in xs'[loc[e]],
         \A q \in zs[loc[e]] : q[2] = e => q \in zs'[loc[e]]
  PROVE  KeptIn(e)'
<1>1. Entering(e) => Entering(e)'
  BY DEF Entering
<1>2. /\ Inserting(e, loc[e], {"eraseZ", "insertX"})
           => Inserting(e, loc[e], {"eraseZ", "insertX"})'
      /\ Inserting(e, loc[e], {"insertX", "insertZ"})
           => Inserting(e, loc[e], {"insertX", "insertZ"})'
  BY DEF Inserting
<1>3. QED
  BY <1>1, <1>2 DEF KeptIn

\* Every step of a thread at work keeps every player listed.
LEMMA KeptEntityStep ==
  ASSUME KeptInv, NEW a \in Actors, EntityStep(a), NEW e \in Players
  PROVE  KeptIn(e)'
<1> USE EntitiesAssumption DEF KeptInv, IndInv, Goto, worldVars, callVars, searchVars, Entities, Actors
<1>0. /\ KeptIn(e) /\ e \in Entities /\ a = World => stage[a] # "idle"
      /\ stage[World] # "idle" => ent[World] # e
  BY DEF OwnerOK, EntityStep, CheckScene, CallScene, EraseX, EraseZ, InsertX, InsertZ, Near,
         ScanX, ScanZ, Broadcast
<1>1. CASE CheckScene(a)
  <2>1. CASE loc[ent[a]] = NoScene /\ ent[a] = e
    BY <1>1, <2>1 DEF CheckScene, KeptIn
  <2>2. CASE loc[ent[a]] = NoScene /\ ent[a] # e
    <3>1. \A b \in NetThreads : ent[b] = e => stage'[b] = stage[b]
      BY <1>1, <2>2 DEF CheckScene, TypeOK
    <3>2. QED
      BY <1>0, <1>1, <3>1, KeptStays DEF CheckScene
  <2>3. CASE loc[ent[a]] # NoScene
    <3>1. stage' = [stage EXCEPT ![a] = "call"] /\ stage[a] = "check"
      BY <1>1, <2>3 DEF CheckScene
    <3>2. Entering(e) => Entering(e)'
      BY <1>1, <3>1 DEF CheckScene, Entering, TypeOK
    <3>3. /\ Inserting(e, loc[e], {"eraseZ", "insertX"})
               => Inserting(e, loc[e], {"eraseZ", "insertX"})'
          /\ Inserting(e, loc[e], {"insertX", "insertZ"})
               => Inserting(e, loc[e], {"insertX", "insertZ"})'
      BY <1>1, <3>1 DEF CheckScene, Inserting, TypeOK
    <3>4. loc' = loc /\ registered' = registered /\ xs' = xs /\ zs' = zs
      BY <1>1 DEF CheckScene
    <3>5. QED
      BY <1>0, <3>2, <3>3, <3>4 DEF KeptIn
  <2>4. QED
    BY <2>1, <2>2, <2>3
<1>2. CASE CallScene(a)
  <2>1. CASE ent[a] = e /\ loc[e] # NoScene /\ op[a] = "enter"
    <3>1. /\ stage'[a] = "insertX" /\ scn'[a] = loc[e] /\ e \in registered'
          /\ ent' = ent /\ loc' = loc /\ a \in NetThreads
      BY <1>0, <1>2, <2>1 DEF CallScene, TypeOK
    <3>2. /\ Inserting(e, loc[e], {"eraseZ", "insertX"})'
          /\ Inserting(e, loc[e], {"insertX", "insertZ"})'
      BY <2>1, <3>1 DEF Inserting
    <3>3. QED
      BY <3>1, <3>2 DEF KeptIn
  <2>2. CASE ent[a] = e /\ loc[e] # NoScene /\ op[a] = "move"
    <3>1. /\ stage[a] = "call" /\ ent' = ent /\ op' = op /\ loc' = loc /\ xs' = xs /\ zs' = zs
          /\ registered' = registered
          /\ \A b \in Actors \ {a} : stage'[b] = stage[b] /\ scn'[b] = scn[b]
      BY <1>2, <2>2 DEF CallScene, TypeOK
    <3>2. /\ Entering(e) => Entering(e)'
          /\ Inserting(e, loc[e], {"eraseZ", "insertX"})
               => Inserting(e, loc[e], {"eraseZ", "insertX"})'
          /\ Inserting(e, loc[e], {"insertX", "insertZ"})
               => Inserting(e, loc[e], {"insertX", "insertZ"})'
      BY <2>2, <3>1 DEF Entering, Inserting
    <3>3. QED
      BY <1>0, <3>1, <3>2 DEF KeptIn
  <2>3. CASE ent[a] = e /\ loc[e] = NoScene
    BY <1>2, <2>3 DEF CallScene, KeptIn
  <2>4. CASE ent[a] # e
    <3>1. /\ \A b \in NetThreads : ent[b] = e => stage'[b] = stage[b] /\ scn'[b] = scn[b]
          /\ registered \subseteq registered'
      BY <1>2, <2>4 DEF CallScene, TypeOK
    <3>2. QED
      BY <1>0, <1>2, <3>1, KeptStays DEF CallScene
  <2>5. QED
    BY <2>1, <2>2, <2>3, <2>4 DEF TypeOK
<1>3. CASE EraseX(a)
  <2>1. /\ xs' = [xs EXCEPT ![scn[a]] = @ \ {<<Cell(pos[ent[a]][1]), ent[a]>>}]
        /\ stage' = [stage EXCEPT ![a] = "eraseZ"] /\ stage[a] = "eraseX" /\ scn[a] \in Scenes
        /\ UNCHANGED <<loc, registered, zs, ent, op, scn>>
    BY <1>3 DEF EraseX, OwnerOK
  <2>2. /\ stage'[a] = "eraseZ" /\ \A b \in Actors \ {a} : stage'[b] = stage[b]
        /\ \A s \in Scenes : s # scn[a] => xs'[s] = xs[s]
        /\ \A s \in Scenes : \A q \in xs[s] : q[2] # ent[a] => q \in xs'[s]
    BY <2>1 DEF TypeOK
  <2>3. CASE ent[a] # e \/ loc[e] # scn[a]
    <3>1. loc[e] # NoScene => \A q \in xs[loc[e]] : q[2] = e => q \in xs'[loc[e]]
      BY <1>0, <2>2, <2>3 DEF TypeOK
    <3>2. \A b \in NetThreads : stage[b] \in {"check", "call", "eraseZ", "insertX", "insertZ"}
            => stage'[b] = stage[b]
      BY <2>1, <2>2
    <3>3. QED
      BY <1>0, <2>1, <3>1, <3>2, KeptStays DEF KeptIn
  <2>4. CASE ent[a] = e /\ loc[e] = scn[a]
    <3>1. a \in NetThreads
      BY <1>0, <2>1, <2>4
    <3>2. Inserting(e, loc[e], {"eraseZ", "insertX"})'
      BY <2>1, <2>2, <2>4, <3>1 DEF Inserting
    <3>3. /\ Entering(e) => Entering(e)'
          /\ Inserting(e, loc[e], {"insertX", "insertZ"})
               => Inserting(e, loc[e], {"insertX", "insertZ"})'
      BY <2>1, <2>2 DEF Entering, Inserting
    <3>4. QED
      BY <1>0, <2>1, <3>2, <3>3 DEF KeptIn
  <2>5. QED
    BY <2>3, <2>4
<1>4. CASE EraseZ(a)
  <2>1. /\ zs' = [zs EXCEPT ![scn[a]] = @ \ {<<Cell(pos[ent[a]][2]), ent[a]>>}]
        /\ stage' = [stage EXCEPT ![a] = "insertX"] /\ stage[a] = "eraseZ" /\ scn[a] \in Scenes
        /\ UNCHANGED <<loc, registered, xs, ent, op, scn>>
    BY <1>4 DEF EraseZ, OwnerOK
  <2>2. /\ stage'[a] = "insertX" /\ \A b \in Actors \ {a} : stage'[b] = stage[b]
        /\ \A s \in Scenes : s # scn[a] => zs'[s] = zs[s]
        /\ \A s \in Scenes : \A q \in zs[s] : q[2] # ent[a] => q \in zs'[s]
    BY <2>1 DEF TypeOK
  <2>3. /\ Entering(e) => Entering(e)'
        /\ Inserting(e, loc[e], {"eraseZ", "insertX"})
             => Inserting(e, loc[e], {"eraseZ", "insertX"})'
        /\ Inserting(e, loc[e], {"insertX", "insertZ"})
             => Inserting(e, loc[e], {"insertX", "insertZ"})'
    BY <2>1, <2>2 DEF Entering, Inserting
  <2>4. CASE ent[a] # e \/ loc[e] # scn[a]
    <3>1. loc[e] # NoScene => \A q \in zs[loc[e]] : q[2] = e => q \in zs'[loc[e]]
      BY <1>0, <2>2, <2>4 DEF TypeOK
    <3>2. QED
      BY <1>0, <2>1, <2>3, <3>1 DEF KeptIn
  <2>5. CASE ent[a] = e /\ loc[e] = scn[a]
    <3>1. Inserting(e, loc[e], {"insertX", "insertZ"})'
      BY <1>0, <2>1, <2>2, <2>5 DEF Inserting
    <3>2. QED
      BY <1>0, <2>1, <2>3, <3>1 DEF KeptIn
  <2>6. QED
    BY <2>4, <2>5
<1>5. CASE InsertX(a)
  <2>1. /\ xs' = [xs EXCEPT ![scn[a]] = @ \cup {<<Cell(InsertAt(a)[1]), ent[a]>>}]
        /\ stage' = [stage EXCEPT ![a] = "insertZ"] /\ stage[a] = "insertX" /\ scn[a] \in Scenes
        /\ UNCHANGED <<loc, registered, zs, ent, op, scn>>
    BY <1>5 DEF InsertX, OwnerOK
  <2>2. /\ stage'[a] = "insertZ" /\ \A b \in Actors \ {a} : stage'[b] = stage[b]
        /\ \A s \in Scenes : xs[s] \subseteq xs'[s]
        /\ <<Cell(InsertAt(a)[1]), ent[a]>> \in xs'[scn[a]]
    BY <2>1 DEF TypeOK
  <2>3. /\ Entering(e) => Entering(e)'
        /\ Inserting(e, loc[e], {"insertX", "insertZ"})
             => Inserting(e, loc[e], {"insertX", "insertZ"})'
    BY <2>1, <2>2 DEF Entering, Inserting
  <2>4. loc[e] # NoScene => xs[loc[e]] \subseteq xs'[loc[e]]
    BY <1>0, <2>2 DEF TypeOK
  <2>5. CASE ent[a] # e \/ loc[e] # scn[a]
    <3>1. Inserting(e, loc[e], {"eraseZ", "insertX"})
             => Inserting(e, loc[e], {"eraseZ", "insertX"})'
      BY <2>1, <2>2, <2>5 DEF Inserting
    <3>2. QED
      BY <1>0, <2>1, <2>3, <2>4, <3>1 DEF KeptIn
  <2>6. CASE ent[a] = e /\ loc[e] = scn[a]
    <3>1. \E q \in xs'[loc[e]] : q[2] = e
      BY <2>2, <2>6
    <3>2. QED
      BY <1>0, <2>1, <2>3, <3>1 DEF KeptIn
  <2>7. QED
    BY <2>5, <2>6
<1>6. CASE InsertZ(a)
  <2>1. /\ zs' = [zs EXCEPT ![scn[a]] = @ \cup {<<Cell(InsertAt(a)[2]), ent[a]>>}]
        /\ stage' = [stage EXCEPT ![a] = "near"] /\ stage[a] = "insertZ" /\ scn[a] \in Scenes
        /\ UNCHANGED <<loc, registered, xs, ent, op, scn>>
    BY <1>6 DEF InsertZ, OwnerOK
  <2>2. /\ stage'[a] = "near" /\ \A b \in Actors \ {a} : stage'[b] = stage[b]
        /\ \A s \in Scenes : zs[s] \subseteq zs'[s]
        /\ <<Cell(InsertAt(a)[2]), ent[a]>> \in zs'[scn[a]]
    BY <2>1 DEF TypeOK
  <2>3. /\ Entering(e) => Entering(e)'
        /\ Inserting(e, loc[e], {"eraseZ", "insertX"})
             => Inserting(e, loc[e], {"eraseZ", "insertX"})'
    BY <2>1, <2>2 DEF Entering, Inserting
  <2>4. loc[e] # NoScene => zs[loc[e]] \subseteq zs'[loc[e]]
    BY <1>0, <2>2 DEF TypeOK
  <2>5. CASE ent[a] # e \/ loc[e] # scn[a]
    <3>1. Inserting(e, loc[e], {"insertX", "insertZ"})
             => Inserting(e, loc[e], {"insertX", "insertZ"})'
      BY <2>1, <2>2, <2>5 DEF Inserting
    <3>2. QED
      BY <1>0, <2>1, <2>3, <2>4, <3>1 DEF KeptIn
  <2>6. CASE ent[a] = e /\ loc[e] = scn[a]
    <3>1. \E q \in zs'[loc[e]] : q[2] = e
      BY <2>2, <2>6
    <3>2. QED
      BY <1>0, <2>1, <2>3, <3>1 DEF KeptIn
  <2>7. QED
    BY <2>5, <2>6
<1>7. CASE Near(a) \/ ScanX(a) \/ ScanZ(a) \/ Broadcast(a)
  <2>1. /\ UNCHANGED <<loc, registered, xs, zs, ent, op>>
        /\ stage[a] \in {"near", "scanX", "scanZ"}
        /\ \A b \in Actors \ {a} : stage'[b] = stage[b] /\ scn'[b] = scn[b]
    BY <1>7 DEF Near, ScanX, ScanZ, Broadcast, TypeOK
  <2>2. QED
    BY <1>0, <2>1, KeptStays
<1>8. QED
  BY <1>1, <1>2, <1>3, <1>4, <1>5, <1>6, <1>7 DEF EntityStep

\* Every step of the specification keeps every player listed.
LEMMA KeptStep ==
  ASSUME KeptInv, [Next]_vars, NEW e \in Players
  PROVE  KeptIn(e)'
<1> USE EntitiesAssumption DEF Goto, threadVars, worldVars, callVars, searchVars, Entities, Actors
<1>0. KeptIn(e) /\ TypeOK /\ e \in Entities /\ e \notin Hosters
  BY DEF KeptInv, IndInv
<1>1. ASSUME NEW a \in Actors, EntityStep(a) PROVE KeptIn(e)'
  BY <1>1, KeptEntityStep
<1>2. CASE HosterPass \/ UNCHANGED vars
  BY <1>0, <1>2, KeptStays DEF HosterPass, vars
<1>3. ASSUME NEW h \in Hosters, HosterUpdate(h) PROVE KeptIn(e)'
  <2>1. /\ \A b \in NetThreads : /\ stage'[b] = stage[b] /\ ent'[b] = ent[b]
                                 /\ op'[b] = op[b] /\ scn'[b] = scn[b]
        /\ UNCHANGED <<loc, xs, zs, registered>>
    BY <1>0, <1>3 DEF HosterUpdate, StepMove, Begin, TypeOK
  <2>2. QED
    BY <1>0, <2>1, KeptStays
<1>4. ASSUME NEW a \in NetThreads, NEW f \in Players, CmdEnterScene(a, f) PROVE KeptIn(e)'
  <2>1. PICK s \in Scenes \cup {NoScene} : OnEnterScene(a, f, s)
    BY <1>4 DEF CmdEnterScene
  <2>2. /\ stage[a] = "idle" /\ stage'[a] = "check" /\ ent'[a] = f /\ op'[a] = "enter"
        /\ \A b \in Actors \ {a} : /\ stage'[b] = stage[b] /\ ent'[b] = ent[b]
                                   /\ op'[b] = op[b] /\ scn'[b] = scn[b]
        /\ f # e => loc'[e] = loc[e]
        /\ UNCHANGED <<xs, zs, registered>>
    BY <1>0, <2>1 DEF OnEnterScene, Begin, TypeOK
  <2>3. CASE f = e
    <3>1. Entering(e)'
      BY <2>2, <2>3 DEF Entering
    <3>2. QED
      BY <3>1 DEF KeptIn
  <2>4. CASE f # e
    BY <1>0, <2>2, <2>4, KeptStays
  <2>5. QED
    BY <2>3, <2>4
<1>5. ASSUME NEW a \in NetThreads, NEW f \in Players, CmdMove(a, f) PROVE KeptIn(e)'
  <2>1. /\ stage[a] = "idle"
        /\ \A b \in Actors \ {a} : /\ stage'[b] = stage[b] /\ ent'[b] = ent[b]
                                   /\ op'[b] = op[b] /\ scn'[b] = scn[b]
        /\ UNCHANGED <<loc, xs, zs, registered>>
    BY <1>0, <1>5 DEF CmdMove, StepMove, Begin, TypeOK
  <2>2. QED
    BY <1>0, <2>1, KeptStays
<1>6. ASSUME NEW a \in NetThreads, NEW f \in Players, Load(a, f) PROVE KeptIn(e)'
  BY <1>0, <1>6, KeptStays DEF Load
<1>7. QED
  BY <1>1, <1>2, <1>3, <1>4, <1>5, <1>6 DEF Next

\* No entity in a scene is lost, however many threads move it and enter it into
\* scenes at the same time (Entity.cpp:36-45, 73-81, Scene.cpp:29-52).
THEOREM NeverLostCorrect == Spec => []NeverLost
<1>1. Init => KeptInv
  <2>1. Init => \A e \in Players : KeptIn(e)
    <3>1. Init => \A e \in Players : loc[e] = NoScene
      BY EntitiesAssumption DEF Init, Entities
    <3>2. QED
      BY <3>1 DEF KeptIn
  <2>2. QED
    BY <2>1, IndInvInit DEF KeptInv
<1>2. KeptInv /\ [Next]_vars => KeptInv'
  <2> SUFFICES ASSUME KeptInv, [Next]_vars PROVE KeptInv'
    OBVIOUS
  <2>1. IndInv'
    BY IndInvStep DEF KeptInv
  <2>2. \A e \in Players : KeptIn(e)'
    BY KeptStep
  <2>3. QED
    BY <2>1, <2>2 DEF KeptInv
<1>3. KeptInv => NeverLost
  <2> SUFFICES ASSUME KeptInv, NEW e \in Entities, Settled(e), loc[e] # NoScene
               PROVE  /\ e \in registered
                      /\ \E q \in xs[loc[e]] : q[2] = e
                      /\ \E q \in zs[loc[e]] : q[2] = e
    BY DEF NeverLost
  <2>1. CASE e \in Hosters
    BY <2>1 DEF KeptInv, IndInv, HosterIndexed, IndexedAt
  <2>2. CASE e \in Players
    <3>1. KeptIn(e)
      BY <2>2 DEF KeptInv
    <3>2. /\ ~Entering(e) /\ ~Inserting(e, loc[e], {"eraseZ", "insertX"})
          /\ ~Inserting(e, loc[e], {"insertX", "insertZ"})
      BY DEF Settled, Entering, Inserting, Actors
    <3>3. QED
      BY <3>1, <3>2 DEF KeptIn
  <2>3. QED
    BY <2>1, <2>2 DEF Entities
<1>4. QED
  BY <1>1, <1>2, <1>3, PTL DEF Spec
=============================================================================
