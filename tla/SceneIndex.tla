----------------------------- MODULE SceneIndex -----------------------------
(***************************************************************************)
(* Entities in scenes: Entity::OnEnterScene / StepMove / SendNearbyMessage *)
(* over the two axis indexes of Scene, with the callers that drive them.   *)
(*                                                                         *)
(* The World thread moves the hosters, one after the other, in the passes  *)
(* HosterManager::Update makes.  The network threads run the commands of   *)
(* the players (enter a scene, move, log in); the server has one Player    *)
(* object, g_player, so two network threads may run commands of the same   *)
(* player.  No lock protects a scene or an entity: each access to one of   *)
(* the hash tables is one step here, and the steps of different threads    *)
(* interleave.  (That such an access is atomic is more than the code       *)
(* guarantees; see the README.)                                            *)
(*                                                                         *)
(* Coordinates are floats that the tables key by int32_t.  Here they are   *)
(* counted in halves, and Cell is the conversion: truncation towards zero. *)
(***************************************************************************)
EXTENDS Integers, FiniteSets

CONSTANTS
  Hosters, Players,  \* ids of the residents and of the players
  NetThreads,        \* the network threads that run player commands
  Scenes,            \* the scenes SceneManager has loaded
  HomeScene, Birth, Speed,  \* of each hoster: scene, position, speed
  Points,            \* the positions clients ask to move to, in halves
  Sight              \* MAX_SIGHT_DISTANCE

Entities == Hosters \cup Players

World   == "world"
Actors  == {World} \cup NetThreads
NoScene == "no scene"      \* _locate_scene == nullptr, and an unknown scene id
Origin  == <<0, 0>>        \* the position of a record nobody has moved

ASSUME EntitiesAssumption ==
  /\ Hosters \subseteq Int /\ Players \subseteq Int /\ Hosters \cap Players = {}
  /\ World \notin NetThreads
  /\ NoScene \notin Scenes
  /\ HomeScene \in [Hosters -> Scenes]
  /\ Birth \in [Hosters -> Int \X Int]
  /\ Speed \in [Hosters -> Nat]
  /\ Points \subseteq Int \X Int
  /\ Sight \in Nat

VARIABLES
  pos,         \* pos[e]: the position in _super_common_prop
  loc,         \* loc[e]: _locate_scene
  xs, zs,      \* xs[s]: _x_entities of scene s, as pairs <<cell, id>>; zs alike
  registered,  \* the ids in EntityManager
  pending,     \* the hosters the current pass has still to update
  stage,       \* stage[a]: where thread a is, "idle" between two operations
  op,          \* op[a]: "enter" or "move", the operation it executes
  ent, dest,   \* its entity and, for a move, its position argument
  scn,         \* the scene it called into
  center,      \* the cells around which it looks for neighbours
  at,          \* the cell it reads next
  xseen, zseen,  \* the ids it has found on each axis
  heard        \* the receivers of its last broadcast

callVars   == <<op, ent, dest>>
searchVars == <<center, at, xseen, zseen>>
threadVars == <<stage, callVars, scn, searchVars, heard>>
worldVars  == <<pos, loc, registered, pending>>
vars == <<worldVars, xs, zs, threadVars>>

Cell(p) == IF p >= 0 THEN p \div 2 ELSE -((-p) \div 2)

\* main() loads the world before it starts the network: the hosters are born
\* and registered, no player is there yet.
Init ==
  /\ pos = [e \in Entities |-> IF e \in Hosters THEN Birth[e] ELSE Origin]
  /\ loc = [e \in Entities |-> IF e \in Hosters THEN HomeScene[e] ELSE NoScene]
  /\ xs = [s \in Scenes |-> {<<Cell(Birth[h][1]), h>> :
                               h \in {g \in Hosters : HomeScene[g] = s}}]
  /\ zs = [s \in Scenes |-> {<<Cell(Birth[h][2]), h>> :
                               h \in {g \in Hosters : HomeScene[g] = s}}]
  /\ registered = Hosters
  /\ pending = {}
  /\ stage = [a \in Actors |-> "idle"]
  /\ op = [a \in Actors |-> "move"]
  /\ \E e \in Entities : ent = [a \in Actors |-> e]
  /\ dest = [a \in Actors |-> Origin]
  /\ scn = [a \in Actors |-> NoScene]
  /\ center = [a \in Actors |-> Origin]
  /\ at = [a \in Actors |-> 0]
  /\ xseen = [a \in Actors |-> {}]
  /\ zseen = [a \in Actors |-> {}]
  /\ heard = [a \in Actors |-> {}]

-----------------------------------------------------------------------------
(* The operations of an entity, step by step.                              *)

Goto(a, st) == stage' = [stage EXCEPT ![a] = st]

Begin(a, e, o, p, st) ==
  /\ Goto(a, st)
  /\ op' = [op EXCEPT ![a] = o]
  /\ ent' = [ent EXCEPT ![a] = e]
  /\ dest' = [dest EXCEPT ![a] = p]
  /\ heard' = [heard EXCEPT ![a] = {}]
  /\ UNCHANGED <<scn, searchVars>>

\* Entity::OnEnterScene, up to the test of _locate_scene: the scene the entity was in
\* keeps its entries.
OnEnterScene(a, e, s) ==
  /\ stage[a] = "idle"
  /\ loc' = [loc EXCEPT ![e] = s]
  /\ Begin(a, e, "enter", pos[e], "check")
  /\ UNCHANGED <<pos, xs, zs, registered>>

\* The test: without a scene (an unknown id, here or on another thread) it returns.
CheckScene(a) ==
  /\ stage[a] = "check"
  /\ Goto(a, IF loc[ent[a]] = NoScene THEN "idle" ELSE "call")
  /\ UNCHANGED <<worldVars, xs, zs, callVars, scn, searchVars, heard>>

\* Entity::StepMove: without a scene nothing happens; otherwise the entity's own
\* position is set first.
StepMove(a, e, p) ==
  /\ stage[a] = "idle" /\ loc[e] # NoScene
  /\ pos' = [pos EXCEPT ![e] = p]
  /\ Begin(a, e, "move", p, "call")
  /\ UNCHANGED <<loc, xs, zs, registered>>

\* GetScene()->EnterScene(...) or GetScene()->UpdatePosition(...): the scene is
\* the one the entity has now; a null scene is dereferenced.
CallScene(a) ==
  LET e == ent[a] IN
  /\ stage[a] = "call"
  /\ scn' = [scn EXCEPT ![a] = loc[e]]
  /\ registered' = IF op[a] = "enter" /\ loc[e] # NoScene THEN registered \cup {e}
                                                         ELSE registered
  /\ Goto(a, IF loc[e] = NoScene THEN "crashed"
             ELSE IF op[a] = "enter" THEN "insertX" ELSE "eraseX")
  /\ UNCHANGED <<pos, loc, pending, xs, zs, callVars, searchVars, heard>>

\* Scene::UpdatePosition erases at the position the entity has now.
EraseX(a) ==
  /\ stage[a] = "eraseX"
  /\ xs' = [xs EXCEPT ![scn[a]] = @ \ {<<Cell(pos[ent[a]][1]), ent[a]>>}]
  /\ Goto(a, "eraseZ")
  /\ UNCHANGED <<worldVars, zs, callVars, scn, searchVars, heard>>

EraseZ(a) ==
  /\ stage[a] = "eraseZ"
  /\ zs' = [zs EXCEPT ![scn[a]] = @ \ {<<Cell(pos[ent[a]][2]), ent[a]>>}]
  /\ Goto(a, "insertX")
  /\ UNCHANGED <<worldVars, xs, callVars, scn, searchVars, heard>>

\* UpdatePosition inserts at its argument, EnterScene at the entity's position.
InsertAt(a) == IF op[a] = "enter" THEN pos[ent[a]] ELSE dest[a]

\* Mutant: UpdatePosition forgets to enter the new x position.
InsertXNever(a) ==
  /\ stage[a] = "insertX"
  /\ xs' = IF op[a] = "enter"
             THEN [xs EXCEPT ![scn[a]] = @ \cup {<<Cell(InsertAt(a)[1]), ent[a]>>}]
             ELSE xs
  /\ Goto(a, "insertZ")
  /\ UNCHANGED <<worldVars, zs, callVars, scn, searchVars, heard>>

InsertX(a) ==
  /\ stage[a] = "insertX"
  /\ xs' = [xs EXCEPT ![scn[a]] = @ \cup {<<Cell(InsertAt(a)[1]), ent[a]>>}]
  /\ Goto(a, "insertZ")
  /\ UNCHANGED <<worldVars, zs, callVars, scn, searchVars, heard>>

InsertZ(a) ==
  /\ stage[a] = "insertZ"
  /\ zs' = [zs EXCEPT ![scn[a]] = @ \cup {<<Cell(InsertAt(a)[2]), ent[a]>>}]
  /\ Goto(a, "near")
  /\ UNCHANGED <<worldVars, xs, callVars, scn, searchVars, heard>>

\* SendNearbyMessage: no scene, no message; otherwise GetNearByEntities takes
\* the entity's cell as the center of the search.
Near(a) ==
  LET e == ent[a] IN
  /\ stage[a] = "near"
  /\ scn' = [scn EXCEPT ![a] = loc[e]]
  /\ center' = [center EXCEPT ![a] = <<Cell(pos[e][1]), Cell(pos[e][2])>>]
  /\ at' = [at EXCEPT ![a] = Cell(pos[e][1]) - Sight]
  /\ Goto(a, IF loc[e] = NoScene THEN "idle" ELSE "scanX")
  /\ UNCHANGED <<worldVars, xs, zs, callVars, xseen, zseen, heard>>

\* The ids listed in one cell of an axis.
Listed(axis, cell) == {q[2] : q \in {r \in axis : r[1] = cell}}

\* The x axis is read from cell - Sight to cell + Sight, one cell at a time.
ScanX(a) ==
  /\ stage[a] = "scanX"
  /\ xseen' = [xseen EXCEPT ![a] = @ \cup Listed(xs[scn[a]], at[a])]
  /\ IF at[a] < center[a][1] + Sight
       THEN at' = [at EXCEPT ![a] = @ + 1] /\ UNCHANGED stage
       ELSE at' = [at EXCEPT ![a] = center[a][2] - Sight] /\ Goto(a, "scanZ")
  /\ UNCHANGED <<worldVars, xs, zs, callVars, scn, center, zseen, heard>>

\* The orders in which an unordered_set may be iterated.
Orders(S) == {q \in [1 .. Cardinality(S) -> S] :
                \A i, j \in 1 .. Cardinality(S) : q[i] = q[j] => i = j}

\* std::set_intersection on two ranges: it takes both for sorted.
SetIntersection(f, g) ==
  LET m == Cardinality(DOMAIN f)
      n == Cardinality(DOMAIN g)
      from[i \in 1 .. m + 1, j \in 1 .. n + 1] ==
        IF i > m \/ j > n THEN {}
        ELSE IF f[i] < g[j] THEN from[i + 1, j]
        ELSE IF g[j] < f[i] THEN from[i, j + 1]
        ELSE {f[i]} \cup from[i + 1, j + 1]
  IN from[1, 1]

\* Mutant: a union where the intersection belongs.
NearByEither(X, Z) == {X \cup Z}

\* What GetNearByEntities may return: the common ids the merge comes across.
NearBy(X, Z) == {R \in SUBSET (X \cap Z) :
                   \E f \in Orders(X), g \in Orders(Z) : R = SetIntersection(f, g)}

\* The z axis likewise.
ScanZ(a) ==
  /\ stage[a] = "scanZ" /\ at[a] <= center[a][2] + Sight
  /\ zseen' = [zseen EXCEPT ![a] = @ \cup Listed(zs[scn[a]], at[a])]
  /\ at' = [at EXCEPT ![a] = @ + 1]
  /\ UNCHANGED <<worldVars, xs, zs, stage, callVars, scn, center, xseen, heard>>

\* Each entity found on both that is registered is sent the message; the sets of
\* the search are gone.
Broadcast(a) ==
  /\ stage[a] = "scanZ" /\ at[a] > center[a][2] + Sight
  /\ \E R \in NearBy(xseen[a], zseen[a]) :
       heard' = [heard EXCEPT ![a] = R \cap registered]
  /\ xseen' = [xseen EXCEPT ![a] = {}] /\ zseen' = [zseen EXCEPT ![a] = {}]
  /\ Goto(a, "idle")
  /\ UNCHANGED <<worldVars, xs, zs, callVars, scn, center, at>>

-----------------------------------------------------------------------------
(* The callers.                                                            *)

\* Mutant: a pass over everything that is registered.
HosterPassAll ==
  /\ stage[World] = "idle" /\ pending = {} /\ Hosters # {}
  /\ pending' = registered
  /\ UNCHANGED <<pos, loc, xs, zs, registered, threadVars>>

\* World::Update once a second: a pass over all hosters.
HosterPass ==
  /\ stage[World] = "idle" /\ pending = {} /\ Hosters # {}
  /\ pending' = Hosters
  /\ UNCHANGED <<pos, loc, xs, zs, registered, threadVars>>

\* Mutant: a random walk from where the hoster is.
HosterUpdateWalks(h) ==
  /\ h \in pending
  /\ \E dx, dz \in -Speed[h] .. Speed[h] :
       StepMove(World, h, <<pos[h][1] + 2 * dx, pos[h][2] + 2 * dz>>)
  /\ pending' = pending \ {h}

\* Hoster::Update: a random position around the place of birth.
HosterUpdate(h) ==
  /\ h \in pending
  /\ \E dx, dz \in -Speed[h] .. Speed[h] :
       StepMove(World, h, <<Birth[h][1] + 2 * dx, Birth[h][2] + 2 * dz>>)
  /\ pending' = pending \ {h}

\* Player::CmdEnterScene with a scene of the server or an unknown id.
CmdEnterScene(a, e) ==
  /\ \E s \in Scenes \cup {NoScene} : OnEnterScene(a, e, s)
  /\ UNCHANGED pending

CmdMove(a, e) ==
  /\ \E p \in Points : StepMove(a, e, p)
  /\ UNCHANGED pending

\* Player::CmdLogin, Player::OnEnterGame: Load() replaces the common properties,
\* the position included, by those of the record, which is saved when the player
\* is created and never again; without a record nothing changes.
Load(a, e) ==
  /\ stage[a] = "idle"
  /\ pos' = [pos EXCEPT ![e] = Origin]
  /\ UNCHANGED <<loc, xs, zs, registered, pending, threadVars>>

-----------------------------------------------------------------------------
EntityStep(a) == \/ CheckScene(a) \/ CallScene(a) \/ EraseX(a) \/ EraseZ(a)
                 \/ InsertX(a) \/ InsertZ(a) \/ Near(a) \/ ScanX(a) \/ ScanZ(a)
                 \/ Broadcast(a)

Next == \/ \E a \in Actors : EntityStep(a)
        \/ HosterPass
        \/ \E h \in Hosters : HosterUpdate(h)
        \/ \E a \in NetThreads, e \in Players :
             CmdEnterScene(a, e) \/ CmdMove(a, e) \/ Load(a, e)

Spec == Init /\ [][Next]_vars

-----------------------------------------------------------------------------
Stages == {"idle", "check", "call", "eraseX", "eraseZ", "insertX", "insertZ", "near",
           "scanX", "scanZ", "crashed"}

\* Every variable keeps its type; in particular a pass of HosterManager::Update
\* visits hosters only (Hoster.cpp:136-143).
TypeOK ==
  /\ pos \in [Entities -> Int \X Int]
  /\ loc \in [Entities -> Scenes \cup {NoScene}]
  /\ xs \in [Scenes -> SUBSET (Int \X Entities)]
  /\ zs \in [Scenes -> SUBSET (Int \X Entities)]
  /\ registered \in SUBSET Entities
  /\ pending \in SUBSET Hosters
  /\ stage \in [Actors -> Stages]
  /\ op \in [Actors -> {"enter", "move"}]
  /\ ent \in [Actors -> Entities]
  /\ dest \in [Actors -> Int \X Int]
  /\ scn \in [Actors -> Scenes \cup {NoScene}]
  /\ center \in [Actors -> Int \X Int]
  /\ at \in [Actors -> Int]
  /\ xseen \in [Actors -> SUBSET Entities]
  /\ zseen \in [Actors -> SUBSET Entities]
  /\ heard \in [Actors -> SUBSET Entities]

Within(c, d, r) == c - d <= r /\ d - c <= r

\* No thread is changing the index entries of e.
Settled(e) == \A a \in Actors :
                ent[a] = e => stage[a] \in {"idle", "near", "scanX", "scanZ"}

IndexedAt(e) ==
  /\ e \in registered
  /\ <<Cell(pos[e][1]), e>> \in xs[loc[e]]
  /\ <<Cell(pos[e][2]), e>> \in zs[loc[e]]

\* A hoster that is not being moved is found at the cell it is in, on both axes,
\* whatever the players do (Entity.cpp:77-78, Scene.cpp:47-51).
HosterIndexed == \A h \in Hosters : Settled(h) => IndexedAt(h)

\* Stale entries of hosters stay near home: in its own scene, on either axis at
\* most its speed away from its place of birth, so the index cannot grow without
\* bound and no hoster is ever found in a foreign scene (Hoster.cpp:90-101).
HosterLeash ==
  \A s \in Scenes, h \in Hosters :
    /\ \A q \in xs[s] : q[2] = h => /\ s = HomeScene[h]
                                     /\ Within(q[1], Cell(Birth[h][1]), Speed[h])
    /\ \A q \in zs[s] : q[2] = h => /\ s = HomeScene[h]
                                     /\ Within(q[1], Cell(Birth[h][2]), Speed[h])

\* A broadcast reaches only hosters whose home is in sight of the sender, give or
\* take the hoster's speed -- even with stale entries, neighbours moving during
\* the two scans, and sets merged out of order (Scene.cpp:62-80).
HearsNearby ==
  \A a \in Actors : \A h \in heard[a] \cap Hosters :
    /\ Within(Cell(Birth[h][1]), center[a][1], Sight + Speed[h])
    /\ Within(Cell(Birth[h][2]), center[a][2], Sight + Speed[h])

\* An entity that is in a scene and is not being moved is listed in that scene, on
\* both axes, and registered: moves and entries of one player on several threads
\* interleave at every access to the tables, and may leave it in the wrong cell, but
\* never lose it (Scene.cpp:29-51, Entity.cpp:36-45).
NeverLost ==
  \A e \in Entities : Settled(e) /\ loc[e] # NoScene =>
    /\ e \in registered
    /\ \E q \in xs[loc[e]] : q[2] = e
    /\ \E q \in zs[loc[e]] : q[2] = e

-----------------------------------------------------------------------------
(* What comments say, or the code relies on, and the model refutes (see    *)
(* the README).                                                            *)

\* No operation calls into the scene of an entity that has none (Entity.cpp:36-45,
\* 73-81).  Not so with two network threads.
NoNullScene == \A a \in Actors : stage[a] # "crashed"

\* "Update the position in the scene: delete the previous position, add the new
\* one" (Entity.cpp:78), the second half: an entity that is in a scene and is not
\* being moved is indexed where it is.  Not so after a login in a second scene: in the
\* first one the stale entry of Origin hides it.
AllIndexed == \A e \in Entities : Settled(e) /\ loc[e] # NoScene => IndexedAt(e)

\* The same comment, the first half: nothing but the current position is left.
NoStaleEntries ==
  \A e \in Entities : Settled(e) /\ loc[e] # NoScene =>
    /\ \A q \in xs[loc[e]] : q[2] = e => q[1] = Cell(pos[e][1])
    /\ \A q \in zs[loc[e]] : q[2] = e => q[1] = Cell(pos[e][2])

\* "Including itself" (Scene.h:59): the sender is among the entities it finds.
\* (A sender is always registered, so it would be among the receivers.)
FindsItself ==
  [][\A a \in Actors : stage[a] = "scanZ" /\ stage'[a] = "idle"
       => ent[a] \in heard'[a]]_vars
=============================================================================
