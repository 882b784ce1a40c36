------------------------------- MODULE Startup -------------------------------
(***************************************************************************)
(* main() up to the World loop: World::Load (the protocol table, the       *)
(* assets, the scenes, the hosters), then StartNetwork, whose result       *)
(* nobody looks at.                                                        *)
(*                                                                         *)
(* An asset file lies in a sub-directory of the asset path that is named   *)
(* after its message.  Directories are iterated in no particular order,    *)
(* and so are the unordered sets of the asset tables.  A bad file cannot   *)
(* be opened, is empty or too long.  A garbled one (also one of negative   *)
(* size, or shorter than it says) does not parse, which nobody tests: its  *)
(* fields keep their default 0, or what was parsed before the error, out   *)
(* of a buffer that may hold anything.                                     *)
(***************************************************************************)
EXTENDS Integers, Sequences, FiniteSets

CONSTANTS
  Declared,   \* the META_TYPE of each message of P_Protocol.proto, in order;
              \* 0 for Meta and for a message without one
  C2SCount,   \* META_TYPE_C2S_COUNT
  Dirs,       \* directories that may lie in the asset path
  MessageOf,  \* MessageOf[d]: "Scene", "Hoster", another asset message, or
              \* "none" if no message with the fields an asset needs has this name
  TypeT,      \* TypeT[m]: the default of type_t in message m, a number
  Files,      \* files that may lie in them
  DirOf,      \* DirOf[f]: the directory of f
  IdOf,       \* IdOf[f]: global_id of the common_prop in f
  SceneOf,    \* SceneOf[f]: scene_id of the human_prop in a hoster file f
  MaxBad,     \* bound on the files that are bad
  MaxGarbled, \* bound on the files that are garbled
  None

ASSET_TYPE_HOSTER == 6
ASSET_TYPE_SCENE == 9

Ids == {0} \cup {IdOf[f] : f \in Files} \cup {SceneOf[f] : f \in Files}
Messages == {MessageOf[d] : d \in Dirs} \ {"none"}
Types == {TypeT[m] : m \in Messages} \cup {ASSET_TYPE_HOSTER, ASSET_TYPE_SCENE}

ASSUME FilesAssumption ==
  /\ Declared \in Seq(Nat) /\ C2SCount \in Nat
  /\ MaxBad \in Nat /\ MaxGarbled \in Nat
  /\ DirOf \in [Files -> Dirs] /\ DOMAIN MessageOf = Dirs
  /\ TypeT \in [Messages -> Nat]
  /\ IdOf \in [Files -> Int] /\ SceneOf \in [Files -> Int]
  /\ None \notin Files \cup Dirs

VARIABLES
  stage,      \* what main() is doing; "network" when World::Load returned true,
              \* "loop" in WorldUpdateLoop, "exit" when World::Load returned false
  bad, garbled,
  global_id,  \* the id of each file and the scene of each hoster file, as they
  scene_id,   \* come out of ParseFromArray
  stray,      \* a file lies directly in the asset path
  dirs,       \* the directories there are
  protocols,  \* ProtocolManager::_messages: the message kept for each type
  entries,    \* entries of the asset path still to come
  dir, left,  \* the directory being read, and its files still to come
  assets,     \* _assets: the file Get(id) returns the data of
  bytypes,    \* _assets_bytypes
  scenes,     \* SceneManager::_scenes, by the files they come from
  pending,    \* the hoster data HosterManager::Load has still to look at
  hosters,    \* HosterManager::_hosters, by the files they come from
  registry,   \* EntityManager::_entities, by the files they come from
  listening   \* the acceptor is bound and its accept chain started

diskVars  == <<bad, garbled, global_id, scene_id, stray, dirs>>
assetVars == <<entries, dir, left, assets, bytypes>>
worldVars == <<scenes, pending, hosters, registry>>
vars == <<stage, diskVars, protocols, assetVars, worldVars, listening>>

FilesIn(d) == {f \in Files : DirOf[f] = d}
Message(f) == MessageOf[DirOf[f]]
SceneIds == {global_id[s] : s \in scenes}

Init ==
  /\ stage = "protocol"
  /\ stray \in BOOLEAN /\ dirs \in SUBSET Dirs
  /\ bad \in SUBSET {f \in Files : DirOf[f] \in dirs}
  /\ garbled \in SUBSET {f \in Files \ bad : DirOf[f] \in dirs}
  /\ Cardinality(bad) <= MaxBad /\ Cardinality(garbled) <= MaxGarbled
  /\ \E id, home \in [garbled -> Ids] :
       /\ global_id = [f \in Files |-> IF f \in garbled THEN id[f] ELSE IdOf[f]]
       /\ scene_id = [f \in Files |-> IF f \in garbled THEN home[f] ELSE SceneOf[f]]
  /\ protocols = {}
  /\ entries = {} /\ dir = None /\ left = {}
  /\ assets = [i \in Ids |-> None] /\ bytypes = [t \in Types |-> {}]
  /\ scenes = {} /\ pending = {} /\ hosters = {}
  /\ registry = [i \in Ids |-> None]
  /\ listening = FALSE

-----------------------------------------------------------------------------
\* ProtocolManager::Load keeps the first message of each client type.
LoadProtocols ==
  /\ stage = "protocol" /\ stage' = "assets"
  /\ protocols' = {i \in DOMAIN Declared :
                     /\ Declared[i] \in 1 .. C2SCount
                     /\ \A j \in 1 .. i - 1 : Declared[j] # Declared[i]}
  /\ entries' = dirs
  /\ UNCHANGED <<diskVars, dir, left, assets, bytypes, worldVars, listening>>

\* LoadAssets goes into a sub-directory.
OpenDirectory(d) ==
  /\ stage = "assets" /\ dir = None /\ d \in entries
  /\ entries' = entries \ {d}
  /\ dir' = d /\ left' = FilesIn(d)
  /\ UNCHANGED <<stage, diskVars, protocols, assets, bytypes, worldVars, listening>>

\* Mutant: the first bad file ends the loading of all directories.
LeaveAll ==
  /\ dir' = None /\ left' = {} /\ entries' = {}
  /\ UNCHANGED <<assets, bytypes>>

\* Return from the recursive call, whose result nobody looks at.
LeaveDirectory ==
  /\ dir' = None /\ left' = {}
  /\ UNCHANGED <<entries, assets, bytypes>>

CloseDirectory ==
  /\ stage = "assets" /\ dir # None /\ left = {}
  /\ LeaveDirectory
  /\ UNCHANGED <<stage, diskVars, protocols, worldVars, listening>>

\* Mutant: the file enters the table of ids before its type is known to be sound.
LoadFileHalf(f) ==
  /\ stage = "assets" /\ f \in left
  /\ assets' = IF f \notin bad /\ assets[global_id[f]] = None
                 THEN [assets EXCEPT ![global_id[f]] = f] ELSE assets
  /\ IF f \in bad \/ Message(f) = "none"
       THEN dir' = None /\ left' = {} /\ UNCHANGED bytypes
       ELSE /\ left' = left \ {f} /\ UNCHANGED dir
            /\ bytypes' = [bytypes EXCEPT ![TypeT[Message(f)]] = @ \cup {f}]
  /\ UNCHANGED <<stage, diskVars, protocols, entries, worldVars, listening>>

\* A file: the id that is already there keeps its data, while the table of types
\* gets both, under the number of the message.  A file that is bad, or no asset,
\* ends its directory.
LoadFile(f) ==
  /\ stage = "assets" /\ f \in left
  /\ IF f \in bad \/ Message(f) = "none" THEN LeaveDirectory
     ELSE /\ left' = left \ {f}
          /\ assets' = IF assets[global_id[f]] = None
                         THEN [assets EXCEPT ![global_id[f]] = f] ELSE assets
          /\ bytypes' = [bytypes EXCEPT ![TypeT[Message(f)]] = @ \cup {f}]
          /\ UNCHANGED <<entries, dir>>
  /\ UNCHANGED <<stage, diskVars, protocols, worldVars, listening>>

\* A file directly in the asset path has no message: LoadAssets returns false, and
\* so does World::Load.
StrayFile ==
  /\ stage = "assets" /\ dir = None /\ stray
  /\ stage' = "exit"
  /\ UNCHANGED <<diskVars, protocols, assetVars, worldVars, listening>>

EndAssets ==
  /\ stage = "assets" /\ dir = None /\ entries = {} /\ ~stray
  /\ stage' = "scenes"
  /\ UNCHANGED <<diskVars, protocols, assetVars, worldVars, listening>>

-----------------------------------------------------------------------------
\* SceneManager::Load: one scene for each id, any of the files that have it.
LoadScenes ==
  /\ stage = "scenes" /\ stage' = "hosters"
  /\ \A f \in bytypes[ASSET_TYPE_SCENE] : Message(f) = "Scene"
  /\ \E S \in SUBSET bytypes[ASSET_TYPE_SCENE] :
       /\ \A f \in bytypes[ASSET_TYPE_SCENE] : global_id[f] \in {global_id[s] : s \in S}
       /\ \A s, t \in S : global_id[s] = global_id[t] => s = t
       /\ scenes' = S
  /\ pending' = bytypes[ASSET_TYPE_HOSTER]
  /\ UNCHANGED <<diskVars, protocols, assetVars, hosters, registry, listening>>

\* A message with the number of another one is in the table of its type: the cast
\* of a manager fails, and World::Load returns false.
CastFails ==
  /\ \/ stage = "scenes" /\ \E f \in bytypes[ASSET_TYPE_SCENE] : Message(f) # "Scene"
     \/ stage = "hosters" /\ \E f \in pending : Message(f) # "Hoster"
  /\ stage' = "exit"
  /\ UNCHANGED <<diskVars, protocols, assetVars, worldVars, listening>>

Born(f) ==
  /\ hosters' = hosters \cup {f}
  /\ registry' = IF registry[global_id[f]] = None
                   THEN [registry EXCEPT ![global_id[f]] = f] ELSE registry

\* Mutant: a hoster without a scene ends the loading of hosters.
LoadHosterStops(f) ==
  /\ stage = "hosters" /\ f \in pending /\ Message(f) = "Hoster"
  /\ IF scene_id[f] \in SceneIds THEN Born(f) /\ pending' = pending \ {f}
                                 ELSE pending' = {} /\ UNCHANGED <<hosters, registry>>
  /\ UNCHANGED <<stage, diskVars, protocols, assetVars, scenes, listening>>

\* Mutant: the result of the cast is not tested.
LoadHosterAny(f) ==
  /\ stage = "hosters" /\ f \in pending
  /\ pending' = pending \ {f}
  /\ IF scene_id[f] \in SceneIds THEN Born(f) ELSE UNCHANGED <<hosters, registry>>
  /\ UNCHANGED <<stage, diskVars, protocols, assetVars, scenes, listening>>

\* HosterManager::Load, one hoster: without its scene it is left out; otherwise it
\* is born there, and EntityManager::Add keeps who has its id already.
LoadHoster(f) ==
  /\ stage = "hosters" /\ f \in pending /\ Message(f) = "Hoster"
  /\ pending' = pending \ {f}
  /\ IF scene_id[f] \in SceneIds THEN Born(f) ELSE UNCHANGED <<hosters, registry>>
  /\ UNCHANGED <<stage, diskVars, protocols, assetVars, scenes, listening>>

EndHosters ==
  /\ stage = "hosters" /\ pending = {}
  /\ stage' = "network"
  /\ UNCHANGED <<diskVars, protocols, assetVars, worldVars, listening>>

\* The port may be taken; the World loop is entered all the same.
StartNetwork ==
  /\ stage = "network" /\ stage' = "loop"
  /\ listening' \in BOOLEAN
  /\ UNCHANGED <<diskVars, protocols, assetVars, worldVars>>

\* WorldLoop is the specification of the rest; after "exit" there is none.
Running == stage \in {"loop", "exit"} /\ UNCHANGED vars

-----------------------------------------------------------------------------
Next == \/ LoadProtocols \/ CloseDirectory \/ StrayFile \/ EndAssets \/ LoadScenes
        \/ CastFails \/ EndHosters \/ StartNetwork \/ Running
        \/ \E d \in Dirs : OpenDirectory(d)
        \/ \E f \in Files : LoadFile(f) \/ LoadHoster(f)

Spec == Init /\ [][Next]_vars

-----------------------------------------------------------------------------
Loaded == UNION {bytypes[t] : t \in Types}

\* Every variable keeps its type: a table of types holds files of its number, the
\* scenes are Scene messages and the hosters Hoster messages, also when another
\* message has their number (Asset.cpp:137, Scene.h:78, Hoster.cpp:116).
TypeOK ==
  /\ stage \in {"protocol", "assets", "scenes", "hosters", "network", "loop",
               "exit"}
  /\ global_id \in [Files -> Ids] /\ scene_id \in [Files -> Ids]
  /\ protocols \subseteq DOMAIN Declared
  /\ entries \subseteq Dirs /\ dir \in Dirs \cup {None} /\ left \subseteq Files
  /\ assets \in [Ids -> Files \cup {None}] /\ bytypes \in [Types -> SUBSET Files]
  /\ \A t \in Types : \A f \in bytypes[t] :
       Message(f) # "none" /\ TypeT[Message(f)] = t
  /\ scenes \subseteq Files /\ pending \subseteq Files /\ hosters \subseteq Files
  /\ \A f \in scenes : Message(f) = "Scene"
  /\ \A f \in hosters : Message(f) = "Hoster"
  /\ registry \in [Ids -> Files \cup {None}]
  /\ listening \in BOOLEAN

\* The two asset tables say the same at every moment of loading: Get(id) finds
\* something exactly if a file with that id is in the table of types, and what it
\* finds has that id (Asset.cpp:133-138), also if files share an id or are garbled.
TablesAgree ==
  \A i \in Ids :
    /\ assets[i] = None <=> \A f \in Loaded : global_id[f] # i
    /\ assets[i] # None => assets[i] \in Loaded /\ global_id[assets[i]] = i

\* A bad file costs its own directory at most: every directory that is sound is
\* loaded completely, in whatever order they come (Asset.cpp:64-94).
SoundDirsComplete ==
  stage \in {"scenes", "hosters", "network", "loop"} =>
    \A d \in dirs : MessageOf[d] # "none" /\ FilesIn(d) \cap bad = {}
                      => FilesIn(d) \subseteq Loaded

\* The World moves exactly the hosters whose scene was loaded, and messages to the
\* id of each of them find a hoster (Hoster.cpp:111-134), whatever is missing,
\* garbled or twice there.
HostersHomed ==
  /\ stage \in {"network", "loop"} =>
       hosters = {f \in bytypes[ASSET_TYPE_HOSTER] : scene_id[f] \in SceneIds}
  /\ \A h \in hosters : /\ registry[global_id[h]] \in hosters
                        /\ global_id[registry[global_id[h]]] = global_id[h]

-----------------------------------------------------------------------------
(* What comments say and the model refutes (see the README).               *)

\* "If one has a problem, leave" (Asset.cpp:77, 107): World::Load succeeds only if
\* no file was bad.
BadFileStops == stage \in {"network", "loop"} => \A f \in bad : DirOf[f] \notin dirs

\* "The table of unique global ids" (Asset.cpp:133): the data of a scene and what
\* Get(id) returns for its id are the same.
SceneIsItsAsset == \A s \in scenes : assets[global_id[s]] = s
=============================================================================
