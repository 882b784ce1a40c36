---------------------------- MODULE StartupProofs ----------------------------
(***************************************************************************)
(* Theorems about Startup for any disk: any directories, files, ids and    *)
(* faults, in any order of iteration.                                      *)
(*                                                                         *)
(* A sound directory is complete at the end because at each moment it is   *)
(* still to come, or each of its files is loaded or still to come          *)
(* (CompleteOK).  The hosters are right at the end because at each moment  *)
(* those already looked at are (HostersOK).                                *)
(***************************************************************************)
EXTENDS Startup, TLAPS

\* The disk does not change: what is there lies in the directories there are.
DiskOK == dirs \subseteq Dirs /\ bad \subseteq Files /\ garbled \subseteq Files

\* The files still to come are those of the directory being read; when the assets
\* are loaded, nothing is still to come.
ReadingOK ==
  /\ entries \subseteq dirs /\ dir \in dirs \cup {None}
  /\ \A f \in left : DirOf[f] = dir
  /\ stage \in {"scenes", "hosters", "network", "loop"} =>
       entries = {} /\ dir = None

Sound(d) == MessageOf[d] # "none" /\ FilesIn(d) \cap bad = {}

\* A sound directory is still to come, or each of its files is loaded or still to
\* come.
CompleteOK ==
  stage # "protocol" =>
    \A d \in dirs : Sound(d) => d \in entries \/ FilesIn(d) \subseteq Loaded \cup left

\* Of the hosters already looked at, those with a scene are there, and whatever is
\* registered is one of them under its own id.
HostersOK ==
  /\ stage \in {"protocol", "assets", "scenes"} => hosters = {}
  /\ stage \in {"hosters", "network", "loop"} =>
       hosters = {f \in bytypes[ASSET_TYPE_HOSTER] \ pending : scene_id[f] \in SceneIds}
  /\ stage = "hosters" => pending \subseteq bytypes[ASSET_TYPE_HOSTER]
  /\ stage \in {"network", "loop"} => pending = {}
  /\ \A i \in Ids : registry[i] # None =>
                      registry[i] \in hosters /\ global_id[registry[i]] = i
  /\ \A h \in hosters : registry[global_id[h]] # None

IndInv == TypeOK /\ DiskOK /\ ReadingOK /\ CompleteOK /\ TablesAgree /\ HostersOK

-----------------------------------------------------------------------------
\* The ids in an asset file are among the ids of the tables.
LEMMA IdType ==
  ASSUME NEW f \in Files
  PROVE  IdOf[f] \in Ids /\ SceneOf[f] \in Ids
BY DEF Ids

\* The files of a directory are files, and the messages of directories are types.
LEMMA DirType ==
  ASSUME NEW d \in Dirs
  PROVE  /\ FilesIn(d) \subseteq Files
         /\ MessageOf[d] # "none" => TypeT[MessageOf[d]] \in Types
BY DEF FilesIn, Types, Messages

\* While the tables are as they were, so is the set of loaded files.
LEMMA LoadedSame ==
  ASSUME bytypes' = bytypes
  PROVE  Loaded' = Loaded
BY DEF Loaded

\* Entering a file into the table of types adds this file to the loaded ones.
LEMMA LoadedGrows ==
  ASSUME NEW t \in Types, NEW f, bytypes \in [Types -> SUBSET Files],
         bytypes' = [bytypes EXCEPT ![t] = @ \cup {f}]
  PROVE  Loaded' = Loaded \cup {f}
<1>1. \A u \in Types : bytypes'[u] = IF u = t THEN bytypes[u] \cup {f} ELSE bytypes[u]
  OBVIOUS
<1>2. ASSUME NEW x, x \in Loaded' PROVE x \in Loaded \cup {f}
  BY <1>1, <1>2 DEF Loaded
<1>3. ASSUME NEW x, x \in Loaded \cup {f} PROVE x \in Loaded'
  BY <1>1, <1>3 DEF Loaded
<1>4. QED
  BY <1>2, <1>3

\* The invariant survives a step that leaves the disk and the tables alone, if the
\* parts about reading and about the hosters do.
LEMMA TablesSame ==
  ASSUME TablesAgree, UNCHANGED <<assets, bytypes, global_id>>
  PROVE  TablesAgree'
BY LoadedSame DEF TablesAgree

-----------------------------------------------------------------------------
\* The inductive invariant holds when main() starts.
LEMMA IndInvInit == Init => IndInv
<1> SUFFICES ASSUME Init PROVE IndInv
  OBVIOUS
<1> USE FilesAssumption DEF Init
<1>1. TypeOK
  <2>1. global_id \in [Files -> Ids] /\ scene_id \in [Files -> Ids]
    BY IdType
  <2>2. QED
    BY <2>1 DEF TypeOK
<1>2. DiskOK /\ ReadingOK /\ CompleteOK
  BY DEF DiskOK, ReadingOK, CompleteOK
<1>3. TablesAgree
  <2>1. Loaded = {}
    BY DEF Loaded
  <2>2. QED
    BY <2>1 DEF TablesAgree
<1>4. HostersOK
  BY DEF HostersOK
<1>5. QED
  BY <1>1, <1>2, <1>3, <1>4 DEF IndInv

\* The steps of the loading of assets.
LEMMA AssetStep ==
  ASSUME IndInv,
         \/ LoadProtocols \/ CloseDirectory \/ StrayFile \/ EndAssets
         \/ \E d \in Dirs : OpenDirectory(d)
  PROVE  IndInv'
<1> USE FilesAssumption DEF IndInv, diskVars, worldVars, assetVars
<1>1. CASE LoadProtocols
  <2> USE <1>1 DEF LoadProtocols
  <2>1. TypeOK'
    BY DEF TypeOK, DiskOK
  <2>2. DiskOK' /\ ReadingOK' /\ CompleteOK'
    BY DEF DiskOK, ReadingOK, CompleteOK
  <2>3. HostersOK'
    BY DEF HostersOK, SceneIds
  <2>4. QED
    BY <2>1, <2>2, <2>3, TablesSame
<1>2. CASE CloseDirectory
  <2> USE <1>2 DEF CloseDirectory, LeaveDirectory
  <2>1. TypeOK'
    BY DEF TypeOK
  <2>2. DiskOK' /\ ReadingOK'
    BY DEF DiskOK, ReadingOK
  <2>3. CompleteOK'
    BY LoadedSame DEF CompleteOK, Sound, FilesIn
  <2>4. HostersOK'
    BY DEF HostersOK, SceneIds
  <2>5. QED
    BY <2>1, <2>2, <2>3, <2>4, TablesSame
<1>3. CASE StrayFile
  <2> USE <1>3 DEF StrayFile
  <2>1. TypeOK'
    BY DEF TypeOK
  <2>2. DiskOK' /\ ReadingOK'
    BY DEF DiskOK, ReadingOK
  <2>3. CompleteOK'
    BY LoadedSame DEF CompleteOK, Sound, FilesIn
  <2>4. HostersOK'
    BY DEF HostersOK, SceneIds
  <2>5. QED
    BY <2>1, <2>2, <2>3, <2>4, TablesSame
<1>4. CASE EndAssets
  <2> USE <1>4 DEF EndAssets
  <2>1. TypeOK'
    BY DEF TypeOK
  <2>2. DiskOK' /\ ReadingOK'
    BY DEF DiskOK, ReadingOK
  <2>3. CompleteOK'
    BY LoadedSame DEF CompleteOK, Sound, FilesIn
  <2>4. HostersOK'
    BY DEF HostersOK, SceneIds
  <2>5. QED
    BY <2>1, <2>2, <2>3, <2>4, TablesSame
<1>5. ASSUME NEW d \in Dirs, OpenDirectory(d) PROVE IndInv'
  <2> USE <1>5 DEF OpenDirectory
  <2>1. TypeOK'
    BY DirType DEF TypeOK
  <2>2. DiskOK' /\ ReadingOK'
    BY DEF DiskOK, ReadingOK, FilesIn
  <2>3. CompleteOK'
    <3>1. left = {}
      BY DEF ReadingOK, TypeOK
    <3>2. QED
      BY <3>1, LoadedSame DEF CompleteOK, Sound, FilesIn
  <2>4. HostersOK'
    BY DEF HostersOK, SceneIds
  <2>5. QED
    BY <2>1, <2>2, <2>3, <2>4, TablesSame
<1>6. QED
  BY <1>1, <1>2, <1>3, <1>4, <1>5

\* A file, sound or not, keeps the tables in agreement and the sound directories
\* on their way to being complete.
LEMMA FileStep ==
  ASSUME IndInv, NEW f \in Files, LoadFile(f)
  PROVE  IndInv'
<1> USE FilesAssumption DEF IndInv, diskVars, worldVars, LoadFile
<1>0. /\ dir \in Dirs /\ dir = DirOf[f] /\ f \in FilesIn(dir) /\ dir \in dirs
      /\ left \subseteq FilesIn(dir)
  BY DEF ReadingOK, DiskOK, FilesIn, TypeOK
<1>1. HostersOK'
  BY DEF HostersOK, SceneIds
<1>2. CASE f \in bad \/ Message(f) = "none"
  <2> USE <1>2 DEF LeaveDirectory
  <2>1. TypeOK'
    BY DEF TypeOK
  <2>2. DiskOK' /\ ReadingOK'
    BY DEF DiskOK, ReadingOK
  <2>3. CompleteOK'
    <3>1. ~Sound(dir)
      BY <1>0 DEF Sound, Message, FilesIn
    <3>2. \A d \in Dirs : d # dir => FilesIn(d) \cap left = {}
      BY <1>0 DEF FilesIn
    <3>3. \A d \in dirs : Sound(d) => d \in entries \/ FilesIn(d) \subseteq Loaded
      BY <3>1, <3>2 DEF CompleteOK, DiskOK
    <3>4. QED
      BY <3>3, LoadedSame DEF CompleteOK, Sound, FilesIn
  <2>4. QED
    BY <1>1, <2>1, <2>2, <2>3, TablesSame
<1>3. CASE ~(f \in bad \/ Message(f) = "none")
  <2> USE <1>3
  <2>1. global_id[f] \in Ids /\ TypeT[Message(f)] \in Types
    BY <1>0, DirType DEF TypeOK, Message
  <2>2. Loaded' = Loaded \cup {f}
    BY <2>1, LoadedGrows DEF TypeOK
  <2>3. TypeOK'
    <3>0. /\ bytypes' = [bytypes EXCEPT ![TypeT[Message(f)]] = @ \cup {f}]
          /\ assets' = assets \/ assets' = [assets EXCEPT ![global_id[f]] = f]
      OBVIOUS
    <3>1. bytypes' \in [Types -> SUBSET Files]
      BY <2>1, <3>0 DEF TypeOK
    <3>2. assets' \in [Ids -> Files \cup {None}]
      <4>1. CASE assets' = assets
        BY <4>1 DEF TypeOK
      <4>2. CASE assets' = [assets EXCEPT ![global_id[f]] = f]
        <5> HIDE DEF LoadFile
        <5>1. QED
          BY <2>1, <4>2 DEF TypeOK
      <4>3. QED
        BY <3>0, <4>1, <4>2
    <3>3. \A t \in Types : \A g \in bytypes'[t] :
            Message(g) # "none" /\ TypeT[Message(g)] = t
      <4>1. \A t \in Types : \A g \in bytypes'[t] :
              g \in bytypes[t] \/ (g = f /\ t = TypeT[Message(f)])
        BY <3>0 DEF TypeOK
      <4>2. QED
        BY <4>1 DEF TypeOK
    <3>4. QED
      BY <3>1, <3>2, <3>3 DEF TypeOK
  <2>4. DiskOK' /\ ReadingOK'
    BY DEF DiskOK, ReadingOK
  <2>5. CompleteOK'
    BY <2>2 DEF CompleteOK, Sound, FilesIn
  <2>6. TablesAgree'
    <3>1. global_id' = global_id
      OBVIOUS
    <3>2. Loaded \subseteq Files
      BY DEF Loaded, TypeOK
    <3>3. ASSUME NEW i \in Ids
          PROVE  /\ assets'[i] = None <=> \A g \in Loaded' : global_id[g] # i
                 /\ assets'[i] # None => assets'[i] \in Loaded' /\ global_id[assets'[i]] = i
      <4>1. CASE i = global_id[f] /\ assets[i] = None
        <5>1. assets'[i] = f
          BY <2>1, <4>1 DEF TypeOK
        <5>2. QED
          BY <2>2, <4>1, <5>1
      <4>2. CASE ~(i = global_id[f] /\ assets[i] = None)
        <5>1. assets'[i] = assets[i]
          BY <2>1, <4>2 DEF TypeOK
        <5>2. QED
          BY <2>2, <4>2, <5>1 DEF TablesAgree
      <4>3. QED
        BY <4>1, <4>2
    <3>4. QED
      BY <3>1, <3>3 DEF TablesAgree
  <2>7. QED
    BY <1>1, <2>3, <2>4, <2>5, <2>6
<1>4. QED
  BY <1>2, <1>3

\* The scenes, the hosters and the network.
LEMMA WorldStep ==
  ASSUME IndInv,
         \/ LoadScenes \/ CastFails \/ EndHosters \/ StartNetwork
         \/ \E f \in Files : LoadHoster(f)
  PROVE  IndInv'
<1> USE FilesAssumption DEF IndInv, diskVars, assetVars, worldVars
<1>1. CASE LoadScenes
  <2> USE <1>1 DEF LoadScenes
  <2>1. ASSET_TYPE_SCENE \in Types /\ ASSET_TYPE_HOSTER \in Types
    BY DEF Types
  <2>2. TypeOK'
    <3>1. scenes' \subseteq bytypes[ASSET_TYPE_SCENE]
      OBVIOUS
    <3>2. \A f \in scenes' : f \in Files /\ Message(f) = "Scene"
      BY <2>1, <3>1 DEF TypeOK
    <3>3. pending' \subseteq Files
      BY <2>1 DEF TypeOK
    <3> HIDE DEF LoadScenes
    <3>4. QED
      BY <1>1, <3>2, <3>3 DEF LoadScenes, TypeOK, Message
  <2>3. DiskOK' /\ ReadingOK'
    BY DEF DiskOK, ReadingOK
  <2>4. CompleteOK'
    BY LoadedSame DEF CompleteOK, Sound, FilesIn
  <2>5. HostersOK'
    BY DEF HostersOK, SceneIds
  <2>6. QED
    BY <2>2, <2>3, <2>4, <2>5, TablesSame
<1>2. CASE EndHosters
  <2> USE <1>2 DEF EndHosters
  <2>1. TypeOK'
    BY DEF TypeOK
  <2>2. DiskOK' /\ ReadingOK'
    BY DEF DiskOK, ReadingOK
  <2>3. CompleteOK'
    BY LoadedSame DEF CompleteOK, Sound, FilesIn
  <2>4. HostersOK'
    BY DEF HostersOK, SceneIds
  <2>5. QED
    BY <2>1, <2>2, <2>3, <2>4, TablesSame
<1>3. CASE StartNetwork
  <2> USE <1>3 DEF StartNetwork
  <2>1. TypeOK'
    BY DEF TypeOK
  <2>2. DiskOK' /\ ReadingOK'
    BY DEF DiskOK, ReadingOK
  <2>3. CompleteOK'
    BY LoadedSame DEF CompleteOK, Sound, FilesIn
  <2>4. HostersOK'
    BY DEF HostersOK, SceneIds
  <2>5. QED
    BY <2>1, <2>2, <2>3, <2>4, TablesSame
<1>4. CASE CastFails
  <2> USE <1>4 DEF CastFails
  <2>1. TypeOK'
    BY DEF TypeOK
  <2>2. DiskOK' /\ ReadingOK'
    BY DEF DiskOK, ReadingOK
  <2>3. CompleteOK'
    BY LoadedSame DEF CompleteOK, Sound, FilesIn
  <2>4. HostersOK'
    BY DEF HostersOK, SceneIds
  <2>5. QED
    BY <2>1, <2>2, <2>3, <2>4, TablesSame
<1>5. ASSUME NEW f \in Files, LoadHoster(f) PROVE IndInv'
  <2> USE <1>5 DEF LoadHoster, Born
  <2>0. /\ global_id[f] \in Ids
        /\ registry' = registry \/ registry' = [registry EXCEPT ![global_id[f]] = f]
        /\ hosters \subseteq hosters'
        /\ registry' # registry => f \in hosters'
    BY DEF TypeOK
  <2>1. TypeOK'
    <3>1. registry' \in [Ids -> Files \cup {None}]
      <4>1. registry \in [Ids -> Files \cup {None}]
        BY DEF TypeOK
      <4> HIDE <1>5 DEF LoadHoster, Born, IndInv
      <4>2. QED
        BY <2>0, <4>1
    <3>2. /\ hosters' \subseteq Files /\ pending' \subseteq Files
          /\ \A h \in hosters' : Message(h) = "Hoster"
      BY DEF TypeOK
    <3>3. UNCHANGED <<stage, diskVars, protocols, assetVars, scenes, listening>>
      OBVIOUS
    <3> HIDE <1>5 DEF LoadHoster, Born
    <3>4. QED
      BY <3>1, <3>2, <3>3 DEF TypeOK
  <2>2. DiskOK' /\ ReadingOK'
    BY DEF DiskOK, ReadingOK
  <2>3. CompleteOK'
    BY LoadedSame DEF CompleteOK, Sound, FilesIn
  <2>4. HostersOK'
    <3>1. SceneIds' = SceneIds
      BY DEF SceneIds
    <3>2. hosters' = {g \in bytypes[ASSET_TYPE_HOSTER] \ pending' :
                        scene_id[g] \in SceneIds}
      BY DEF HostersOK
    <3>3. \A i \in Ids : registry'[i] # None =>
                           registry'[i] \in hosters' /\ global_id[registry'[i]] = i
      <4>1. \A i \in Ids : registry'[i] = registry[i]
                          \/ (i = global_id[f] /\ registry'[i] = f /\ f \in hosters')
        BY <2>0 DEF TypeOK
      <4>2. QED
        BY <2>0, <4>1 DEF HostersOK
    <3>4. \A h \in hosters' : registry'[global_id[h]] # None
      <4>1. \A h \in hosters : global_id[h] \in Ids
        BY DEF TypeOK
      <4>2. QED
        BY <2>0, <4>1 DEF HostersOK, TypeOK
    <3>5. QED
      BY <3>1, <3>2, <3>3, <3>4 DEF HostersOK
  <2>5. QED
    BY <2>1, <2>2, <2>3, <2>4, TablesSame
<1>6. QED
  BY <1>1, <1>2, <1>3, <1>4, <1>5

\* The inductive invariant is kept by every step.
LEMMA IndInvStep == IndInv /\ [Next]_vars => IndInv'
<1> SUFFICES ASSUME IndInv, [Next]_vars PROVE IndInv'
  OBVIOUS
<1>1. CASE UNCHANGED vars
  BY <1>1 DEF vars, diskVars, assetVars, worldVars, IndInv, TypeOK, DiskOK, ReadingOK,
     CompleteOK, Sound, FilesIn, TablesAgree, HostersOK, SceneIds, Loaded
<1>2. QED
  BY <1>1, AssetStep, FileStep, WorldStep DEF Next, Running

\* In every reachable state the loading of the World satisfies its inductive
\* invariant (World.cpp:18-43).
THEOREM Invariance == Spec => []IndInv
BY IndInvInit, IndInvStep, PTL DEF Spec

\* Type correctness: a table of types holds files of its number, and the scenes and
\* hosters are such messages, for any disk and any numbering of the messages
\* (Asset.cpp:137, Scene.h:78, Hoster.cpp:116).
THEOREM TypeCorrect == Spec => []TypeOK
<1>1. IndInv => TypeOK
  BY DEF IndInv
<1>2. QED
  BY <1>1, Invariance, PTL

\* The two asset tables say the same at every moment of loading
\* (Asset.cpp:133-138).
THEOREM TablesAgreeCorrect == Spec => []TablesAgree
<1>1. IndInv => TablesAgree
  BY DEF IndInv
<1>2. QED
  BY <1>1, Invariance, PTL

\* A bad file costs its own directory at most (Asset.cpp:64-94).
THEOREM SoundDirsCorrect == Spec => []SoundDirsComplete
<1>1. IndInv => SoundDirsComplete
  <2> SUFFICES ASSUME IndInv, stage \in {"scenes", "hosters", "network", "loop"},
                      NEW d \in dirs, Sound(d)
               PROVE  FilesIn(d) \subseteq Loaded
    BY DEF SoundDirsComplete, Sound
  <2>1. entries = {} /\ left = {}
    BY FilesAssumption DEF IndInv, ReadingOK, TypeOK
  <2>2. QED
    BY <2>1 DEF IndInv, CompleteOK
<1>2. QED
  BY <1>1, Invariance, PTL

\* The World moves exactly the hosters whose scene was loaded, and the id of each
\* leads to a hoster (Hoster.cpp:111-134).
THEOREM HostersHomedCorrect == Spec => []HostersHomed
<1>1. IndInv => HostersHomed
  <2> SUFFICES ASSUME IndInv PROVE HostersHomed
    OBVIOUS
  <2>1. stage \in {"network", "loop"} =>
          hosters = {f \in bytypes[ASSET_TYPE_HOSTER] : scene_id[f] \in SceneIds}
    BY DEF IndInv, HostersOK
  <2>2. \A h \in hosters : global_id[h] \in Ids
    BY DEF IndInv, TypeOK
  <2>3. QED
    BY <2>1, <2>2 DEF IndInv, HostersOK, HostersHomed
<1>2. QED
  BY <1>1, Invariance, PTL
=============================================================================
