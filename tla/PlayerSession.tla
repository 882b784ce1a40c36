---------------------------- MODULE PlayerSession ----------------------------
(***************************************************************************)
(* WorldSession::InitializeHandler and what it owns: the one global Player *)
(* object g_player, EntityManager, the prototype messages ProtocolManager  *)
(* hands out, and the player records in Redis.                             *)
(*                                                                         *)
(* A client has one connection at a time.  The handlers of the connections *)
(* of one network thread run one after the other, those of different       *)
(* threads interleave at every access to g_player, to a prototype message, *)
(* to EntityManager or to Redis.  One access is one step.                  *)
(*                                                                         *)
(* A Player lives as long as g_player or EntityManager points to it; a     *)
(* handler inside one of its methods holds no reference.  Its destructor   *)
(* calls EntityManager::Erase, which destroys an entry under a mutex that  *)
(* is not recursive.  A read of a destroyed Player gives its old fields    *)
(* here; that the process may die instead is among what Crash covers.      *)
(***************************************************************************)
EXTENDS Integers, FiniteSets

CONSTANTS
  Clients,     \* the clients
  Home,        \* Home[c]: the network thread its connections are given to
  Account,     \* Account[c]: the player_id its ENTER_GAME asks for
  Counter0,    \* player_counter in Redis when the server is first started
  MaxId,       \* bound: nobody creates a player once the counter is MaxId
  Objects,     \* addresses for Player objects
  RedisFails,  \* TRUE: a call of Redis may fail
  None

Kinds == {"create", "enter", "login", "scene", "move"}

\* The kinds whose handlers read the content of the message.
ReadKinds == {"enter", "scene", "move"}

\* The values of player_id: the counter never reaches the last one, 0 is what a
\* message without a player_id holds.
Ids == 0 .. MaxId + Cardinality(Clients) + 1

ASSUME ClientsAssumption ==
  /\ IsFiniteSet(Clients) /\ Clients # {} /\ Objects # {}
  /\ DOMAIN Home = Clients
  /\ Counter0 \in Nat /\ MaxId \in Nat /\ Counter0 <= MaxId
  /\ Account \in [Clients -> Ids]    \* whatever the client sends, given out or not
  /\ RedisFails \in BOOLEAN
  /\ None \notin Objects \cup Clients

\* There is always memory for another Player: besides those g_player, the entries of
\* EntityManager and the handlers point to.
ASSUME ObjectsAssumption ==
  IsFiniteSet(Objects) =>
    Cardinality(Objects) > 3 + MaxId + 2 * Cardinality(Clients)

VARIABLES
  pc,        \* pc[c]: where the handler of c is; "read" while it waits for data,
             \* "deaf" after it returned without waiting again, "gone" if closed
  kind,      \* kind[c]: meta.type_t() of the message being handled
  newId,     \* newId[c]: the id of the Player about to be constructed
  using,     \* using[c]: the Player whose method runs (`this`)
  dying,     \* dying[c]: the id of the Player being destroyed
  proto,     \* proto[k]: the client whose message the prototype of kind k holds
  gplayer,   \* g_player
  player,    \* player[o]: _ID, _session and _stuff of the Player at o
  registry,  \* registry[i]: _entities of EntityManager
  locked,    \* its mutex is never released any more
  unissued,  \* auxiliary: since the start of the server an ENTER_GAME has made a
             \* Player with an id above player_counter
  counter,   \* player_counter in Redis
  record     \* record[i]: the value of player:i in Redis

handlerVars == <<pc, kind, newId, using, dying, proto>>
memoryVars  == <<gplayer, player, registry, locked, unissued>>
redisVars   == <<counter, record>>
vars == <<handlerVars, memoryVars, redisVars>>

\* A Player starts blank; Load() fills it with what was recorded.
NewPlayer(i, c) == [id |-> i, session |-> c, stuff |-> "blank"]

Init ==
  /\ pc = [c \in Clients |-> "gone"]
  /\ kind = [c \in Clients |-> "none"]
  /\ newId = [c \in Clients |-> 0]
  /\ using = [c \in Clients |-> None]
  /\ dying = [c \in Clients |-> 0]
  /\ proto = [k \in ReadKinds |-> None]
  /\ gplayer = None
  /\ player = [o \in Objects |-> NewPlayer(0, None)]
  /\ registry = [i \in Ids |-> None]
  /\ locked = FALSE /\ unissued = FALSE
  /\ counter = Counter0
  /\ record = [i \in Ids |-> IF i \in 1 .. Counter0 THEN "stored" ELSE "none"]

Alive(o) == o = gplayer \/ \E i \in Ids : registry[i] = o

Goto(c, st) == pc' = [pc EXCEPT ![c] = st]

\* The handler returns; its locals are gone.
Return(c, st) ==
  /\ Goto(c, st)
  /\ kind' = [kind EXCEPT ![c] = "none"]
  /\ newId' = [newId EXCEPT ![c] = 0]
  /\ dying' = [dying EXCEPT ![c] = 0]
  /\ using' = [using EXCEPT ![c] = None]

Busy(c) == pc[c] \notin {"read", "deaf", "gone"}

ThreadFree(t) == \A c \in Clients : Home[c] = t => ~Busy(c)

-----------------------------------------------------------------------------
(* The connection.                                                         *)

\* A client connects, for the first time or again, and Start() waits for data.
Start(c) ==
  /\ pc[c] \in {"gone", "deaf"}
  /\ Goto(c, "read")
  /\ UNCHANGED <<kind, newId, using, dying, proto, memoryVars, redisVars>>

\* A read error or an illegal message: Close() and return.
Reject(c) ==
  /\ pc[c] = "read" /\ ThreadFree(Home[c])
  /\ Goto(c, "gone")
  /\ UNCHANGED <<kind, newId, using, dying, proto, memoryVars, redisVars>>

\* An exception (remote_endpoint() of a lost peer): return, nothing closed.
Throw(c) ==
  /\ pc[c] = "read" /\ ThreadFree(Home[c])
  /\ Goto(c, "deaf")
  /\ UNCHANGED <<kind, newId, using, dying, proto, memoryVars, redisVars>>

\* A message of kind k is parsed into the prototype all threads share.
Receive(c, k) ==
  /\ pc[c] = "read" /\ ThreadFree(Home[c])
  /\ k = "create" => counter < MaxId
  /\ kind' = [kind EXCEPT ![c] = k]
  /\ proto' = [proto EXCEPT ![k] = c]
  /\ Goto(c, CASE k = "create" -> "incr" [] k = "enter" -> "check" [] OTHER -> "call")
  /\ UNCHANGED <<newId, using, dying, memoryVars, redisVars>>

-----------------------------------------------------------------------------
(* Redis.                                                                  *)

\* Mutant: the counter is read, not incremented.
CreatePlayerGet(c) ==
  /\ pc[c] = "incr"
  /\ newId' = [newId EXCEPT ![c] = counter] /\ Goto(c, "assign")
  /\ UNCHANGED <<kind, using, dying, proto, memoryVars, redisVars>>

\* Redis::CreatePlayer: Incr player_counter.
CreatePlayer(c) ==
  /\ pc[c] = "incr"
  /\ counter' = counter + 1
  /\ newId' = [newId EXCEPT ![c] = counter'] /\ Goto(c, "assign")
  /\ UNCHANGED <<kind, using, dying, proto, memoryVars, record>>

\* It fails and returns 0: the handler returns.
CreatePlayerFails(c) ==
  /\ pc[c] = "incr" /\ RedisFails
  /\ Return(c, "deaf")
  /\ UNCHANGED <<proto, memoryVars, redisVars>>

\* Player::Save; a failure of Redis::SavePlayer goes unnoticed.
Save(c) ==
  /\ pc[c] = "use" /\ kind[c] = "create"
  /\ LET p == player[using[c]] IN
       \/ record' = [record EXCEPT ![p.id] = p.stuff]
       \/ RedisFails /\ UNCHANGED record
  /\ Return(c, "read")
  /\ UNCHANGED <<proto, memoryVars, counter>>

\* Mutant: an empty answer is taken for the player.
LoadUnchecked(c) ==
  /\ pc[c] = "use" /\ kind[c] \in {"enter", "login"}
  /\ player' = [player EXCEPT ![using[c]].stuff = record[player[using[c]].id]]
  /\ Return(c, "read")
  /\ UNCHANGED <<proto, gplayer, registry, locked, unissued, redisVars>>

\* Player::OnEnterGame, Player::CmdLogin: Load() leaves the player as it is when
\* there is no answer; SendPlayer() either way.
Load(c) ==
  /\ pc[c] = "use" /\ kind[c] \in {"enter", "login"}
  /\ LET p == player[using[c]] IN
       \/ record[p.id] # "none"
          /\ player' = [player EXCEPT ![using[c]].stuff = record[p.id]]
       \/ (RedisFails \/ record[p.id] = "none") /\ UNCHANGED player
  /\ Return(c, "read")
  /\ UNCHANGED <<proto, gplayer, registry, locked, unissued, redisVars>>

-----------------------------------------------------------------------------
(* The Player object.                                                      *)

\* WorldSession.cpp:105, somebody is logged in already: return.
CheckEnter(c) ==
  /\ pc[c] = "check"
  /\ IF gplayer # None THEN Return(c, "deaf")
     ELSE Goto(c, "construct") /\ UNCHANGED <<kind, newId, dying, using>>
  /\ UNCHANGED <<proto, memoryVars, redisVars>>

\* WorldSession.cpp:110 up to the constructor: player_id() is read from the
\* prototype and used as it is, whether or not it was ever given out.
Construct(c) ==
  LET id == Account[proto["enter"]] IN
  /\ pc[c] = "construct"
  /\ IF gplayer # None
       THEN Goto(c, "call") /\ UNCHANGED <<newId, unissued>>
       ELSE /\ Goto(c, "assign") /\ newId' = [newId EXCEPT ![c] = id]
            /\ unissued' = (unissued \/ id > counter)
  /\ UNCHANGED <<kind, using, dying, proto, gplayer, player, registry, locked, redisVars>>

\* An address no Player lives at and no handler is still using.
Fresh == CHOOSE o \in Objects : ~Alive(o) /\ \A c \in Clients : using[c] # o

\* Mutant: the Player there is is given the new id.
AssignInPlace(c) ==
  /\ pc[c] = "assign"
  /\ LET o == IF gplayer = None THEN Fresh ELSE gplayer IN
       gplayer' = o /\ player' = [player EXCEPT ![o] = NewPlayer(newId[c], c)]
  /\ Goto(c, "call")
  /\ UNCHANGED <<kind, newId, using, dying, proto, registry, locked, unissued, redisVars>>

\* g_player = make_shared<Player>(id, session): the Player it pointed to is
\* destroyed unless EntityManager has it.
Assign(c) ==
  /\ pc[c] = "assign"
  /\ gplayer' = Fresh
  /\ player' = [player EXCEPT ![Fresh] = NewPlayer(newId[c], c)]
  /\ IF gplayer = None \/ \E i \in Ids : registry[i] = gplayer
       THEN Goto(c, "call") /\ UNCHANGED dying
       ELSE Goto(c, "destroy") /\ dying' = [dying EXCEPT ![c] = player[gplayer].id]
  /\ UNCHANGED <<kind, newId, using, proto, registry, locked, unissued, redisVars>>

\* ~Entity: EntityManager::Erase by id.  If the entry was the last reference to
\* another Player, that one's destructor calls Erase with the mutex held.
Erase(c) ==
  LET victim == registry[dying[c]] IN
  /\ pc[c] = "destroy" /\ ~locked
  /\ registry' = [registry EXCEPT ![dying[c]] = None]
  /\ IF victim \in {None, gplayer} THEN Goto(c, "call") /\ UNCHANGED locked
                                   ELSE Goto(c, "stuck") /\ locked' = TRUE
  /\ UNCHANGED <<kind, newId, using, dying, proto, gplayer, player, unissued, redisVars>>

\* g_player->...: without a Player the handler returns.
Call(c) ==
  /\ pc[c] = "call"
  /\ IF gplayer = None THEN Return(c, "deaf")
     ELSE /\ Goto(c, "use") /\ using' = [using EXCEPT ![c] = gplayer]
          /\ UNCHANGED <<kind, newId, dying>>
  /\ UNCHANGED <<proto, memoryVars, redisVars>>

\* CmdEnterScene: EntityManager::Add, if the scene exists; an id that is there
\* already is left alone.
EnterScene(c) ==
  LET o == using[c]
      i == player[o].id
  IN
  /\ pc[c] = "use" /\ kind[c] = "scene"
  /\ \/ ~locked /\ registry' = [registry EXCEPT ![i] = IF @ = None THEN o ELSE @]
     \/ UNCHANGED registry
  /\ Return(c, "read")
  /\ UNCHANGED <<proto, gplayer, player, locked, unissued, redisVars>>

\* CmdMove; what it does to the scene is in SceneIndex.
Move(c) ==
  /\ pc[c] = "use" /\ kind[c] = "move"
  /\ Return(c, "read")
  /\ UNCHANGED <<proto, memoryVars, redisVars>>

\* The server dies and is started again; Redis keeps what it has.
Crash ==
  /\ \E c \in Clients : pc[c] # "gone"
  /\ pc' = [c \in Clients |-> "gone"]
  /\ kind' = [c \in Clients |-> "none"]
  /\ newId' = [c \in Clients |-> 0]
  /\ using' = [c \in Clients |-> None]
  /\ dying' = [c \in Clients |-> 0]
  /\ proto' = [k \in ReadKinds |-> None]
  /\ gplayer' = None
  /\ player' = [o \in Objects |-> NewPlayer(0, None)]
  /\ registry' = [i \in Ids |-> None]
  /\ locked' = FALSE /\ unissued' = FALSE
  /\ UNCHANGED redisVars

-----------------------------------------------------------------------------
Handler(c) == \/ CreatePlayer(c) \/ CreatePlayerFails(c) \/ CheckEnter(c)
              \/ Construct(c) \/ Assign(c) \/ Erase(c) \/ Call(c)
              \/ Save(c) \/ Load(c) \/ EnterScene(c) \/ Move(c)

Next == \/ \E c \in Clients : Handler(c) \/ Start(c) \/ Reject(c) \/ Throw(c)
        \/ \E c \in Clients, k \in Kinds : Receive(c, k)
        \/ Crash

\* A handler that runs is not suspended by its thread.  Clients may send nothing.
Spec == Init /\ [][Next]_vars /\ \A c \in Clients : WF_vars(Handler(c))

-----------------------------------------------------------------------------
Live == {o \in Objects : Alive(o)}

Stages == {"gone", "read", "deaf", "incr", "check", "construct", "assign",
           "destroy", "call", "use", "stuck"}

\* Every variable keeps its type; in particular what Load() puts into a Player is
\* player data (Player.cpp:33-41).
TypeOK ==
  /\ pc \in [Clients -> Stages]
  /\ kind \in [Clients -> Kinds \cup {"none"}]
  /\ newId \in [Clients -> Ids]
  /\ using \in [Clients -> Objects \cup {None}]
  /\ dying \in [Clients -> Ids]
  /\ proto \in [ReadKinds -> Clients \cup {None}]
  /\ gplayer \in Objects \cup {None}
  /\ player \in [Objects -> [id : Ids, session : Clients \cup {None},
                             stuff : {"blank", "stored"}]]
  /\ registry \in [Ids -> Objects \cup {None}]
  /\ locked \in BOOLEAN /\ unissued \in BOOLEAN
  /\ counter \in Nat
  /\ record \in [Ids -> {"none", "blank", "stored"}]

\* What EntityManager finds under an id is a Player with that id, however the
\* handlers of several threads replace g_player, and also while its destructors
\* erase entries by id (Entity.cpp:18-21, 157-200, WorldSession.cpp:100-110).
FoundById == \A i \in Ids : registry[i] # None => player[registry[i]].id = i

\* "The identification of all entities, unique, must not be repeated"
\* (Entity.h:28): no two Players that exist have the same id.  It is also what
\* keeps Erase from destroying a Player under the mutex (Entity.cpp:18-21, 196).
\* The model refutes it with two threads, and with an account that was not given out.
UniqueIds == \A o, p \in Live : player[o].id = player[p].id => o = p

\* On one thread the ids are unique as long as no ENTER_GAME asked for an id that
\* INCR had still to give out (WorldSession.cpp:97-110).
UniqueIfIssued == ~unissued => UniqueIds

\* A record, once stored, is never replaced by that of a Player who has not been
\* loaded from it, whoever creates players and whenever the server is restarted
\* ("saved, so that the database does not lack data", WorldSession.cpp:101).
RecordKept ==
  [][\A i \in Ids : record[i] = "stored" => record'[i] = "stored"]_vars

\* On one thread a handler returns, so its network thread is never blocked for good
\* by the mutex of EntityManager (Entity.cpp:196-200), unless an ENTER_GAME asked for
\* an id that was not given out yet.
ReturnsIfIssued == \A c \in Clients : Busy(c) ~> (~Busy(c) \/ unissued)

-----------------------------------------------------------------------------
(* What comments say, or the code relies on, and the model refutes (see    *)
(* the README).                                                            *)

\* The Player whose method a handler runs is not destroyed under it, though the
\* handler holds no reference to it (WorldSession.cpp:100-121).  Not so with two
\* threads.
NoUseAfterFree == \A c \in Clients : pc[c] = "use" => Alive(using[c])

\* What a handler reads from the prototype is the message it received, although
\* all connections parse into the same object (WorldSession.cpp:73-121,
\* Protocol.h:48-53).  Not so with two threads.
ActsOnOwnMessage ==
  \A c \in Clients :
    pc[c] = "construct" \/ (pc[c] = "use" /\ kind[c] \in {"scene", "move"})
      => proto[kind[c]] = c

\* A handler returns.  Not so on one thread with an account not given out, nor with
\* two threads (Entity.cpp:196-200).
HandlerReturns == \A c \in Clients : Busy(c) ~> ~Busy(c)

\* The comment of WorldSession.cpp:101 again: when no handler is running, each
\* Player that exists has a record.  Not so when SET fails.
SavedOnCreate ==
  (\A c \in Clients : ~Busy(c)) => \A o \in Live : record[player[o].id] # "none"

\* "Session: the connection each player keeps with the server" (WorldSession.h:20):
\* what a client sends acts on the player of that client's session.  There is one Player for all.
OwnPlayer == \A c \in Clients : pc[c] = "use" => player[using[c]].session = c

\* "Receive recursively, continuously" (WorldSession.cpp:131): after a message is
\* handled the session waits for the next one, unless it is closed.  Not so after
\* one of the early returns of the game logic.
KeepsReceiving == \A c \in Clients : Busy(c) ~> (pc[c] \in {"read", "gone"})
=============================================================================
