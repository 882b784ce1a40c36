------------------------- MODULE PlayerSessionProofs -------------------------
(***************************************************************************)
(* Theorems about PlayerSession for any number of clients, any accounts,   *)
(* players and restarts.  Types and FoundById hold whatever the threads;   *)
(* the rest needs that all connections belong to one network thread        *)
(* (OneThread, which is what StartNetwork's default gives), and part of it *)
(* that no ENTER_GAME asked for an id that was not given out yet           *)
(* (~unissued): without either TLC finds two Players with one id.          *)
(***************************************************************************)
EXTENDS PlayerSession, FiniteSetTheorems, TLAPS

Incr == {c \in Clients : pc[c] = "incr"}

\* Each handler about to increment the counter finds room below the last id.
CountOK ==
  /\ Counter0 <= counter
  /\ counter + Cardinality(Incr) <= MaxId + Cardinality(Clients)

\* A handler that will read the account from the prototype finds one there, and a
\* handler inside a method has an object.
LocalsOK ==
  \A c \in Clients :
    /\ pc[c] \in {"check", "construct"} => proto["enter"] \in Clients
    /\ pc[c] = "use" => using[c] \in Objects

TypeInv == TypeOK /\ CountOK /\ LocalsOK

-----------------------------------------------------------------------------
(* Ids and addresses.                                                      *)

\* The sets of clients are finite, and no larger than that of all of them.
LEMMA ClientsFinite ==
  /\ IsFiniteSet(Clients) /\ Cardinality(Clients) \in Nat
  /\ \A S \in SUBSET Clients : /\ IsFiniteSet(S) /\ Cardinality(S) \in Nat
                               /\ Cardinality(S) <= Cardinality(Clients)
<1>1. IsFiniteSet(Clients) /\ Cardinality(Clients) \in Nat
  BY ClientsAssumption, FS_CardinalityType
<1>2. QED
  BY <1>1, FS_Subset, FS_CardinalityType

\* A finite function takes at most as many values as it has arguments.
LEMMA FewValues ==
  ASSUME NEW S, IsFiniteSet(S), NEW T, NEW f \in [S -> T]
  PROVE  /\ IsFiniteSet({f[x] : x \in S})
         /\ Cardinality({f[x] : x \in S}) <= Cardinality(S)
<1> DEFINE V == {f[x] : x \in S}
<1>1. f \in Surjection(S, V)
  BY DEF Surjection
<1>2. QED
  BY <1>1, FS_Surjection

\* make_shared finds an address no Player lives at and no handler is using.
LEMMA FreshExists ==
  ASSUME TypeOK
  PROVE  Fresh \in Objects /\ ~Alive(Fresh) /\ \A c \in Clients : using[c] # Fresh
<1> DEFINE R == {registry[i] : i \in Ids}
           U == {using[c] : c \in Clients}
           Taken == R \cup U \cup {gplayer}
<1>1. IsFiniteSet(Ids) /\ Cardinality(Ids) = MaxId + Cardinality(Clients) + 2
  <2>1. MaxId + Cardinality(Clients) + 1 \in Nat
    BY ClientsAssumption, ClientsFinite
  <2>2. QED
    BY <2>1, FS_Interval, ClientsFinite, ClientsAssumption DEF Ids
<1>2. IsFiniteSet(R) /\ Cardinality(R) <= MaxId + Cardinality(Clients) + 2
  <2>1. registry \in [Ids -> Objects \cup {None}]
    BY DEF TypeOK
  <2>2. IsFiniteSet(R) /\ Cardinality(R) <= Cardinality(Ids)
    BY <1>1, <2>1, FewValues
  <2>3. QED
    BY <1>1, <2>2
<1>3. IsFiniteSet(U) /\ Cardinality(U) <= Cardinality(Clients)
  <2>1. using \in [Clients -> Objects \cup {None}]
    BY DEF TypeOK
  <2>2. QED
    BY <2>1, ClientsFinite, FewValues
<1>4. IsFiniteSet(Taken)
      /\ Cardinality(Taken) <= 3 + MaxId + 2 * Cardinality(Clients)
  <2> HIDE DEF R, U
  <2>1. /\ Cardinality(R) \in Nat /\ Cardinality(U) \in Nat
        /\ Cardinality(R \cap U) \in Nat
    <3>1. IsFiniteSet(R \cap U)
      BY <1>2, FS_Subset, R \cap U \in SUBSET R
    <3>2. QED
      BY <1>2, <1>3, <3>1, FS_CardinalityType
  <2>2. IsFiniteSet(R \cup U)
        /\ Cardinality(R \cup U) = Cardinality(R) + Cardinality(U) - Cardinality(R \cap U)
    BY <1>2, <1>3, FS_Union
  <2>3. IsFiniteSet(Taken) /\ Cardinality(Taken) <= Cardinality(R \cup U) + 1
    <3>1. Cardinality(R \cup U) \in Int
      BY <2>1, <2>2
    <3>2. QED
      BY <2>2, <3>1, FS_AddElement
  <2>4. Cardinality(Taken) \in Nat
    BY <2>3, FS_CardinalityType
  <2> HIDE DEF Taken
  <2>5. QED
    BY <1>2, <1>3, <2>1, <2>2, <2>3, <2>4, ClientsFinite, ClientsAssumption
<1>5. ~(Objects \subseteq Taken)
  <2> SUFFICES ASSUME Objects \subseteq Taken PROVE FALSE
    OBVIOUS
  <2> HIDE DEF Taken
  <2>1. IsFiniteSet(Objects) /\ Cardinality(Objects) <= Cardinality(Taken)
    BY <1>4, FS_Subset
  <2>2. Cardinality(Objects) \in Nat /\ Cardinality(Taken) \in Nat
    BY <1>4, <2>1, FS_CardinalityType
  <2>3. QED
    BY <1>4, <2>1, <2>2, ObjectsAssumption, ClientsFinite, ClientsAssumption
<1>6. \E o \in Objects : ~Alive(o) /\ \A c \in Clients : using[c] # o
  BY <1>5 DEF Alive
<1>7. QED
  BY <1>6 DEF Fresh

-----------------------------------------------------------------------------
(* Types, whatever the threads.                                            *)

\* A step after which no other handler is about to increment keeps room for those
\* that are.
LEMMA CountKept ==
  ASSUME TypeInv, counter' = counter, Incr' \subseteq Incr
  PROVE  CountOK'
<1>1. Incr \in SUBSET Clients
  BY DEF Incr
<1>2. /\ IsFiniteSet(Incr) /\ Cardinality(Incr) \in Nat
      /\ Cardinality(Incr') \in Nat /\ Cardinality(Incr') <= Cardinality(Incr)
  <2>1. IsFiniteSet(Incr) /\ Cardinality(Incr) \in Nat
    BY <1>1, ClientsFinite
  <2>2. IsFiniteSet(Incr') /\ Cardinality(Incr') <= Cardinality(Incr)
    BY <2>1, FS_Subset
  <2>3. QED
    BY <2>1, <2>2, FS_CardinalityType
<1>3. QED
  BY <1>2, ClientsFinite, ClientsAssumption DEF TypeInv, TypeOK, CountOK

\* The values a client, an id and a Player start with are of their types.
LEMMA StartTypes ==
  /\ 0 \in Ids
  /\ \A i \in Ids, c \in Clients \cup {None} :
       NewPlayer(i, c) \in [id : Ids, session : Clients \cup {None},
                            stuff : {"blank", "stored"}]
<1>1. Cardinality(Clients) \in Nat \ {0}
  BY ClientsFinite, FS_EmptySet, ClientsAssumption
<1>2. 0 \in Ids
  BY <1>1, ClientsAssumption DEF Ids
<1>3. QED
  BY <1>2 DEF NewPlayer

\* A handler that returns leaves the types as they are.
LEMMA ReturnTypes ==
  ASSUME TypeOK, NEW c \in Clients, NEW st \in Stages, Return(c, st)
  PROVE  /\ pc' = [pc EXCEPT ![c] = st] /\ pc' \in [Clients -> Stages]
         /\ kind' \in [Clients -> Kinds \cup {"none"}]
         /\ newId' \in [Clients -> Ids] /\ dying' \in [Clients -> Ids]
         /\ using' \in [Clients -> Objects \cup {None}]
<1>1. 0 \in Ids
  BY StartTypes
<1>2. QED
  BY <1>1 DEF TypeOK, Return, Goto

\* The types hold when the server is started.
LEMMA TypeInit == Init => TypeInv
<1> SUFFICES ASSUME Init PROVE TypeInv
  OBVIOUS
<1> USE ClientsAssumption DEF Init
<1>1. TypeOK
  <2>1. player \in [Objects -> [id : Ids, session : Clients \cup {None},
                                stuff : {"blank", "stored"}]]
    BY StartTypes
  <2>2. newId \in [Clients -> Ids] /\ dying \in [Clients -> Ids]
    BY StartTypes
  <2>3. QED
    BY <2>1, <2>2 DEF TypeOK, Stages
<1>2. CountOK
  <2>1. Incr = {}
    BY DEF Incr
  <2>2. QED
    BY <2>1, FS_EmptySet, ClientsFinite DEF CountOK
<1>3. LocalsOK
  BY DEF LocalsOK
<1>4. QED
  BY <1>1, <1>2, <1>3 DEF TypeInv

\* Every step of a handler keeps every variable in its type.
LEMMA TypeHandler ==
  ASSUME TypeInv, NEW c \in Clients, Handler(c)
  PROVE  TypeInv'
<1> USE ClientsAssumption DEF memoryVars, redisVars
<1>0. TypeOK /\ CountOK /\ LocalsOK /\ 0 \in Ids
  BY StartTypes DEF TypeInv
<1>1. CASE CreatePlayer(c)
  <2> USE <1>1 DEF CreatePlayer, Goto
  <2>1. /\ Incr \in SUBSET Clients /\ c \in Incr
        /\ Incr' = Incr \ {c}
    BY <1>0 DEF Incr, TypeOK
  <2>2. /\ Cardinality(Incr) \in Nat /\ Cardinality(Incr') \in Nat
        /\ Cardinality(Incr') = Cardinality(Incr) - 1
    <3>1. IsFiniteSet(Incr) /\ Cardinality(Incr) \in Nat
      BY <2>1, ClientsFinite
    <3>2. IsFiniteSet(Incr') /\ Cardinality(Incr') = Cardinality(Incr) - 1
      BY <2>1, <3>1, FS_RemoveElement
    <3>3. QED
      BY <3>1, <3>2, FS_CardinalityType
  <2>3. counter' \in Nat /\ counter' \in Ids /\ CountOK'
    <3>1. counter \in Nat /\ Counter0 \in Nat /\ Counter0 <= counter
          /\ counter + Cardinality(Incr) <= MaxId + Cardinality(Clients)
      BY <1>0 DEF CountOK, TypeOK
    <3>2. counter' = counter + 1 /\ Cardinality(Clients) \in Nat /\ MaxId \in Nat
      BY ClientsFinite
    <3>3. QED
      BY <2>2, <3>1, <3>2 DEF CountOK, Ids
  <2>4. TypeOK'
    <3>1. newId' \in [Clients -> Ids] /\ pc' \in [Clients -> Stages]
      BY <1>0, <2>3 DEF TypeOK, Stages
    <3>2. QED
      BY <1>0, <2>3, <3>1 DEF TypeOK
  <2>5. LocalsOK'
    BY <1>0 DEF LocalsOK, TypeOK
  <2>6. QED
    BY <2>3, <2>4, <2>5 DEF TypeInv
<1>2. CASE CreatePlayerFails(c)
  <2> USE <1>2 DEF CreatePlayerFails
  <2>1. TypeOK' /\ pc' = [pc EXCEPT ![c] = "deaf"]
    BY <1>0, ReturnTypes DEF TypeOK, Stages
  <2>2. CountOK'
    BY <1>0, <2>1, CountKept DEF Incr, TypeOK
  <2>3. LocalsOK'
    BY <1>0, <2>1 DEF LocalsOK, TypeOK, Return
  <2>4. QED
    BY <2>1, <2>2, <2>3 DEF TypeInv
<1>3. CASE CheckEnter(c)
  <2> USE <1>3 DEF CheckEnter
  <2>1. CASE gplayer # None
    <3>1. TypeOK' /\ pc' = [pc EXCEPT ![c] = "deaf"]
      BY <1>0, <2>1, ReturnTypes DEF TypeOK, Stages
    <3>2. CountOK'
      BY <1>0, <3>1, CountKept DEF Incr, TypeOK
    <3>3. LocalsOK'
      BY <1>0, <3>1 DEF LocalsOK, TypeOK, Return
    <3>4. QED
      BY <3>1, <3>2, <3>3 DEF TypeInv
  <2>2. CASE gplayer = None
    <3>1. TypeOK' /\ pc' = [pc EXCEPT ![c] = "construct"]
      BY <1>0, <2>2 DEF TypeOK, Stages, Goto
    <3>2. CountOK'
      BY <1>0, <3>1, CountKept DEF Incr, TypeOK
    <3>3. LocalsOK'
      BY <1>0, <3>1 DEF LocalsOK, TypeOK, Return
    <3>4. QED
      BY <3>1, <3>2, <3>3 DEF TypeInv
  <2>3. QED
    BY <2>1, <2>2
<1>4. CASE Construct(c)
  <2> USE <1>4 DEF Construct
  <2>1. /\ pc' \in [Clients -> Stages]
        /\ pc' = [pc EXCEPT ![c] = "call"] \/ pc' = [pc EXCEPT ![c] = "assign"]
    BY <1>0 DEF Goto, TypeOK, Stages
  <2>2. newId' \in [Clients -> Ids]
    <3>1. Account[proto["enter"]] \in Ids
      <4>1. proto["enter"] \in Clients
        BY <1>0 DEF LocalsOK
      <4>2. QED
        BY <4>1
    <3>2. QED
      BY <1>0, <3>1 DEF TypeOK
  <2>3. TypeOK'
    BY <1>0, <2>1, <2>2 DEF TypeOK
  <2>4. CountOK'
    BY <1>0, <2>1, CountKept DEF Incr, TypeOK
  <2>5. LocalsOK'
    BY <1>0, <2>1 DEF LocalsOK, TypeOK
  <2>6. QED
    BY <2>3, <2>4, <2>5 DEF TypeInv
<1>5. CASE Assign(c)
  <2> USE <1>5 DEF Assign
  <2>1. /\ pc' \in [Clients -> Stages]
        /\ pc' = [pc EXCEPT ![c] = "call"] \/ pc' = [pc EXCEPT ![c] = "destroy"]
    BY <1>0 DEF Goto, TypeOK, Stages
  <2>2. Fresh \in Objects
    BY <1>0, FreshExists
  <2>3. player' \in [Objects -> [id : Ids, session : Clients \cup {None},
                                 stuff : {"blank", "stored"}]]
    <3>1. NewPlayer(newId[c], c) \in [id : Ids, session : Clients \cup {None},
                                      stuff : {"blank", "stored"}]
      BY <1>0, StartTypes DEF TypeOK
    <3>2. QED
      BY <1>0, <2>2, <3>1 DEF TypeOK
  <2>4. dying' \in [Clients -> Ids]
    BY <1>0 DEF TypeOK
  <2>5. TypeOK'
    BY <1>0, <2>1, <2>2, <2>3, <2>4 DEF TypeOK
  <2>6. CountOK'
    BY <1>0, <2>1, CountKept DEF Incr, TypeOK
  <2>7. LocalsOK'
    BY <1>0, <2>1 DEF LocalsOK, TypeOK
  <2>8. QED
    BY <2>5, <2>6, <2>7 DEF TypeInv
<1>6. CASE Erase(c)
  <2> USE <1>6 DEF Erase
  <2>1. /\ pc' \in [Clients -> Stages]
        /\ pc' = [pc EXCEPT ![c] = "call"] \/ pc' = [pc EXCEPT ![c] = "stuck"]
    BY <1>0 DEF Goto, TypeOK, Stages
  <2>2. registry' \in [Ids -> Objects \cup {None}]
    BY <1>0 DEF TypeOK
  <2>3. locked' \in BOOLEAN
    BY <1>0 DEF TypeOK
  <2>4. TypeOK'
    BY <1>0, <2>1, <2>2, <2>3 DEF TypeOK
  <2>5. CountOK'
    BY <1>0, <2>1, CountKept DEF Incr, TypeOK
  <2>6. LocalsOK'
    BY <1>0, <2>1 DEF LocalsOK, TypeOK
  <2>7. QED
    BY <2>4, <2>5, <2>6 DEF TypeInv
<1>7. CASE Call(c)
  <2> USE <1>7 DEF Call
  <2>1. CASE gplayer = None
    <3>1. TypeOK' /\ pc' = [pc EXCEPT ![c] = "deaf"]
      BY <1>0, <2>1, ReturnTypes DEF TypeOK, Stages
    <3>2. CountOK'
      BY <1>0, <3>1, CountKept DEF Incr, TypeOK
    <3>3. LocalsOK'
      BY <1>0, <2>1, <3>1 DEF LocalsOK, TypeOK, Return
    <3>4. QED
      BY <3>1, <3>2, <3>3 DEF TypeInv
  <2>2. CASE gplayer # None
    <3>1. TypeOK' /\ pc' = [pc EXCEPT ![c] = "use"]
      <4>1. using' = [using EXCEPT ![c] = gplayer] /\ pc' = [pc EXCEPT ![c] = "use"]
            /\ UNCHANGED <<kind, newId, dying, proto, memoryVars, redisVars>>
        BY <2>2 DEF Goto
      <4>2. gplayer \in Objects
        BY <1>0, <2>2 DEF TypeOK
      <4>3. QED
        BY <1>0, <4>1, <4>2 DEF TypeOK, Stages
    <3>2. CountOK'
      BY <1>0, <3>1, CountKept DEF Incr, TypeOK
    <3>3. LocalsOK'
      BY <1>0, <2>2, <3>1 DEF LocalsOK, TypeOK
    <3>4. QED
      BY <3>1, <3>2, <3>3 DEF TypeInv
  <2>3. QED
    BY <2>1, <2>2
<1>8. CASE Save(c)
  <2> USE <1>8 DEF Save
  <2>1. using[c] \in Objects
    BY <1>0 DEF LocalsOK
  <2>2. record' \in [Ids -> {"none", "blank", "stored"}]
    BY <1>0, <2>1 DEF TypeOK
  <2>3. TypeOK' /\ pc' = [pc EXCEPT ![c] = "read"]
    BY <1>0, <2>2, ReturnTypes DEF TypeOK, Stages
  <2>4. CountOK'
    BY <1>0, <2>3, CountKept DEF Incr, TypeOK
  <2>5. LocalsOK'
    BY <1>0, <2>3 DEF LocalsOK, TypeOK, Return
  <2>6. QED
    BY <2>3, <2>4, <2>5 DEF TypeInv
<1>9. CASE Load(c)
  <2> USE <1>9 DEF Load
  <2>1. using[c] \in Objects
    BY <1>0 DEF LocalsOK
  <2>2. player' \in [Objects -> [id : Ids, session : Clients \cup {None},
                                 stuff : {"blank", "stored"}]]
    <3>1. player[using[c]].id \in Ids
      BY <1>0, <2>1 DEF TypeOK
    <3>2. record[player[using[c]].id] # "none" =>
            record[player[using[c]].id] \in {"blank", "stored"}
      BY <1>0, <3>1 DEF TypeOK
    <3>3. QED
      BY <1>0, <2>1, <3>2 DEF TypeOK
  <2>3. TypeOK' /\ pc' = [pc EXCEPT ![c] = "read"]
    BY <1>0, <2>2, ReturnTypes DEF TypeOK, Stages
  <2>4. CountOK'
    BY <1>0, <2>3, CountKept DEF Incr, TypeOK
  <2>5. LocalsOK'
    BY <1>0, <2>3 DEF LocalsOK, TypeOK, Return
  <2>6. QED
    BY <2>3, <2>4, <2>5 DEF TypeInv
<1>10. CASE EnterScene(c)
  <2> USE <1>10 DEF EnterScene
  <2>1. using[c] \in Objects
    BY <1>0 DEF LocalsOK
  <2>2. registry' \in [Ids -> Objects \cup {None}]
    BY <1>0, <2>1 DEF TypeOK
  <2>3. TypeOK' /\ pc' = [pc EXCEPT ![c] = "read"]
    BY <1>0, <2>2, ReturnTypes DEF TypeOK, Stages
  <2>4. CountOK'
    BY <1>0, <2>3, CountKept DEF Incr, TypeOK
  <2>5. LocalsOK'
    BY <1>0, <2>3 DEF LocalsOK, TypeOK, Return
  <2>6. QED
    BY <2>3, <2>4, <2>5 DEF TypeInv
<1>11. CASE Move(c)
  <2> USE <1>11 DEF Move
  <2>1. TypeOK' /\ pc' = [pc EXCEPT ![c] = "read"]
    BY <1>0, ReturnTypes DEF TypeOK, Stages
  <2>2. CountOK'
    BY <1>0, <2>1, CountKept DEF Incr, TypeOK
  <2>3. LocalsOK'
    BY <1>0, <2>1 DEF LocalsOK, TypeOK, Return
  <2>4. QED
    BY <2>1, <2>2, <2>3 DEF TypeInv
<1>12. QED
  BY <1>1, <1>2, <1>3, <1>4, <1>5, <1>6, <1>7, <1>8, <1>9, <1>10, <1>11 DEF Handler

\* Every step keeps every variable in its type.
LEMMA TypeStep == TypeInv /\ [Next]_vars => TypeInv'
<1> SUFFICES ASSUME TypeInv, [Next]_vars PROVE TypeInv'
  OBVIOUS
<1> USE ClientsAssumption DEF memoryVars, redisVars, handlerVars
<1>0. TypeOK /\ CountOK /\ LocalsOK /\ 0 \in Ids
  BY StartTypes DEF TypeInv
<1>1. ASSUME NEW c \in Clients, Start(c) \/ Reject(c) \/ Throw(c) PROVE TypeInv'
  <2>1. /\ \/ pc' = [pc EXCEPT ![c] = "read"] \/ pc' = [pc EXCEPT ![c] = "gone"]
           \/ pc' = [pc EXCEPT ![c] = "deaf"]
        /\ UNCHANGED <<kind, newId, using, dying, proto, memoryVars, redisVars>>
    BY <1>1 DEF Start, Reject, Throw, Goto
  <2>2. TypeOK'
    BY <1>0, <2>1 DEF TypeOK, Stages
  <2>3. CountOK'
    BY <1>0, <2>1, CountKept DEF Incr, TypeOK
  <2>4. LocalsOK'
    BY <1>0, <2>1 DEF LocalsOK, TypeOK
  <2>5. QED
    BY <2>2, <2>3, <2>4 DEF TypeInv
<1>2. ASSUME NEW c \in Clients, NEW k \in Kinds, Receive(c, k) PROVE TypeInv'
  <2> USE <1>2 DEF Receive, Goto
  <2>1. TypeOK'
    BY <1>0 DEF TypeOK, Stages, Kinds
  <2>2. CountOK'
    <3>1. CASE k = "create"
      <4>1. Incr' \in SUBSET Clients
        BY DEF Incr
      <4>2. Cardinality(Incr') \in Nat /\ Cardinality(Incr') <= Cardinality(Clients)
        BY <4>1, ClientsFinite
      <4>3. QED
        BY <1>0, <3>1, <4>2, ClientsFinite DEF CountOK, TypeOK
    <3>2. CASE k # "create"
      BY <1>0, <3>2, CountKept DEF Incr, TypeOK
    <3>3. QED
      BY <3>1, <3>2
  <2>3. LocalsOK'
    BY <1>0 DEF LocalsOK, TypeOK, ReadKinds
  <2>4. QED
    BY <2>1, <2>2, <2>3 DEF TypeInv
<1>3. CASE Crash
  <2> USE <1>3 DEF Crash
  <2>1. TypeOK'
    <3>1. player' \in [Objects -> [id : Ids, session : Clients \cup {None},
                                   stuff : {"blank", "stored"}]]
      BY StartTypes
    <3>2. QED
      BY <1>0, <3>1 DEF TypeOK, Stages
  <2>2. CountOK'
    BY <1>0, CountKept DEF Incr, TypeOK
  <2>3. LocalsOK'
    BY DEF LocalsOK
  <2>4. QED
    BY <2>1, <2>2, <2>3 DEF TypeInv
<1>4. CASE UNCHANGED vars
  BY <1>0, <1>4 DEF vars, TypeInv, TypeOK, CountOK, LocalsOK, Incr
<1>5. QED
  BY <1>1, <1>2, <1>3, <1>4, TypeHandler DEF Next

\* Type correctness for any number of clients, network threads and restarts: no
\* handler dereferences a null g_player or reads the account of an empty prototype,
\* and what Load() puts into a Player is player data (WorldSession.cpp:73-121,
\* Player.cpp:33-41).
THEOREM TypeInvariance == Spec => []TypeInv
BY TypeInit, TypeStep, PTL DEF Spec

\* The type invariant a run checks, from the inductive one above: every variable keeps
\* its type whatever the handlers of several threads do to g_player
\* (WorldSession.cpp:73-121).
THEOREM TypeCorrect == Spec => []TypeOK
<1>1. TypeInv => TypeOK
  BY DEF TypeInv
<1>2. QED
  BY <1>1, TypeInvariance, PTL

-----------------------------------------------------------------------------
(* The registry, whatever the threads.                                     *)

\* Every step leaves under an id only a Player with that id: an entry is not
\* constructed anew, and the id of a Player never changes.
LEMMA FoundByIdStep == TypeInv /\ FoundById /\ [Next]_vars => FoundById'
<1> SUFFICES ASSUME TypeInv, FoundById, [Next]_vars PROVE FoundById'
  OBVIOUS
<1> USE ClientsAssumption
<1>0. TypeOK /\ LocalsOK
  BY DEF TypeInv
<1>1. ASSUME NEW c \in Clients, Assign(c) PROVE FoundById'
  <2> DEFINE f == Fresh
  <2>1. f \in Objects /\ \A i \in Ids : registry[i] # f
    BY <1>0, FreshExists DEF Alive
  <2>2. registry' = registry /\ player' = [player EXCEPT ![f] = NewPlayer(newId[c], c)]
    BY <1>1 DEF Assign
  <2> HIDE DEF f
  <2>3. QED
    BY <1>0, <2>1, <2>2 DEF FoundById, TypeOK
<1>2. ASSUME NEW c \in Clients, Erase(c) PROVE FoundById'
  BY <1>0, <1>2 DEF Erase, FoundById, TypeOK
<1>3. ASSUME NEW c \in Clients, Load(c) PROVE FoundById'
  <2>1. \A o \in Objects : player'[o].id = player[o].id
    BY <1>0, <1>3 DEF Load, TypeOK
  <2>2. QED
    BY <1>0, <1>3, <2>1 DEF Load, FoundById, TypeOK
<1>4. ASSUME NEW c \in Clients, EnterScene(c) PROVE FoundById'
  <2>1. using[c] \in Objects /\ player' = player
    BY <1>0, <1>4 DEF EnterScene, LocalsOK
  <2>2. \A i \in Ids : registry'[i] = registry[i]
                     \/ (i = player[using[c]].id /\ registry'[i] = using[c])
    BY <1>0, <1>4 DEF EnterScene, TypeOK
  <2>3. QED
    BY <1>0, <2>1, <2>2 DEF FoundById
<1>5. CASE Crash
  BY <1>5 DEF Crash, FoundById
<1>6. CASE UNCHANGED <<registry, player>>
  BY <1>6 DEF FoundById
<1>7. QED
  BY <1>1, <1>2, <1>3, <1>4, <1>5, <1>6 DEF Next, vars, memoryVars, Handler, CreatePlayer,
     CreatePlayerFails, CheckEnter, Construct, Call, Save, Move, Start, Reject, Throw,
     Receive

\* Both invariants that need no assumption on the threads.
LEMMA SharedInvariance == Spec => [](TypeInv /\ FoundById)
<1>1. Init => TypeInv /\ FoundById
  <2>1. Init => FoundById
    BY DEF Init, FoundById
  <2>2. QED
    BY <2>1, TypeInit
<1>2. TypeInv /\ FoundById /\ [Next]_vars => (TypeInv /\ FoundById)'
  BY TypeStep, FoundByIdStep
<1>3. QED
  BY <1>1, <1>2, PTL DEF Spec

\* What EntityManager finds under an id is a Player with that id, for any number of
\* network threads, accounts and restarts (Entity.cpp:18-21, 157-200).
THEOREM FoundByIdCorrect == Spec => []FoundById
BY SharedInvariance, PTL

-----------------------------------------------------------------------------
(* One network thread.                                                     *)

\* All connections are given to one network thread.
OneThread == \A c, d \in Clients : Home[c] = Home[d]

\* Handlers run one after the other.
SerialOK == \A c, d \in Clients : Busy(c) /\ Busy(d) => c = d

\* The prototype a handler reads holds its own message, and the Player whose method
\* runs is g_player.
OwnOK ==
  \A c \in Clients :
    /\ Busy(c) /\ kind[c] \in ReadKinds => proto[kind[c]] = c
    /\ pc[c] \in {"check", "construct"} => kind[c] = "enter"
    /\ pc[c] = "incr" => kind[c] = "create"
    /\ pc[c] = "assign" => kind[c] \in {"create", "enter"}
    /\ pc[c] = "use" => using[c] = gplayer

\* Only ids the counter gave out have records.
RecordsOK == \A i \in Ids : record[i] # "none" => i <= counter

\* A Player that is being created has an id of the counter and no record yet.
CreatedOK ==
  \A c \in Clients : kind[c] = "create" =>
    /\ pc[c] = "assign" => newId[c] <= counter /\ record[newId[c]] = "none"
    /\ pc[c] \in {"destroy", "call", "use"} =>
         /\ gplayer # None
         /\ player[gplayer].id <= counter /\ record[player[gplayer].id] = "none"

SerialInv == SerialOK /\ OwnOK /\ RecordsOK /\ CreatedOK

\* g_player's id is its own in EntityManager; nobody is registered before there is a
\* g_player.
RegistryOK ==
  /\ gplayer # None => registry[player[gplayer].id] \in {None, gplayer}
  /\ gplayer = None => \A i \in Ids : registry[i] = None

\* The ids in use were given out by the counter.
GivenOut ==
  /\ \A i \in Ids : registry[i] # None => i <= counter
  /\ gplayer # None => player[gplayer].id <= counter

\* A Player about to be constructed has an id nobody has.
NewIdOK ==
  \A c \in Clients : pc[c] = "assign" =>
    /\ newId[c] <= counter /\ registry[newId[c]] = None
    /\ gplayer # None => player[gplayer].id # newId[c]

\* The Player being destroyed has no entry, so its destructor does not wait for the
\* mutex Erase holds.
EraseOK ==
  /\ ~locked
  /\ \A c \in Clients : pc[c] # "stuck"
  /\ \A c \in Clients : pc[c] = "destroy" => registry[dying[c]] = None

\* What holds while every id that was asked for had been given out.
IssuedInv == RegistryOK /\ GivenOut /\ NewIdOK /\ EraseOK

Inv == TypeInv /\ FoundById /\ SerialInv /\ (unissued \/ IssuedInv)

\* The invariant of one thread holds when the server is started.
LEMMA SerialInit == Init => SerialInv /\ IssuedInv
<1> SUFFICES ASSUME Init PROVE SerialInv /\ IssuedInv
  OBVIOUS
<1> USE ClientsAssumption DEF Init
<1>1. SerialOK /\ OwnOK /\ CreatedOK /\ RecordsOK
  BY DEF SerialOK, OwnOK, CreatedOK, RecordsOK, Busy
<1>2. RegistryOK /\ GivenOut /\ NewIdOK /\ EraseOK
  BY DEF RegistryOK, GivenOut, NewIdOK, EraseOK
<1>3. QED
  BY <1>1, <1>2 DEF SerialInv, IssuedInv

\* While a handler runs, no other one does.
LEMMA OthersIdle ==
  ASSUME TypeInv, SerialInv, NEW c \in Clients, Busy(c), NEW st,
         pc' = [pc EXCEPT ![c] = st]
  PROVE  /\ \A d \in Clients \ {c} : pc[d] \in {"read", "deaf", "gone"} /\ pc'[d] = pc[d]
         /\ pc'[c] = st
         /\ SerialOK'
BY DEF TypeInv, TypeOK, SerialInv, SerialOK, Busy

\* Where a step of a handler leaves it, and the other handlers.
LEMMA HandlerMoves ==
  ASSUME TypeInv, SerialInv, NEW c \in Clients, Handler(c)
  PROVE  /\ Busy(c) /\ SerialOK'
         /\ \A d \in Clients \ {c} : pc[d] \in {"read", "deaf", "gone"} /\ pc'[d] = pc[d]
         /\ \/ Return(c, "read") \/ Return(c, "deaf")
            \/ kind' = kind
         /\ Return(c, "read") \/ Return(c, "deaf") => pc'[c] \in {"read", "deaf"}
<1>1. Busy(c)
  BY DEF Busy, Handler, CreatePlayer, CreatePlayerFails, CheckEnter, Construct, Assign,
     Erase, Call, Save, Load, EnterScene, Move
<1>2. \E st : pc' = [pc EXCEPT ![c] = st]
  BY DEF Handler, CreatePlayer, CreatePlayerFails, CheckEnter, Construct, Assign,
     Erase, Call, Save, Load, EnterScene, Move, Return, Goto
<1>3. \/ Return(c, "read") \/ Return(c, "deaf") \/ kind' = kind
  BY DEF Handler, CreatePlayer, CreatePlayerFails, CheckEnter, Construct, Assign,
     Erase, Call, Save, Load, EnterScene, Move
<1>4. Return(c, "read") \/ Return(c, "deaf") => pc'[c] \in {"read", "deaf"}
  BY DEF Return, Goto, TypeInv, TypeOK
<1>5. QED
  BY <1>1, <1>2, <1>3, <1>4, OthersIdle

\* A handler that returns leaves no handler running, so nothing is asked of any.
LEMMA AfterReturn ==
  ASSUME TypeInv, SerialInv, NEW c \in Clients, Handler(c),
         Return(c, "read") \/ Return(c, "deaf")
  PROVE  /\ \A d \in Clients : pc'[d] \in {"read", "deaf", "gone"}
         /\ SerialOK' /\ OwnOK' /\ CreatedOK' /\ NewIdOK'
<1>1. \A d \in Clients : pc'[d] \in {"read", "deaf", "gone"}
  BY HandlerMoves
<1>2. QED
  BY <1>1 DEF SerialOK, OwnOK, CreatedOK, NewIdOK, Busy

\* Every step of a handler keeps the part that needs no assumption on the accounts.
LEMMA SerialHandler ==
  ASSUME TypeInv, TypeInv', SerialInv, NEW c \in Clients, Handler(c)
  PROVE  SerialInv'
<1> USE ClientsAssumption DEF memoryVars, redisVars
<1>0. /\ TypeOK /\ TypeOK' /\ SerialOK /\ OwnOK /\ RecordsOK /\ CreatedOK
      /\ Busy(c) /\ SerialOK'
      /\ \A d \in Clients \ {c} : pc'[d] \in {"read", "deaf", "gone"}
  BY HandlerMoves DEF TypeInv, SerialInv
<1>1. CASE CreatePlayer(c)
  <2> USE <1>1 DEF CreatePlayer, Goto
  <2>1. pc'[c] = "assign" /\ kind' = kind /\ kind[c] = "create"
    BY <1>0 DEF OwnOK, TypeOK
  <2>2. OwnOK'
    BY <1>0, <2>1 DEF OwnOK, Busy, ReadKinds
  <2>3. RecordsOK'
    BY <1>0 DEF RecordsOK, TypeOK, Ids
  <2>4. CreatedOK'
    <3>1. newId'[c] = counter + 1 /\ counter + 1 \in Ids /\ counter \in Nat
      BY <1>0 DEF TypeOK
    <3>2. record[counter + 1] = "none"
      BY <1>0, <3>1 DEF RecordsOK, TypeOK
    <3>3. newId'[c] <= counter' /\ record'[newId'[c]] = "none"
      BY <3>1, <3>2
    <3>4. \A d \in Clients \ {c} : pc'[d] \notin {"assign", "destroy", "call", "use"}
      BY <1>0
    <3>5. QED
      BY <2>1, <3>3, <3>4 DEF CreatedOK
  <2>5. QED
    BY <1>0, <2>2, <2>3, <2>4 DEF SerialInv
<1>2. CASE CreatePlayerFails(c)
  BY <1>0, <1>2, AfterReturn DEF CreatePlayerFails, SerialInv, RecordsOK
<1>3. CASE CheckEnter(c)
  <2> USE <1>3 DEF CheckEnter
  <2>1. RecordsOK'
    BY <1>0 DEF RecordsOK
  <2>2. CASE gplayer # None
    BY <1>0, <2>1, <2>2, AfterReturn DEF SerialInv
  <2>3. CASE gplayer = None
    <3>1. pc'[c] = "construct"
      BY <1>0, <2>3 DEF TypeOK, Goto
    <3>2. OwnOK' /\ CreatedOK'
      BY <1>0, <2>3, <3>1 DEF OwnOK, CreatedOK, Busy
    <3>3. QED
      BY <1>0, <2>1, <3>2 DEF SerialInv
  <2>4. QED
    BY <2>2, <2>3
<1>4. CASE Construct(c)
  <2> USE <1>4 DEF Construct, Goto
  <2>1. pc'[c] \in {"call", "assign"} /\ kind[c] = "enter"
    BY <1>0 DEF TypeOK, OwnOK
  <2>2. OwnOK' /\ CreatedOK' /\ RecordsOK'
    BY <1>0, <2>1 DEF OwnOK, CreatedOK, RecordsOK, Busy
  <2>3. QED
    BY <1>0, <2>2 DEF SerialInv
<1>5. CASE Assign(c)
  <2> USE <1>5 DEF Assign, Goto
  <2> DEFINE f == Fresh
  <2>1. /\ gplayer' = f /\ f # None /\ player'[f].id = newId[c] /\ newId[c] \in Ids
        /\ pc'[c] \in {"call", "destroy"}
    BY <1>0, FreshExists DEF TypeOK, NewPlayer
  <2> HIDE DEF f
  <2>2. OwnOK' /\ RecordsOK'
    BY <1>0, <2>1 DEF OwnOK, RecordsOK, Busy
  <2>3. CreatedOK'
    <3>1. kind[c] = "create" => newId[c] <= counter /\ record[newId[c]] = "none"
      BY <1>0 DEF CreatedOK
    <3>2. \A d \in Clients \ {c} : pc'[d] \notin {"assign", "destroy", "call", "use"}
      BY <1>0
    <3>3. QED
      BY <2>1, <3>1, <3>2 DEF CreatedOK
  <2>4. QED
    BY <1>0, <2>2, <2>3 DEF SerialInv
<1>6. CASE Erase(c)
  <2> USE <1>6 DEF Erase, Goto
  <2>1. pc'[c] \in {"call", "stuck"}
    BY <1>0 DEF TypeOK
  <2>2. OwnOK' /\ CreatedOK' /\ RecordsOK'
    BY <1>0, <2>1 DEF OwnOK, CreatedOK, RecordsOK, Busy
  <2>3. QED
    BY <1>0, <2>2 DEF SerialInv
<1>7. CASE Call(c)
  <2> USE <1>7 DEF Call
  <2>1. RecordsOK'
    BY <1>0 DEF RecordsOK
  <2>2. CASE gplayer = None
    BY <1>0, <2>1, <2>2, AfterReturn DEF SerialInv
  <2>3. CASE gplayer # None
    <3>1. pc'[c] = "use" /\ using'[c] = gplayer
      BY <1>0, <2>3 DEF TypeOK, Goto
    <3>2. OwnOK' /\ CreatedOK'
      BY <1>0, <2>3, <3>1 DEF OwnOK, CreatedOK, Busy
    <3>3. QED
      BY <1>0, <2>1, <3>2 DEF SerialInv
  <2>4. QED
    BY <2>2, <2>3
<1>8. CASE Save(c)
  <2> USE <1>8 DEF Save
  <2>1. /\ using[c] = gplayer /\ gplayer # None /\ gplayer \in Objects
        /\ player[gplayer].id <= counter
    BY <1>0 DEF OwnOK, CreatedOK, TypeOK
  <2>2. RecordsOK'
    <3>1. \A i \in Ids : record'[i] # "none" =>
            record[i] # "none" \/ i = player[gplayer].id
      BY <1>0, <2>1 DEF TypeOK
    <3>2. QED
      BY <1>0, <2>1, <3>1 DEF RecordsOK
  <2>3. QED
    BY <1>0, <2>2, AfterReturn DEF SerialInv
<1>9. CASE Load(c)
  BY <1>0, <1>9, AfterReturn DEF Load, SerialInv, RecordsOK
<1>10. CASE EnterScene(c)
  BY <1>0, <1>10, AfterReturn DEF EnterScene, SerialInv, RecordsOK
<1>11. CASE Move(c)
  BY <1>0, <1>11, AfterReturn DEF Move, SerialInv, RecordsOK
<1>12. QED
  BY <1>1, <1>2, <1>3, <1>4, <1>5, <1>6, <1>7, <1>8, <1>9, <1>10, <1>11 DEF Handler

\* Every step of a handler keeps the rest, unless it asks for an id not given out.
LEMMA IssuedHandler ==
  ASSUME TypeInv, TypeInv', FoundById, SerialInv, IssuedInv,
         NEW c \in Clients, Handler(c), ~unissued'
  PROVE  IssuedInv'
<1> USE ClientsAssumption DEF memoryVars, redisVars
<1>0. /\ TypeOK /\ TypeOK' /\ CountOK /\ LocalsOK /\ OwnOK
      /\ RegistryOK /\ GivenOut /\ NewIdOK /\ EraseOK
      /\ Busy(c)
      /\ \A d \in Clients \ {c} : pc'[d] \in {"read", "deaf", "gone"}
  BY HandlerMoves DEF TypeInv, SerialInv, IssuedInv
<1>a. ASSUME Return(c, "read") \/ Return(c, "deaf"), UNCHANGED locked, RegistryOK', GivenOut'
      PROVE  IssuedInv'
  BY <1>0, <1>a, AfterReturn DEF IssuedInv, EraseOK
<1>1. CASE CreatePlayer(c)
  <2> USE <1>1 DEF CreatePlayer, Goto
  <2>1. pc'[c] = "assign"
    BY <1>0 DEF TypeOK
  <2>2. RegistryOK' /\ GivenOut' /\ EraseOK'
    BY <1>0, <2>1 DEF RegistryOK, GivenOut, EraseOK, TypeOK, Ids
  <2>3. NewIdOK'
    <3>1. newId'[c] = counter + 1 /\ counter + 1 \in Ids /\ counter \in Nat
      BY <1>0 DEF TypeOK
    <3>2. registry[counter + 1] = None
      BY <1>0, <3>1 DEF GivenOut, TypeOK
    <3>3. gplayer # None => player[gplayer].id # counter + 1
      BY <1>0, <3>1 DEF GivenOut, TypeOK, Ids
    <3>4. QED
      BY <1>0, <2>1, <3>1, <3>2, <3>3 DEF NewIdOK
  <2>4. QED
    BY <2>2, <2>3 DEF IssuedInv
<1>2. CASE CreatePlayerFails(c)
  BY <1>0, <1>2, <1>a DEF CreatePlayerFails, RegistryOK, GivenOut
<1>3. CASE CheckEnter(c)
  <2> USE <1>3 DEF CheckEnter
  <2>1. RegistryOK' /\ GivenOut'
    BY <1>0 DEF RegistryOK, GivenOut
  <2>2. CASE gplayer # None
    BY <1>a, <2>1, <2>2
  <2>3. CASE gplayer = None
    <3>1. pc'[c] = "construct"
      BY <1>0, <2>3 DEF TypeOK, Goto
    <3>2. NewIdOK' /\ EraseOK'
      BY <1>0, <2>3, <3>1 DEF NewIdOK, EraseOK
    <3>3. QED
      BY <2>1, <3>2 DEF IssuedInv
  <2>4. QED
    BY <2>2, <2>3
<1>4. CASE Construct(c)
  <2> USE <1>4 DEF Construct, Goto
  <2>1. RegistryOK' /\ GivenOut'
    BY <1>0 DEF RegistryOK, GivenOut
  <2>2. CASE gplayer # None
    <3>1. pc'[c] = "call"
      BY <1>0, <2>2 DEF TypeOK
    <3>2. NewIdOK' /\ EraseOK'
      BY <1>0, <2>2, <3>1 DEF NewIdOK, EraseOK
    <3>3. QED
      BY <2>1, <3>2 DEF IssuedInv
  <2>3. CASE gplayer = None
    <3>1. /\ pc'[c] = "assign"
          /\ newId'[c] = Account[proto["enter"]] /\ newId'[c] \in Ids
      BY <1>0, <2>3 DEF TypeOK
    <3>2. newId'[c] <= counter
      <4>1. ~(newId'[c] > counter)
        BY <2>3, <3>1
      <4>2. QED
        BY <1>0, <3>1, <4>1 DEF TypeOK, Ids
    <3>3. registry[newId'[c]] = None
      BY <1>0, <2>3, <3>1 DEF RegistryOK
    <3>4. NewIdOK' /\ EraseOK'
      BY <1>0, <2>3, <3>1, <3>2, <3>3 DEF NewIdOK, EraseOK
    <3>5. QED
      BY <2>1, <3>4 DEF IssuedInv
  <2>4. QED
    BY <2>2, <2>3
<1>5. CASE Assign(c)
  <2> USE <1>5 DEF Assign, Goto
  <2> DEFINE f == Fresh
  <2>1. /\ f \in Objects /\ f # gplayer /\ f # None
        /\ \A i \in Ids : registry[i] # f
    BY <1>0, FreshExists DEF Alive
  <2>2. /\ gplayer' = f /\ player'[f].id = newId[c] /\ newId[c] \in Ids
        /\ pc'[c] \in {"call", "destroy"}
    BY <1>0, <2>1 DEF TypeOK, NewPlayer
  <2> HIDE DEF f
  <2>3. newId[c] <= counter /\ registry[newId[c]] = None
    BY <1>0 DEF NewIdOK
  <2>4. RegistryOK' /\ GivenOut'
    BY <1>0, <2>1, <2>2, <2>3 DEF RegistryOK, GivenOut
  <2>5. NewIdOK'
    BY <1>0, <2>2 DEF NewIdOK
  <2>6. EraseOK'
    <3>1. pc'[c] = "destroy" => registry[dying'[c]] = None
      <4> SUFFICES ASSUME pc'[c] = "destroy" PROVE registry[dying'[c]] = None
        OBVIOUS
      <4>1. gplayer # None /\ \A i \in Ids : registry[i] # gplayer
        BY <1>0 DEF TypeOK
      <4>2. player[gplayer].id \in Ids /\ dying'[c] = player[gplayer].id
        BY <1>0, <4>1 DEF TypeOK
      <4>3. QED
        BY <1>0, <4>1, <4>2 DEF RegistryOK
    <3>2. QED
      BY <1>0, <2>2, <3>1 DEF EraseOK
  <2>7. QED
    BY <2>4, <2>5, <2>6 DEF IssuedInv
<1>6. CASE Erase(c)
  <2> USE <1>6 DEF Erase, Goto
  <2>1. registry[dying[c]] = None
    BY <1>0 DEF EraseOK
  <2>2. registry' = registry /\ pc'[c] = "call" /\ locked' = locked
    BY <1>0, <2>1 DEF TypeOK
  <2>3. RegistryOK' /\ GivenOut' /\ NewIdOK' /\ EraseOK'
    BY <1>0, <2>2 DEF RegistryOK, GivenOut, NewIdOK, EraseOK
  <2>4. QED
    BY <2>3 DEF IssuedInv
<1>7. CASE Call(c)
  <2> USE <1>7 DEF Call
  <2>1. RegistryOK' /\ GivenOut'
    BY <1>0 DEF RegistryOK, GivenOut
  <2>2. CASE gplayer = None
    BY <1>a, <2>1, <2>2
  <2>3. CASE gplayer # None
    <3>1. pc'[c] = "use"
      BY <1>0, <2>3 DEF TypeOK, Goto
    <3>2. NewIdOK' /\ EraseOK'
      BY <1>0, <2>3, <3>1 DEF NewIdOK, EraseOK
    <3>3. QED
      BY <2>1, <3>2 DEF IssuedInv
  <2>4. QED
    BY <2>2, <2>3
<1>8. CASE Save(c)
  BY <1>0, <1>8, <1>a DEF Save, RegistryOK, GivenOut
<1>9. CASE Load(c)
  <2>1. \A o \in Objects : player'[o].id = player[o].id
    BY <1>0, <1>9 DEF Load, TypeOK
  <2>2. RegistryOK' /\ GivenOut'
    BY <1>0, <1>9, <2>1 DEF Load, RegistryOK, GivenOut, TypeOK
  <2>3. QED
    BY <1>9, <1>a, <2>2 DEF Load
<1>10. CASE EnterScene(c)
  <2> USE <1>10 DEF EnterScene
  <2>1. using[c] = gplayer /\ gplayer # None /\ gplayer \in Objects
    BY <1>0 DEF OwnOK, LocalsOK
  <2>2. player[gplayer].id \in Ids
    BY <1>0, <2>1 DEF TypeOK
  <2>3. \A i \in Ids : registry'[i] = registry[i]
                     \/ (i = player[gplayer].id /\ registry'[i] = gplayer)
    BY <1>0, <2>1 DEF TypeOK
  <2>4. RegistryOK' /\ GivenOut'
    BY <1>0, <2>1, <2>2, <2>3 DEF RegistryOK, GivenOut
  <2>5. QED
    BY <1>a, <2>4
<1>11. CASE Move(c)
  BY <1>0, <1>11, <1>a DEF Move, RegistryOK, GivenOut
<1>12. QED
  BY <1>1, <1>2, <1>3, <1>4, <1>5, <1>6, <1>7, <1>8, <1>9, <1>10, <1>11 DEF Handler

\* Every step keeps the invariant of one thread.
LEMMA SerialStep == OneThread /\ Inv /\ [Next]_vars => Inv'
<1> SUFFICES ASSUME OneThread, Inv, [Next]_vars PROVE Inv'
  OBVIOUS
<1> USE ClientsAssumption DEF memoryVars, redisVars, handlerVars
<1>0. TypeInv /\ TypeInv' /\ FoundById /\ FoundById' /\ SerialInv
  BY TypeStep, FoundByIdStep DEF Inv
<1>1. TypeOK /\ SerialOK /\ OwnOK /\ RecordsOK /\ CreatedOK
  BY <1>0 DEF TypeInv, SerialInv
<1>2. ASSUME NEW c \in Clients, Handler(c) PROVE Inv'
  <2>1. unissued => unissued'
    BY <1>2 DEF Handler, CreatePlayer, CreatePlayerFails, CheckEnter, Construct, Assign,
       Erase, Call, Save, Load, EnterScene, Move
  <2>2. SerialInv'
    BY <1>0, <1>2, SerialHandler
  <2>3. unissued' \/ IssuedInv'
    BY <1>0, <1>2, <2>1, IssuedHandler DEF Inv
  <2>4. QED
    BY <1>0, <2>2, <2>3 DEF Inv
<1>3. ASSUME NEW c \in Clients, Start(c) \/ Reject(c) \/ Throw(c) PROVE Inv'
  <2>1. /\ \E st \in {"read", "gone", "deaf"} : pc' = [pc EXCEPT ![c] = st]
        /\ UNCHANGED <<kind, newId, using, dying, proto, memoryVars, redisVars>>
    BY <1>3 DEF Start, Reject, Throw, Goto
  <2>2. \A d \in Clients : pc'[d] = pc[d] \/ pc'[d] \in {"read", "gone", "deaf"}
    BY <1>1, <2>1 DEF TypeOK
  <2>3. SerialInv'
    BY <1>1, <2>1, <2>2 DEF SerialInv, SerialOK, OwnOK, RecordsOK, CreatedOK, Busy
  <2>4. IssuedInv => IssuedInv'
    BY <2>1, <2>2 DEF IssuedInv, RegistryOK, GivenOut, NewIdOK, EraseOK
  <2>5. QED
    BY <1>0, <2>1, <2>3, <2>4 DEF Inv
<1>4. ASSUME NEW c \in Clients, NEW k \in Kinds, Receive(c, k) PROVE Inv'
  <2> USE <1>4 DEF Receive, Goto
  <2>1. \A d \in Clients : ~Busy(d)
    BY DEF OneThread, ThreadFree
  <2>2. /\ \A d \in Clients \ {c} : pc'[d] \in {"read", "gone", "deaf"}
        /\ kind'[c] = k
        /\ pc'[c] = CASE k = "create" -> "incr" [] k = "enter" -> "check" [] OTHER -> "call"
    BY <1>1, <2>1 DEF TypeOK, Busy
  <2>3. SerialOK'
    BY <2>2 DEF SerialOK, Busy
  <2>4. OwnOK'
    BY <1>1, <2>2 DEF OwnOK, Busy, TypeOK
  <2>5. RecordsOK' /\ CreatedOK'
    BY <1>1, <2>2 DEF RecordsOK, CreatedOK
  <2>6. IssuedInv => IssuedInv'
    BY <2>2 DEF IssuedInv, RegistryOK, GivenOut, NewIdOK, EraseOK
  <2>7. QED
    BY <1>0, <2>3, <2>4, <2>5, <2>6 DEF Inv, SerialInv
<1>5. CASE Crash
  <2> USE <1>5 DEF Crash
  <2>1. SerialInv'
    BY <1>1 DEF SerialInv, SerialOK, OwnOK, RecordsOK, CreatedOK, Busy
  <2>2. IssuedInv'
    BY DEF IssuedInv, RegistryOK, GivenOut, NewIdOK, EraseOK
  <2>3. QED
    BY <1>0, <2>1, <2>2 DEF Inv
<1>6. CASE UNCHANGED vars
  <2>1. SerialInv' /\ (IssuedInv => IssuedInv')
    BY <1>1, <1>6 DEF vars, SerialInv, SerialOK, OwnOK, RecordsOK, CreatedOK, IssuedInv,
       RegistryOK, GivenOut, NewIdOK, EraseOK, Busy
  <2>2. QED
    BY <1>0, <1>6, <2>1 DEF Inv, vars
<1>7. QED
  BY <1>2, <1>3, <1>4, <1>5, <1>6 DEF Next

\* With one network thread, in every reachable state and after any number of
\* restarts: handlers run one after the other, records belong to ids the counter gave
\* out, and unless an ENTER_GAME asked for another id, an id is in use once
\* (WorldSession.cpp:48-134).
THEOREM SerialInvariance == OneThread => (Spec => []Inv)
<1> SUFFICES ASSUME OneThread PROVE Spec => []Inv
  OBVIOUS
<1>1. Init => Inv
  <2>1. Init => FoundById
    BY DEF Init, FoundById
  <2>2. QED
    BY <2>1, TypeInit, SerialInit DEF Inv
<1>2. Inv /\ [Next]_vars => Inv'
  BY SerialStep
<1>3. QED
  BY <1>1, <1>2, PTL DEF Spec

\* No two Players that exist have the same id (Entity.h:28), as long as no ENTER_GAME
\* asked for an id that INCR had still to give out.
THEOREM UniqueIfIssuedCorrect == OneThread => (Spec => []UniqueIfIssued)
<1>1. Inv => UniqueIfIssued
  <2> SUFFICES ASSUME Inv, ~unissued, NEW o \in Live, NEW p \in Live,
                      player[o].id = player[p].id
               PROVE  o = p
    BY DEF UniqueIfIssued, UniqueIds
  <2>1. TypeOK /\ FoundById /\ RegistryOK
    BY DEF Inv, TypeInv, IssuedInv
  <2>2. ASSUME NEW q \in Live
        PROVE  q \in Objects /\ (q = gplayer \/ registry[player[q].id] = q)
    BY <2>1, ClientsAssumption DEF Live, Alive, FoundById
  <2>3. QED
    BY <2>1, <2>2, ClientsAssumption DEF RegistryOK
<1>2. QED
  BY <1>1, SerialInvariance, PTL

\* The destructor of a Player never waits for the mutex of EntityManager that its
\* own thread holds (Entity.cpp:18-21, 196-200), under the same condition: the safety
\* half of ReturnsIfIssued.
THEOREM MutexCorrect ==
  OneThread =>
    (Spec => [](~unissued => ~locked /\ \A c \in Clients : pc[c] # "stuck"))
<1>1. Inv => (~unissued => ~locked /\ \A c \in Clients : pc[c] # "stuck")
  BY DEF Inv, IssuedInv, EraseOK
<1>2. QED
  BY <1>1, SerialInvariance, PTL

\* A record, once stored, is never replaced by that of a Player who has not been
\* loaded from it, whatever ids the clients enter with (WorldSession.cpp:97-110).
THEOREM RecordKeptCorrect == OneThread => (Spec => RecordKept)
<1>1. Inv /\ [Next]_vars =>
        \A i \in Ids : record[i] = "stored" => record'[i] = "stored"
  <2> SUFFICES ASSUME Inv, [Next]_vars, NEW i \in Ids, record[i] = "stored"
               PROVE  record'[i] = "stored"
    OBVIOUS
  <2>1. ASSUME NEW c \in Clients, Save(c) PROVE record'[i] = "stored"
    <3>1. using[c] = gplayer /\ record[player[gplayer].id] = "none"
      BY <2>1 DEF Save, Inv, SerialInv, OwnOK, CreatedOK
    <3>2. QED
      BY <2>1, <3>1 DEF Save, Inv, TypeInv, TypeOK
  <2>2. (\A c \in Clients : ~Save(c)) => record' = record
    BY DEF Next, vars, redisVars, Handler, CreatePlayer, CreatePlayerFails, CheckEnter,
       Construct, Assign, Erase, Call, Load, EnterScene, Move, Start, Reject, Throw,
       Receive, Crash
  <2>3. QED
    BY <2>1, <2>2
<1>2. Inv /\ [Next]_vars =>
        [\A i \in Ids : record[i] = "stored" => record'[i] = "stored"]_vars
  BY <1>1
<1>3. QED
  BY <1>2, SerialInvariance, PTL DEF Spec, RecordKept
=============================================================================
