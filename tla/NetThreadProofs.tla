-------------------------- MODULE NetThreadProofs --------------------------
(***************************************************************************)
(* Theorems about NetThread, for every number of threads and sessions and  *)
(* for both kinds of session.                                              *)
(*                                                                         *)
(* TypeOK is not inductive: that _connections never goes below zero        *)
(* follows from what it counts.  The inductive invariant is therefore      *)
(* WeakTypeOK (counters are integers) with the accounting itself and with  *)
(* the facts about the passes and the accept chain that make it true.      *)
(***************************************************************************)
EXTENDS NetThread, FiniteSetTheorems, TLAPS

WeakTypeOK ==
  /\ conns \in [Threads -> Int]
  /\ fresh \in [Threads -> SUBSET Sessions]
  /\ sockets \in [Threads -> SUBSET Sessions]
  /\ todo \in [Threads -> SUBSET Sessions]
  /\ dropped \in [Threads -> SUBSET Sessions]
  /\ sweeping \in SUBSET Threads
  /\ closed \in SUBSET Sessions
  /\ reading \in SUBSET Sessions
  /\ home \in [Sessions -> Threads \cup {Unaccepted}]
  /\ accPc \in {"select", "compare", "armed", "add"}
  /\ target \in Threads
  /\ idx \in 1 .. ThreadCount
  /\ left \in Int
  /\ opening \in SUBSET Sessions
  /\ jammed \in SUBSET Threads

\* A pass visits what is in _socket_list, gives up only closed sessions, and
\* leaves nothing behind.
PassOK ==
  \A t \in Threads :
    /\ todo[t] \subseteq sockets[t] \ dropped[t]
    /\ dropped[t] \subseteq sockets[t] \cap closed
    /\ t \notin sweeping => todo[t] = {} /\ dropped[t] = {}

\* The accept chain holds one session exactly between Start() and AddSocket().
ChainOK ==
  /\ accPc = "compare" => idx < ThreadCount
  /\ accPc = "add" => \E s \in Sessions : opening = {s}
  /\ accPc # "add" => opening = {}
  /\ \A s \in opening : home[s] = target
  /\ left >= 0
  /\ \A s \in reading \cup closed : home[s] \in Threads

\* An open session is kept by its thread or still held by the accept chain.
LiveKept ==
  \A s \in Sessions : home[s] \in Threads /\ s \notin closed
                        => s \in opening \/ s \in Tracked(home[s])

\* Until the first session closes, the selection loop has found a least loaded
\* thread among those it visited, and nobody else changes the counts.
SelectionOK ==
  closed = {} =>
    /\ \A j \in Threads : j < idx => conns[target] <= conns[j]
    /\ accPc = "compare" => left = conns[idx]
    /\ accPc \in {"armed", "add"} => idx = ThreadCount

IndInv == /\ WeakTypeOK
          /\ PassOK
          /\ ChainOK
          /\ TrackedAtHome
          /\ ConnAccounting
          /\ LiveKept
          /\ SelectionOK
          /\ Balanced
          /\ up \in BOOLEAN

-----------------------------------------------------------------------------
(* Type correctness, counters being integers.                              *)

\* Thread 0 exists, and thread indexes are integers apart from Unaccepted.
LEMMA ThreadsFacts ==
  /\ 0 \in Threads
  /\ Threads \subseteq Int
  /\ Unaccepted \notin Threads
  /\ \A i \in 1 .. ThreadCount : i < ThreadCount => i \in Threads
  /\ \A i \in Threads : i < ThreadCount
  /\ \A i \in Threads : i < 1 => i = 0
BY ThreadCountAssumption DEF Threads, Unaccepted

\* Finite sets of sessions have natural cardinalities.
LEMMA SessionSets ==
  ASSUME NEW S \in SUBSET Sessions
  PROVE  IsFiniteSet(S) /\ Cardinality(S) \in Nat
BY SessionsAssumption, FS_Subset, FS_CardinalityType

\* The accounting makes the counters natural numbers.
LEMMA CountsAreNat ==
  ASSUME WeakTypeOK, ConnAccounting
  PROVE  \A t \in Threads : conns[t] \in Nat
<1>1. \A t \in Threads : Kept(t) \in SUBSET Sessions
  BY DEF WeakTypeOK, Kept
<1>2. QED
  BY <1>1, SessionSets DEF ConnAccounting

\* Every step keeps every variable in its type.
LEMMA WeakTypeStep ==
  ASSUME IndInv, [Next]_vars
  PROVE  WeakTypeOK'
<1> USE ThreadsFacts, ThreadCountAssumption DEF IndInv
<1>1. CASE SelectRead
  BY <1>1 DEF SelectRead, WeakTypeOK, accVars, loopVars, Rearm
<1>2. CASE SelectCompare
  BY <1>2 DEF SelectCompare, WeakTypeOK, ChainOK, accVars, loopVars
<1>3. CASE AsyncAccept
  BY <1>3 DEF AsyncAccept, WeakTypeOK, accVars, loopVars, Rearm
<1>4. CASE AddSocket
  BY <1>4 DEF AddSocket, WeakTypeOK, accVars, loopVars, Rearm
<1>5. CASE AcceptError
  BY <1>5 DEF AcceptError, WeakTypeOK, accVars, loopVars, Rearm
<1>6. ASSUME NEW s \in Sessions, OnAccept(s) PROVE WeakTypeOK'
  BY <1>6 DEF OnAccept, WeakTypeOK, accVars, loopVars, Rearm
<1>7. ASSUME NEW s \in Sessions, HandlerClose(s) PROVE WeakTypeOK'
  BY <1>7 DEF HandlerClose, WeakTypeOK, accVars, loopVars, Rearm
<1>8. ASSUME NEW s \in Sessions, HandlerReturn(s) PROVE WeakTypeOK'
  BY <1>8 DEF HandlerReturn, WeakTypeOK, accVars, loopVars, Rearm
<1>9. ASSUME NEW t \in Threads, UpdateBegin(t) PROVE WeakTypeOK'
  BY <1>9, SessionSets DEF UpdateBegin, WeakTypeOK, accVars
<1>10. ASSUME NEW t \in Threads, NEW s \in Sessions, SweepKeep(t, s) PROVE WeakTypeOK'
  BY <1>10 DEF SweepKeep, WeakTypeOK, accVars, loopVars, Rearm
<1>11. ASSUME NEW t \in Threads, NEW s \in Sessions, SweepDrop(t, s) PROVE WeakTypeOK'
  BY <1>11 DEF SweepDrop, WeakTypeOK, accVars, loopVars, Rearm
<1>12. ASSUME NEW t \in Threads, UpdateEnd(t) PROVE WeakTypeOK'
  BY <1>12 DEF UpdateEnd, WeakTypeOK, accVars, loopVars, Rearm
<1>13. CASE UNCHANGED vars
  BY <1>13 DEF vars, WeakTypeOK, accVars, loopVars, Rearm
<1>14. CASE AcceptIntoOpen
  BY <1>14 DEF AcceptIntoOpen, WeakTypeOK, accVars, loopVars, Rearm
<1>15. ASSUME NEW t \in Threads, Terminate(t) PROVE WeakTypeOK'
  BY <1>15 DEF Terminate, WeakTypeOK, accVars, loopVars
<1>16. QED
  BY <1>1, <1>2, <1>3, <1>4, <1>5, <1>6, <1>7, <1>8, <1>9, <1>10, <1>11, <1>12, <1>13, <1>14,
     <1>15 DEF Next, Operate, AcceptChain, Sweep, Down

\* Only a thread's own pass touches its lists in a way that matters to the pass.
LEMMA PassStep ==
  ASSUME IndInv, [Next]_vars
  PROVE  PassOK'
<1> USE DEF IndInv
<1>1. CASE SelectRead
  BY <1>1 DEF SelectRead, WeakTypeOK, PassOK, accVars, loopVars, Rearm
<1>2. CASE SelectCompare
  BY <1>2 DEF SelectCompare, WeakTypeOK, PassOK, accVars, loopVars, Rearm
<1>3. CASE AsyncAccept
  BY <1>3 DEF AsyncAccept, WeakTypeOK, PassOK, accVars, loopVars, Rearm
<1>4. CASE AddSocket
  BY <1>4 DEF AddSocket, WeakTypeOK, PassOK, accVars, loopVars, Rearm
<1>5. CASE AcceptError
  BY <1>5 DEF AcceptError, WeakTypeOK, PassOK, accVars, loopVars, Rearm
<1>6. ASSUME NEW s \in Sessions, OnAccept(s) PROVE PassOK'
  BY <1>6 DEF OnAccept, WeakTypeOK, PassOK, accVars, loopVars, Rearm
<1>7. ASSUME NEW s \in Sessions, HandlerClose(s) PROVE PassOK'
  BY <1>7 DEF HandlerClose, WeakTypeOK, PassOK, accVars, loopVars, Rearm
<1>8. ASSUME NEW s \in Sessions, HandlerReturn(s) PROVE PassOK'
  BY <1>8 DEF HandlerReturn, WeakTypeOK, PassOK, accVars, loopVars, Rearm
<1>9. ASSUME NEW t \in Threads, UpdateBegin(t) PROVE PassOK'
  BY <1>9 DEF UpdateBegin, WeakTypeOK, PassOK, accVars, loopVars, Rearm
<1>10. ASSUME NEW t \in Threads, NEW s \in Sessions, SweepKeep(t, s) PROVE PassOK'
  BY <1>10 DEF SweepKeep, WeakTypeOK, PassOK, accVars, loopVars, Rearm
<1>11. ASSUME NEW t \in Threads, NEW s \in Sessions, SweepDrop(t, s) PROVE PassOK'
  BY <1>11 DEF SweepDrop, WeakTypeOK, PassOK, accVars, loopVars, Rearm
<1>12. ASSUME NEW t \in Threads, UpdateEnd(t) PROVE PassOK'
  BY <1>12 DEF UpdateEnd, WeakTypeOK, PassOK, accVars, loopVars, Rearm
<1>13. CASE UNCHANGED vars
  BY <1>13 DEF vars, WeakTypeOK, PassOK, accVars, loopVars, Rearm
<1>14. CASE AcceptIntoOpen
  BY <1>14 DEF AcceptIntoOpen, WeakTypeOK, PassOK, accVars, loopVars, Rearm
<1>15. ASSUME NEW t \in Threads, Terminate(t) PROVE PassOK'
  BY <1>15 DEF Terminate, WeakTypeOK, PassOK, accVars, loopVars
<1>16. QED
  BY <1>1, <1>2, <1>3, <1>4, <1>5, <1>6, <1>7, <1>8, <1>9, <1>10, <1>11, <1>12, <1>13, <1>14,
     <1>15 DEF Next, Operate, AcceptChain, Sweep, Down

\* The accept chain keeps its bookkeeping.
LEMMA ChainStep ==
  ASSUME IndInv, [Next]_vars
  PROVE  ChainOK'
<1>0. \A t \in Threads : conns[t] \in Nat
  BY CountsAreNat DEF IndInv
<1> USE ThreadsFacts, ThreadCountAssumption DEF IndInv
<1>1. CASE SelectRead
  BY <1>0, <1>1 DEF SelectRead, WeakTypeOK, ChainOK, accVars, loopVars, Rearm
<1>2. CASE SelectCompare
  BY <1>2 DEF SelectCompare, WeakTypeOK, ChainOK, accVars, loopVars, Rearm
<1>3. CASE AsyncAccept
  BY <1>3 DEF AsyncAccept, WeakTypeOK, ChainOK, accVars, loopVars, Rearm
<1>4. CASE AddSocket
  BY <1>4 DEF AddSocket, WeakTypeOK, ChainOK, accVars, loopVars, Rearm
<1>5. CASE AcceptError
  BY <1>5 DEF AcceptError, WeakTypeOK, ChainOK, accVars, loopVars, Rearm
<1>6. ASSUME NEW s \in Sessions, OnAccept(s) PROVE ChainOK'
  BY <1>6 DEF OnAccept, WeakTypeOK, ChainOK, accVars, loopVars, Rearm
<1>7. ASSUME NEW s \in Sessions, HandlerClose(s) PROVE ChainOK'
  BY <1>7 DEF HandlerClose, WeakTypeOK, ChainOK, accVars, loopVars, Rearm
<1>8. ASSUME NEW s \in Sessions, HandlerReturn(s) PROVE ChainOK'
  BY <1>8 DEF HandlerReturn, WeakTypeOK, ChainOK, accVars, loopVars, Rearm
<1>9. ASSUME NEW t \in Threads, UpdateBegin(t) PROVE ChainOK'
  BY <1>9 DEF UpdateBegin, WeakTypeOK, ChainOK, accVars, loopVars, Rearm
<1>10. ASSUME NEW t \in Threads, NEW s \in Sessions, SweepKeep(t, s) PROVE ChainOK'
  BY <1>10 DEF SweepKeep, WeakTypeOK, ChainOK, accVars, loopVars, Rearm
<1>11. ASSUME NEW t \in Threads, NEW s \in Sessions, SweepDrop(t, s) PROVE ChainOK'
  BY <1>11 DEF SweepDrop, WeakTypeOK, PassOK, TrackedAtHome, Tracked, ChainOK, accVars, loopVars, Rearm
<1>12. ASSUME NEW t \in Threads, UpdateEnd(t) PROVE ChainOK'
  BY <1>12 DEF UpdateEnd, WeakTypeOK, ChainOK, accVars, loopVars, Rearm
<1>13. CASE UNCHANGED vars
  BY <1>13 DEF vars, WeakTypeOK, ChainOK, accVars, loopVars, Rearm
<1>14. CASE AcceptIntoOpen
  BY <1>14 DEF AcceptIntoOpen, WeakTypeOK, ChainOK, accVars, loopVars, Rearm
<1>15. ASSUME NEW t \in Threads, Terminate(t) PROVE ChainOK'
  BY <1>15 DEF Terminate, WeakTypeOK, ChainOK, accVars, loopVars
<1>16. QED
  BY <1>1, <1>2, <1>3, <1>4, <1>5, <1>6, <1>7, <1>8, <1>9, <1>10, <1>11, <1>12, <1>13, <1>14,
     <1>15 DEF Next, Operate, AcceptChain, Sweep, Down

\* Sessions stay at home.
LEMMA TrackedStep ==
  ASSUME IndInv, [Next]_vars
  PROVE  TrackedAtHome'
<1> USE ThreadsFacts DEF IndInv
<1>1. CASE SelectRead
  BY <1>1 DEF SelectRead, WeakTypeOK, PassOK, ChainOK, TrackedAtHome, Tracked, accVars, loopVars, Rearm
<1>2. CASE SelectCompare
  BY <1>2 DEF SelectCompare, WeakTypeOK, PassOK, ChainOK, TrackedAtHome, Tracked, accVars, loopVars, Rearm
<1>3. CASE AsyncAccept
  BY <1>3 DEF AsyncAccept, WeakTypeOK, PassOK, ChainOK, TrackedAtHome, Tracked, accVars, loopVars, Rearm
<1>4. CASE AddSocket
  BY <1>4 DEF AddSocket, WeakTypeOK, PassOK, ChainOK, TrackedAtHome, Tracked, accVars, loopVars, Rearm
<1>5. CASE AcceptError
  BY <1>5 DEF AcceptError, WeakTypeOK, PassOK, ChainOK, TrackedAtHome, Tracked, accVars, loopVars, Rearm
<1>6. ASSUME NEW s \in Sessions, OnAccept(s) PROVE TrackedAtHome'
  BY <1>6 DEF OnAccept, WeakTypeOK, PassOK, ChainOK, TrackedAtHome, Tracked, accVars, loopVars, Rearm
<1>7. ASSUME NEW s \in Sessions, HandlerClose(s) PROVE TrackedAtHome'
  BY <1>7 DEF HandlerClose, WeakTypeOK, PassOK, ChainOK, TrackedAtHome, Tracked, accVars, loopVars, Rearm
<1>8. ASSUME NEW s \in Sessions, HandlerReturn(s) PROVE TrackedAtHome'
  BY <1>8 DEF HandlerReturn, WeakTypeOK, PassOK, ChainOK, TrackedAtHome, Tracked, accVars, loopVars, Rearm
<1>9. ASSUME NEW t \in Threads, UpdateBegin(t) PROVE TrackedAtHome'
  BY <1>9 DEF UpdateBegin, WeakTypeOK, PassOK, ChainOK, TrackedAtHome, Tracked, accVars, loopVars, Rearm
<1>10. ASSUME NEW t \in Threads, NEW s \in Sessions, SweepKeep(t, s) PROVE TrackedAtHome'
  BY <1>10 DEF SweepKeep, WeakTypeOK, PassOK, ChainOK, TrackedAtHome, Tracked, accVars, loopVars, Rearm
<1>11. ASSUME NEW t \in Threads, NEW s \in Sessions, SweepDrop(t, s) PROVE TrackedAtHome'
  BY <1>11 DEF SweepDrop, WeakTypeOK, PassOK, ChainOK, TrackedAtHome, Tracked, accVars, loopVars, Rearm
<1>12. ASSUME NEW t \in Threads, UpdateEnd(t) PROVE TrackedAtHome'
  BY <1>12 DEF UpdateEnd, WeakTypeOK, PassOK, ChainOK, TrackedAtHome, Tracked, accVars, loopVars, Rearm
<1>13. CASE UNCHANGED vars
  BY <1>13 DEF vars, WeakTypeOK, PassOK, ChainOK, TrackedAtHome, Tracked, accVars, loopVars, Rearm
<1>14. CASE AcceptIntoOpen
  BY <1>14 DEF AcceptIntoOpen, WeakTypeOK, PassOK, ChainOK, TrackedAtHome, Tracked, accVars, loopVars, Rearm
<1>15. ASSUME NEW t \in Threads, Terminate(t) PROVE TrackedAtHome'
  BY <1>15 DEF Terminate, WeakTypeOK, PassOK, ChainOK, TrackedAtHome, Tracked, accVars, loopVars
<1>16. QED
  BY <1>1, <1>2, <1>3, <1>4, <1>5, <1>6, <1>7, <1>8, <1>9, <1>10, <1>11, <1>12, <1>13, <1>14,
     <1>15 DEF Next, Operate, AcceptChain, Sweep, Down

\* No open session is lost.
LEMMA LiveStep ==
  ASSUME IndInv, [Next]_vars
  PROVE  LiveKept'
<1> USE ThreadsFacts DEF IndInv
<1>1. CASE SelectRead
  BY <1>1 DEF SelectRead, WeakTypeOK, PassOK, ChainOK, TrackedAtHome, LiveKept, Tracked, accVars, loopVars, Rearm
<1>2. CASE SelectCompare
  BY <1>2 DEF SelectCompare, WeakTypeOK, PassOK, ChainOK, TrackedAtHome, LiveKept, Tracked, accVars, loopVars, Rearm
<1>3. CASE AsyncAccept
  BY <1>3 DEF AsyncAccept, WeakTypeOK, PassOK, ChainOK, TrackedAtHome, LiveKept, Tracked, accVars, loopVars, Rearm
<1>4. CASE AddSocket
  BY <1>4 DEF AddSocket, WeakTypeOK, PassOK, ChainOK, TrackedAtHome, LiveKept, Tracked, accVars, loopVars, Rearm
<1>5. CASE AcceptError
  BY <1>5 DEF AcceptError, WeakTypeOK, PassOK, ChainOK, TrackedAtHome, LiveKept, Tracked, accVars, loopVars, Rearm
<1>6. ASSUME NEW s \in Sessions, OnAccept(s) PROVE LiveKept'
  BY <1>6 DEF OnAccept, WeakTypeOK, PassOK, ChainOK, TrackedAtHome, LiveKept, Tracked, accVars, loopVars, Rearm
<1>7. ASSUME NEW s \in Sessions, HandlerClose(s) PROVE LiveKept'
  BY <1>7 DEF HandlerClose, WeakTypeOK, PassOK, ChainOK, TrackedAtHome, LiveKept, Tracked, accVars, loopVars, Rearm
<1>8. ASSUME NEW s \in Sessions, HandlerReturn(s) PROVE LiveKept'
  BY <1>8 DEF HandlerReturn, WeakTypeOK, PassOK, ChainOK, TrackedAtHome, LiveKept, Tracked, accVars, loopVars, Rearm
<1>9. ASSUME NEW t \in Threads, UpdateBegin(t) PROVE LiveKept'
  BY <1>9 DEF UpdateBegin, WeakTypeOK, PassOK, ChainOK, TrackedAtHome, LiveKept, Tracked, accVars, loopVars, Rearm
<1>10. ASSUME NEW t \in Threads, NEW s \in Sessions, SweepKeep(t, s) PROVE LiveKept'
  BY <1>10 DEF SweepKeep, WeakTypeOK, PassOK, ChainOK, TrackedAtHome, LiveKept, Tracked, accVars, loopVars, Rearm
<1>11. ASSUME NEW t \in Threads, NEW s \in Sessions, SweepDrop(t, s) PROVE LiveKept'
  BY <1>11 DEF SweepDrop, WeakTypeOK, PassOK, ChainOK, TrackedAtHome, LiveKept, Tracked, accVars, loopVars, Rearm
<1>12. ASSUME NEW t \in Threads, UpdateEnd(t) PROVE LiveKept'
  BY <1>12 DEF UpdateEnd, WeakTypeOK, PassOK, ChainOK, TrackedAtHome, LiveKept, Tracked, accVars, loopVars, Rearm
<1>13. CASE UNCHANGED vars
  BY <1>13 DEF vars, WeakTypeOK, PassOK, ChainOK, TrackedAtHome, LiveKept, Tracked, accVars, loopVars, Rearm
<1>14. CASE AcceptIntoOpen
  BY <1>14 DEF AcceptIntoOpen, WeakTypeOK, PassOK, ChainOK, TrackedAtHome, LiveKept, Tracked, accVars, loopVars, Rearm
<1>15. ASSUME NEW t \in Threads, Terminate(t) PROVE LiveKept'
  BY <1>15 DEF Terminate, WeakTypeOK, PassOK, ChainOK, TrackedAtHome, LiveKept, Tracked, accVars, loopVars
<1>16. QED
  BY <1>1, <1>2, <1>3, <1>4, <1>5, <1>6, <1>7, <1>8, <1>9, <1>10, <1>11, <1>12, <1>13, <1>14,
     <1>15 DEF Next, Operate, AcceptChain, Sweep, Down


-----------------------------------------------------------------------------
(* The accounting.                                                         *)

\* Every step keeps _connections equal to the number of sessions kept.
LEMMA AccountingStep ==
  ASSUME IndInv, [Next]_vars
  PROVE  ConnAccounting'
<1> USE DEF IndInv
<1>0. \A t \in Threads : /\ Kept(t) \in SUBSET Sessions
                        /\ IsFiniteSet(Kept(t))
                        /\ Cardinality(Kept(t)) \in Nat
  <2>1. \A t \in Threads : Kept(t) \in SUBSET Sessions
    BY DEF WeakTypeOK, Kept
  <2>2. QED
    BY <2>1, SessionSets
<1>1. CASE SelectRead
  BY <1>1 DEF SelectRead, ConnAccounting, Kept, loopVars
<1>2. CASE SelectCompare
  BY <1>2 DEF SelectCompare, ConnAccounting, Kept, loopVars
<1>3. CASE AsyncAccept
  BY <1>3 DEF AsyncAccept, ConnAccounting, Kept, loopVars
<1>4. CASE AddSocket
  <2>1. PICK s \in Sessions : opening = {s}
    BY <1>4 DEF AddSocket, ChainOK
  <2>2. PICK t \in Threads : t = target
    BY DEF WeakTypeOK
  <2>3. Kept(t)' = Kept(t) \cup {s} /\ s \notin Kept(t)
    BY <1>4, <2>1, <2>2 DEF AddSocket, WeakTypeOK, TrackedAtHome, Tracked, Kept,
                            loopVars
  <2>4. Cardinality(Kept(t)') = Cardinality(Kept(t)) + 1
    BY <1>0, <2>3, FS_AddElement
  <2>5. conns'[t] = conns[t] + 1
    BY <1>4, <2>2 DEF AddSocket, WeakTypeOK
  <2>6. ASSUME NEW u \in Threads, u # t
        PROVE  conns'[u] = conns[u] /\ Kept(u)' = Kept(u)
    BY <1>4, <2>2, <2>6 DEF AddSocket, WeakTypeOK, Kept, loopVars
  <2>7. QED
    BY <2>4, <2>5, <2>6 DEF ConnAccounting
<1>5. CASE AcceptError
  BY <1>5 DEF AcceptError, ConnAccounting, Kept, loopVars
<1>6. ASSUME NEW s \in Sessions, OnAccept(s) PROVE ConnAccounting'
  BY <1>6 DEF OnAccept, ConnAccounting, Kept, loopVars
<1>7. ASSUME NEW s \in Sessions, HandlerClose(s) PROVE ConnAccounting'
  BY <1>7 DEF HandlerClose, ConnAccounting, Kept, loopVars
<1>8. ASSUME NEW s \in Sessions, HandlerReturn(s) PROVE ConnAccounting'
  BY <1>8 DEF HandlerReturn, ConnAccounting, Kept, loopVars
<1>9. ASSUME NEW t \in Threads, UpdateBegin(t) PROVE ConnAccounting'
  <2> DEFINE gone == fresh[t] \cap closed
  <2>1. gone \in SUBSET Kept(t) /\ Kept(t)' = Kept(t) \ gone
    BY <1>9 DEF UpdateBegin, WeakTypeOK, PassOK, TrackedAtHome, Kept
  <2>2. IsFiniteSet(gone) /\ Cardinality(gone) \in Nat
    BY SessionSets DEF WeakTypeOK
  <2>3. Cardinality(Kept(t)') = Cardinality(Kept(t)) - Cardinality(gone)
    <3> HIDE DEF gone
    <3>1. Kept(t) \cap gone = gone
      BY <2>1
    <3>2. QED
      BY <1>0, <2>1, <3>1, FS_Difference
  <2>4. conns'[t] = conns[t] - Cardinality(gone)
    BY <1>9 DEF UpdateBegin, WeakTypeOK
  <2>5. ASSUME NEW u \in Threads, u # t
        PROVE  conns'[u] = conns[u] /\ Kept(u)' = Kept(u)
    BY <1>9, <2>5 DEF UpdateBegin, WeakTypeOK, Kept
  <2>6. QED
    BY <2>3, <2>4, <2>5 DEF ConnAccounting
<1>10. ASSUME NEW t \in Threads, NEW s \in Sessions, SweepKeep(t, s) PROVE ConnAccounting'
  BY <1>10 DEF SweepKeep, ConnAccounting, Kept, loopVars
<1>11. ASSUME NEW t \in Threads, NEW s \in Sessions, SweepDrop(t, s) PROVE ConnAccounting'
  <2>1. Kept(t)' = Kept(t) \ {s} /\ s \in Kept(t)
    BY <1>11 DEF SweepDrop, WeakTypeOK, PassOK, TrackedAtHome, Kept
  <2>2. Cardinality(Kept(t)') = Cardinality(Kept(t)) - 1
    BY <1>0, <2>1, FS_RemoveElement
  <2>3. conns'[t] = conns[t] - 1
    BY <1>11 DEF SweepDrop, WeakTypeOK
  <2>4. ASSUME NEW u \in Threads, u # t
        PROVE  conns'[u] = conns[u] /\ Kept(u)' = Kept(u)
    BY <1>11, <2>4 DEF SweepDrop, WeakTypeOK, Kept
  <2>5. QED
    BY <2>2, <2>3, <2>4 DEF ConnAccounting
<1>12. ASSUME NEW t \in Threads, UpdateEnd(t) PROVE ConnAccounting'
  <2>1. ASSUME NEW u \in Threads
        PROVE  conns'[u] = conns[u] /\ Kept(u)' = Kept(u)
    BY <1>12 DEF UpdateEnd, WeakTypeOK, PassOK, Kept
  <2>2. QED
    BY <2>1 DEF ConnAccounting
<1>13. CASE UNCHANGED vars
  BY <1>13 DEF vars, ConnAccounting, Kept
<1>14. CASE AcceptIntoOpen
  BY <1>14 DEF AcceptIntoOpen, ConnAccounting, Kept, loopVars
<1>15. ASSUME NEW t \in Threads, Terminate(t) PROVE ConnAccounting'
  BY <1>15 DEF Terminate, ConnAccounting, Kept, loopVars, accVars
<1>16. QED
  BY <1>1, <1>2, <1>3, <1>4, <1>5, <1>6, <1>7, <1>8, <1>9, <1>10, <1>11, <1>12, <1>13, <1>14,
     <1>15 DEF Next, Operate, AcceptChain, Sweep, Down

-----------------------------------------------------------------------------
(* The balance.  While no session is closed no pass lowers a counter, so   *)
(* the loop of SelectThreadWithMinConnections sees stable values.          *)

\* Every step keeps the selection's knowledge of the counters.
LEMMA SelectionStep ==
  ASSUME IndInv, [Next]_vars
  PROVE  SelectionOK'
<1>0. \A u \in Threads : conns[u] \in Int
  BY DEF IndInv, WeakTypeOK
<1> USE <1>0, ThreadsFacts, ThreadCountAssumption DEF IndInv
<1>1. CASE SelectRead
  BY <1>1 DEF SelectRead, SelectionOK, WeakTypeOK, ChainOK, accVars, loopVars, Rearm
<1>2. CASE SelectCompare
  BY <1>2 DEF SelectCompare, SelectionOK, WeakTypeOK, ChainOK, accVars, loopVars, Rearm
<1>3. CASE AsyncAccept
  BY <1>3 DEF AsyncAccept, SelectionOK, WeakTypeOK, ChainOK, accVars, loopVars, Rearm
<1>4. CASE AddSocket
  <2>1. target' = 0 /\ idx' = 1 /\ accPc' = "select"
    BY <1>4 DEF AddSocket, Rearm
  <2>2. conns'[0] \in Int
    BY WeakTypeStep DEF WeakTypeOK
  <2>3. QED
    BY <2>1, <2>2 DEF SelectionOK
<1>5. CASE AcceptError
  BY <1>5 DEF AcceptError, SelectionOK, Rearm
<1>6. ASSUME NEW s \in Sessions, OnAccept(s) PROVE SelectionOK'
  BY <1>6 DEF OnAccept, SelectionOK, WeakTypeOK, ChainOK, accVars, loopVars, Rearm
<1>7. ASSUME NEW s \in Sessions, HandlerClose(s) PROVE SelectionOK'
  BY <1>7 DEF HandlerClose, SelectionOK, WeakTypeOK, ChainOK, accVars, loopVars, Rearm
<1>8. ASSUME NEW s \in Sessions, HandlerReturn(s) PROVE SelectionOK'
  BY <1>8 DEF HandlerReturn, SelectionOK, WeakTypeOK, ChainOK, accVars, loopVars, Rearm
<1>9. ASSUME NEW t \in Threads, UpdateBegin(t) PROVE SelectionOK'
  <2>1. CASE closed = {}
    <3>1. fresh[t] \cap closed = {}
      BY <2>1
    <3>2. conns' = conns
      <4>1. Cardinality(fresh[t] \cap closed) = 0
        BY <3>1, FS_EmptySet
      <4>2. conns[t] - 0 = conns[t]
        OBVIOUS
      <4>3. QED
        BY <1>9, <4>1, <4>2 DEF UpdateBegin, WeakTypeOK
    <3>3. QED
      BY <1>9, <3>2 DEF UpdateBegin, SelectionOK, WeakTypeOK, ChainOK, accVars
  <2>2. CASE closed # {}
    BY <1>9, <2>2 DEF UpdateBegin, SelectionOK
  <2>3. QED
    BY <2>1, <2>2
<1>10. ASSUME NEW t \in Threads, NEW s \in Sessions, SweepKeep(t, s) PROVE SelectionOK'
  BY <1>10 DEF SweepKeep, SelectionOK, WeakTypeOK, ChainOK, accVars, loopVars, Rearm
<1>11. ASSUME NEW t \in Threads, NEW s \in Sessions, SweepDrop(t, s) PROVE SelectionOK'
  BY <1>11 DEF SweepDrop, SelectionOK, WeakTypeOK, ChainOK, accVars, loopVars, Rearm
<1>12. ASSUME NEW t \in Threads, UpdateEnd(t) PROVE SelectionOK'
  BY <1>12 DEF UpdateEnd, SelectionOK, WeakTypeOK, ChainOK, accVars, loopVars, Rearm
<1>13. CASE UNCHANGED vars
  BY <1>13 DEF vars, SelectionOK, WeakTypeOK, ChainOK
<1>14. CASE AcceptIntoOpen
  BY <1>14 DEF AcceptIntoOpen, SelectionOK, Rearm
<1>15. ASSUME NEW t \in Threads, Terminate(t) PROVE SelectionOK'
  BY <1>15 DEF Terminate, SelectionOK, accVars, loopVars
<1>16. QED
  BY <1>1, <1>2, <1>3, <1>4, <1>5, <1>6, <1>7, <1>8, <1>9, <1>10, <1>11, <1>12, <1>13, <1>14,
     <1>15 DEF Next, Operate, AcceptChain, Sweep, Down

\* Every step keeps the connections evenly spread.
LEMMA BalancedStep ==
  ASSUME IndInv, [Next]_vars
  PROVE  Balanced'
<1>0. \A u \in Threads : conns[u] \in Int
  BY DEF IndInv, WeakTypeOK
<1> USE <1>0, ThreadsFacts DEF IndInv
<1>1. CASE SelectRead
  BY <1>1 DEF SelectRead, Balanced, SelectionOK, WeakTypeOK, accVars, loopVars, Rearm
<1>2. CASE SelectCompare
  BY <1>2 DEF SelectCompare, Balanced, SelectionOK, WeakTypeOK, accVars, loopVars, Rearm
<1>3. CASE AsyncAccept
  BY <1>3 DEF AsyncAccept, Balanced, SelectionOK, WeakTypeOK, accVars, loopVars, Rearm
<1>4. CASE AddSocket
  BY <1>4 DEF AddSocket, Balanced, SelectionOK, WeakTypeOK, accVars, loopVars, Rearm
<1>5. CASE AcceptError
  BY <1>5 DEF AcceptError, Balanced, SelectionOK, WeakTypeOK, accVars, loopVars, Rearm
<1>6. ASSUME NEW s \in Sessions, OnAccept(s) PROVE Balanced'
  BY <1>6 DEF OnAccept, Balanced, SelectionOK, WeakTypeOK, accVars, loopVars, Rearm
<1>7. ASSUME NEW s \in Sessions, HandlerClose(s) PROVE Balanced'
  BY <1>7 DEF HandlerClose, Balanced, SelectionOK, WeakTypeOK, accVars, loopVars, Rearm
<1>8. ASSUME NEW s \in Sessions, HandlerReturn(s) PROVE Balanced'
  BY <1>8 DEF HandlerReturn, Balanced, SelectionOK, WeakTypeOK, accVars, loopVars, Rearm
<1>9. ASSUME NEW t \in Threads, UpdateBegin(t) PROVE Balanced'
  <2>1. CASE closed = {}
    <3>1. fresh[t] \cap closed = {}
      BY <2>1
    <3>2. conns' = conns
      <4>1. Cardinality(fresh[t] \cap closed) = 0
        BY <3>1, FS_EmptySet
      <4>2. conns[t] - 0 = conns[t]
        OBVIOUS
      <4>3. QED
        BY <1>9, <4>1, <4>2 DEF UpdateBegin, WeakTypeOK
    <3>3. QED
      BY <1>9, <3>2 DEF UpdateBegin, Balanced, SelectionOK, WeakTypeOK, accVars
  <2>2. CASE closed # {}
    BY <1>9, <2>2 DEF UpdateBegin, Balanced
  <2>3. QED
    BY <2>1, <2>2
<1>10. ASSUME NEW t \in Threads, NEW s \in Sessions, SweepKeep(t, s) PROVE Balanced'
  BY <1>10 DEF SweepKeep, Balanced, SelectionOK, WeakTypeOK, accVars, loopVars, Rearm
<1>11. ASSUME NEW t \in Threads, NEW s \in Sessions, SweepDrop(t, s) PROVE Balanced'
  BY <1>11 DEF SweepDrop, Balanced, SelectionOK, WeakTypeOK, accVars, loopVars, Rearm
<1>12. ASSUME NEW t \in Threads, UpdateEnd(t) PROVE Balanced'
  BY <1>12 DEF UpdateEnd, Balanced, SelectionOK, WeakTypeOK, accVars, loopVars, Rearm
<1>13. CASE UNCHANGED vars
  BY <1>13 DEF vars, Balanced, SelectionOK, WeakTypeOK
<1>14. CASE AcceptIntoOpen
  BY <1>14 DEF AcceptIntoOpen, Balanced, SelectionOK, WeakTypeOK, accVars, loopVars, Rearm
<1>15. ASSUME NEW t \in Threads, Terminate(t) PROVE Balanced'
  BY <1>15 DEF Terminate, Balanced, SelectionOK, WeakTypeOK, accVars, loopVars
<1>16. QED
  BY <1>1, <1>2, <1>3, <1>4, <1>5, <1>6, <1>7, <1>8, <1>9, <1>10, <1>11, <1>12, <1>13, <1>14,
     <1>15 DEF Next, Operate, AcceptChain, Sweep, Down

-----------------------------------------------------------------------------
\* The inductive invariant holds when the program starts.
LEMMA IndInvInit == Init => IndInv
<1> SUFFICES ASSUME Init PROVE IndInv
  OBVIOUS
<1> USE ThreadsFacts, ThreadCountAssumption
<1>1. WeakTypeOK /\ PassOK /\ ChainOK
  BY DEF Init, WeakTypeOK, PassOK, ChainOK
<1>2. TrackedAtHome /\ LiveKept
  BY DEF Init, TrackedAtHome, Tracked, LiveKept
<1>3. ConnAccounting
  BY FS_EmptySet DEF Init, ConnAccounting, Kept
<1>4. SelectionOK /\ Balanced
  BY DEF Init, SelectionOK, Balanced
<1>5. up \in BOOLEAN
  BY DEF Init
<1>6. QED
  BY <1>1, <1>2, <1>3, <1>4, <1>5 DEF IndInv

\* The process is up or not.
LEMMA UpStep == IndInv /\ [Next]_vars => up' \in BOOLEAN
BY DEF IndInv, Next, Terminate, Down, vars

\* The inductive invariant is kept by every step, action by action.
LEMMA IndInvStep == IndInv /\ [Next]_vars => IndInv'
BY UpStep, WeakTypeStep, PassStep, ChainStep, TrackedStep, AccountingStep, LiveStep,
   SelectionStep, BalancedStep DEF IndInv

\* The inductive invariant implies the type invariant.
LEMMA IndInvTypeOK == IndInv => TypeOK
BY CountsAreNat DEF IndInv, WeakTypeOK, ChainOK, TypeOK

\* In every reachable state the network layer satisfies its inductive invariant.
THEOREM Invariance == SafeSpec => []IndInv
BY IndInvInit, IndInvStep, PTL DEF SafeSpec

\* Type correctness: in particular no decrement of _connections ever takes it
\* below zero, and the selected thread index is a thread of the pool.
THEOREM TypeCorrect == SafeSpec => []TypeOK
BY Invariance, IndInvTypeOK, PTL

\* _connections always equals the number of sessions the thread keeps.
THEOREM AccountingCorrect == SafeSpec => []ConnAccounting
<1>1. IndInv => ConnAccounting
  BY DEF IndInv
<1>2. QED
  BY <1>1, Invariance, PTL

\* A session is kept by its own thread only, at one place, after the hand-over.
THEOREM TrackedCorrect == SafeSpec => []TrackedAtHome
<1>1. IndInv => TrackedAtHome
  BY DEF IndInv
<1>2. QED
  BY <1>1, Invariance, PTL

\* Until the first close, thread loads differ by at most one.
THEOREM BalancedCorrect == SafeSpec => []Balanced
<1>1. IndInv => Balanced
  BY DEF IndInv
<1>2. QED
  BY <1>1, Invariance, PTL

-----------------------------------------------------------------------------
(* The network layer implements the safety part of SessionLifecycle.       *)

\* A step that leaves every session's phase alone is a stutter.
LEMMA SamePhase ==
  ASSUME \A u \in Sessions : Phase(u)' = Phase(u)
  PROVE  View' = View
BY DEF View

\* A step that changes the phases of the closed sessions in S to "released".
LEMMA ReleasePhase ==
  ASSUME NEW S \in SUBSET Sessions,
         \A u \in S : Phase(u) = "closed" /\ Phase(u)' = "released",
         \A u \in Sessions \ S : Phase(u)' = Phase(u)
  PROVE  Lifecycle!Next
<1>1. S \in SUBSET {s \in Sessions : View[s] = "closed"}
  BY DEF View
<1>2. View' = [s \in Sessions |-> IF s \in S THEN "released" ELSE View[s]]
  BY DEF View
<1>3. Lifecycle!ReleaseSome
  BY <1>1, <1>2 DEF Lifecycle!ReleaseSome
<1>4. QED
  BY <1>3 DEF Lifecycle!Next

\* While the process is up, every step is a step of SessionLifecycle or a stutter.
LEMMA OperateStep ==
  ASSUME IndInv, Operate, up, up'
  PROVE  [Lifecycle!Next]_View
<1> USE ThreadsFacts DEF IndInv
<1>1. CASE SelectRead
  BY <1>1, SamePhase DEF SelectRead, Phase, Tracked, loopVars
<1>2. CASE SelectCompare
  BY <1>2, SamePhase DEF SelectCompare, Phase, Tracked, loopVars
<1>3. CASE AsyncAccept
  BY <1>3, SamePhase DEF AsyncAccept, Phase, Tracked, loopVars
<1>4. CASE AddSocket
  <2>1. ASSUME NEW u \in Sessions
        PROVE  Phase(u)' = Phase(u)
    BY <1>4 DEF AddSocket, Phase, Tracked, WeakTypeOK, ChainOK, loopVars
  <2>2. QED
    BY <2>1, SamePhase
<1>5. CASE AcceptError
  BY <1>5, SamePhase DEF AcceptError, Phase, Tracked, loopVars
<1>6. ASSUME NEW s \in Sessions, OnAccept(s) PROVE Lifecycle!Next
  <2>1. Phase(s) = "new" /\ Phase(s)' = "open"
    BY <1>6 DEF OnAccept, Phase, WeakTypeOK, ChainOK
  <2>2. ASSUME NEW u \in Sessions, u # s
        PROVE  Phase(u)' = Phase(u)
    BY <1>6, <2>2 DEF OnAccept, Phase, Tracked, WeakTypeOK, ChainOK, loopVars
  <2>3. View' = [View EXCEPT ![s] = "open"] /\ View[s] = "new"
    BY <2>1, <2>2 DEF View
  <2>4. QED
    BY <2>3 DEF Lifecycle!Next, Lifecycle!Open, Lifecycle!Advance
<1>7. ASSUME NEW s \in Sessions, HandlerClose(s) PROVE [Lifecycle!Next]_View
  <2>1. ASSUME NEW u \in Sessions, u # s
        PROVE  Phase(u)' = Phase(u)
    BY <1>7, <2>1 DEF HandlerClose, Phase, Tracked, accVars, loopVars
  <2>2. CASE s \in closed
    <3>1. Phase(s)' = Phase(s)
      BY <1>7, <2>2 DEF HandlerClose, Phase, Tracked, accVars, loopVars
    <3>2. QED
      BY <2>1, <3>1, SamePhase
  <2>3. CASE s \notin closed
    <3>1. Phase(s) = "open" /\ Phase(s)' = "closed"
      BY <1>7, <2>3 DEF HandlerClose, Phase, Tracked, ChainOK, LiveKept, accVars,
                        loopVars
    <3>2. View' = [View EXCEPT ![s] = "closed"] /\ View[s] = "open"
      BY <2>1, <3>1 DEF View
    <3>3. QED
      BY <3>2 DEF Lifecycle!Next, Lifecycle!Close, Lifecycle!Advance
  <2>4. QED
    BY <2>2, <2>3
<1>8. ASSUME NEW s \in Sessions, HandlerReturn(s) PROVE [Lifecycle!Next]_View
  <2>1. ASSUME NEW u \in Sessions, u # s
        PROVE  Phase(u)' = Phase(u)
    BY <1>8, <2>1 DEF HandlerReturn, Phase, Tracked, accVars, loopVars
  <2>2. CASE s \in closed
    <3>1. Phase(s)' = Phase(s)
      BY <1>8, <2>2 DEF HandlerReturn, Phase, Tracked, accVars, loopVars
    <3>2. QED
      BY <2>1, <3>1, SamePhase
  <2>3. CASE s \notin closed
    <3>1. Phase(s) = "open" /\ Phase(s)' = "silent"
      BY <1>8, <2>3 DEF HandlerReturn, Phase, ChainOK, accVars, loopVars
    <3>2. View' = [View EXCEPT ![s] = "silent"] /\ View[s] = "open"
      BY <2>1, <3>1 DEF View
    <3>3. QED
      BY <3>2 DEF Lifecycle!Next, Lifecycle!Silence, Lifecycle!Advance
  <2>4. QED
    BY <2>2, <2>3
<1>9. ASSUME NEW t \in Threads, UpdateBegin(t) PROVE Lifecycle!Next
  <2>1. \A u \in fresh[t] \cap closed : Phase(u) = "closed" /\ Phase(u)' = "released"
    BY <1>9 DEF UpdateBegin, Phase, Tracked, WeakTypeOK, TrackedAtHome, accVars
  <2>2. \A u \in Sessions \ (fresh[t] \cap closed) : Phase(u)' = Phase(u)
    BY <1>9 DEF UpdateBegin, Phase, Tracked, WeakTypeOK, accVars
  <2>3. fresh[t] \cap closed \in SUBSET Sessions
    BY DEF WeakTypeOK
  <2>4. QED
    BY <2>1, <2>2, <2>3, ReleasePhase
<1>10. ASSUME NEW t \in Threads, NEW s \in Sessions, SweepKeep(t, s) PROVE View' = View
  BY <1>10, SamePhase DEF SweepKeep, Phase, Tracked, accVars
<1>11. ASSUME NEW t \in Threads, NEW s \in Sessions, SweepDrop(t, s) PROVE View' = View
  BY <1>11, SamePhase DEF SweepDrop, SessionUpdate, Phase, Tracked, accVars
<1>12. ASSUME NEW t \in Threads, UpdateEnd(t) PROVE Lifecycle!Next
  <2>1. \A u \in dropped[t] : Phase(u) = "closed" /\ Phase(u)' = "released"
    BY <1>12 DEF UpdateEnd, Phase, Tracked, WeakTypeOK, PassOK, TrackedAtHome, accVars
  <2>2. \A u \in Sessions \ dropped[t] : Phase(u)' = Phase(u)
    BY <1>12 DEF UpdateEnd, Phase, Tracked, WeakTypeOK, accVars
  <2>3. dropped[t] \in SUBSET Sessions
    BY DEF WeakTypeOK
  <2>4. QED
    BY <2>1, <2>2, <2>3, ReleasePhase
<1>13. CASE AcceptIntoOpen
  BY <1>13, SamePhase DEF AcceptIntoOpen, Phase, Tracked, loopVars
<1>14. QED
  BY <1>1, <1>2, <1>3, <1>4, <1>5, <1>6, <1>7, <1>8, <1>9, <1>10, <1>11, <1>12,
     <1>13 DEF Operate, AcceptChain, Sweep

\* The end of the process loses every session, and only the release of a closed one
\* ends it.
LEMMA TerminateStep ==
  ASSUME IndInv, up, NEW t \in Threads, Terminate(t)
  PROVE  Lifecycle!LoseAll
<1> USE ThreadsFacts DEF IndInv
<1>1. PICK s \in Sessions : s \in closed /\ s \in Tracked(t)
  BY DEF Terminate, LetsGo, WeakTypeOK, PassOK, Tracked
<1>2. View[s] = "closed"
  BY <1>1 DEF View, Phase, TrackedAtHome
<1>3. \A u \in Sessions : Phase(u) = "new" <=> home[u] = Unaccepted
  BY DEF Phase
<1>4. \A u \in Sessions : Phase(u)' = IF home[u] = Unaccepted THEN "new" ELSE "lost"
  BY DEF Phase, Terminate
<1>5. View' = [u \in Sessions |-> IF View[u] = "new" THEN "new" ELSE "lost"]
  BY <1>3, <1>4 DEF View
<1>6. QED
  BY <1>2, <1>5 DEF Lifecycle!LoseAll

\* Every step of the network layer is a step of SessionLifecycle or a stutter.
LEMMA LifecycleStep ==
  ASSUME IndInv, [Next]_vars
  PROVE  [Lifecycle!Next]_View
<1>1. CASE up /\ Operate /\ UNCHANGED up
  BY <1>1, OperateStep
<1>2. CASE up /\ \E t \in Threads : Terminate(t)
  BY <1>2, TerminateStep DEF Lifecycle!Next
<1>3. CASE UNCHANGED vars
  BY <1>3, SamePhase DEF vars, Phase, Tracked
<1>4. QED
  BY <1>1, <1>2, <1>3 DEF Next, Down

\* Only its own handler closes a session, and no session is forgotten before it
\* is closed, for either kind of session: the layer implements the lifecycle
\* without its liveness.
THEOREM LifecycleRefined == SafeSpec => ImplementsSafeLifecycle
<1>1. Init => Lifecycle!Init
  BY DEF Init, Lifecycle!Init, View, Phase
<1>2. IndInv /\ [Next]_vars => [Lifecycle!Next]_View
  BY LifecycleStep
<1>3. QED
  BY <1>1, <1>2, Invariance, PTL DEF SafeSpec, ImplementsSafeLifecycle, Lifecycle!SafeSpec
=============================================================================
