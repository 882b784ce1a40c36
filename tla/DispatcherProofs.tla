-------------------------- MODULE DispatcherProofs --------------------------
(***************************************************************************)
(* Theorems about Dispatcher, for every set of messages, every table of    *)
(* priorities and every behaviour of dead memory.                          *)
(***************************************************************************)
EXTENDS Dispatcher, FiniteSetTheorems, TLAPS

\* Element 0 is a best message as long as there is one.
SlotOK ==
  queue # {} => slot \in queue /\ \A n \in queue : Priority[slot] <= Priority[n]

\* Between GetNext() and the next Empty() the reference points to memory that
\* held a message once; only then is it read.
RefOK ==
  /\ pc = "next" => queue # {}
  /\ pc \in {"delay", "copy", "due", "route", "handle", "parse", "tell"} => ref # "none"
  /\ ref = "slot" => slot \in Msgs
  /\ ref = "freed" => old \in Msgs

\* A pop that was not followed by its call yet leaves room for one, and a call that
\* goes on leaves room for its report.
CallsOK ==
  /\ calls + (IF pc \in {"delay", "copy", "due", "route", "handle"} THEN 1 ELSE 0)
       <= Cardinality(popped)
  /\ reports + (IF pc \in {"parse", "tell"} THEN 1 ELSE 0) <= calls

IndInv == TypeOK /\ Conservation /\ SlotOK /\ RefOK /\ CallsOK

-----------------------------------------------------------------------------
\* What the dispatcher reads is a message or garbage.
LEMMA ReadsType ==
  ASSUME TypeOK, RefOK, pc \in {"delay", "copy", "due", "route", "handle", "parse", "tell"}
  PROVE  Reads \subseteq Msgs \cup {Garbage}
BY MsgsAssumption DEF TypeOK, RefOK, Reads

\* The messages taken are finitely many.
LEMMA PoppedFinite ==
  ASSUME NEW S \in SUBSET Msgs
  PROVE  IsFiniteSet(S) /\ Cardinality(S) \in Nat
BY MsgsAssumption, FS_Subset, FS_CardinalityType

\* The inductive invariant holds when the program starts.
LEMMA IndInvInit == Init => IndInv
<1> SUFFICES ASSUME Init PROVE IndInv
  OBVIOUS
<1>1. TypeOK
  BY ClockAssumption DEF Init, TypeOK, NotSent, Untimed
<1>2. Conservation
  BY DEF Init, Conservation, Sent
<1>3. SlotOK /\ RefOK
  BY DEF Init, SlotOK, RefOK
<1>4. CallsOK
  BY FS_EmptySet DEF Init, CallsOK
<1>5. QED
  BY <1>1, <1>2, <1>3, <1>4 DEF IndInv

\* Every step keeps every variable in its type.
LEMMA TypeStep ==
  ASSUME IndInv, [Next]_vars
  PROVE  TypeOK'
<1> USE ClockAssumption DEF IndInv, queueVars, refVars, logVars, NotSent
<1>1. ASSUME NEW m \in Msgs, SendMessage(m) PROVE TypeOK'
  BY <1>1 DEF SendMessage, TypeOK
<1>2. ASSUME NEW e \in Entities, Register(e) \/ Unregister(e) PROVE TypeOK'
  BY <1>2 DEF Register, Unregister, TypeOK
<1>3. CASE Tick
  BY <1>3 DEF Tick, TypeOK
<1>4. CASE Poll
  BY <1>4 DEF Poll, TypeOK
<1>5. CASE GetNext
  BY <1>5 DEF GetNext, TypeOK, Best, RefOK, SlotOK
<1>6. CASE TestDelay
  BY <1>6 DEF TestDelay, TypeOK
<1>7. CASE Route
  BY <1>7, ReadsType, MsgsAssumption DEF Route, TypeOK
<1>8. CASE Handle
  <2>1. action' \in Actions \cup {"none"} /\ pc' \in {"poll", "parse"}
    BY <1>8, ReadsType, MsgsAssumption DEF Handle, TypeOK
  <2>2. last' \in Entities \X (Msgs \cup {NoMsg, Garbage})
    BY <1>8, ReadsType DEF Handle, TypeOK
  <2>3. QED
    BY <1>8, <2>1, <2>2 DEF Handle, TypeOK
<1>9. CASE ParseContent
  BY <1>9, ReadsType DEF ParseContent, Return, SendProtocol, TypeOK
<1>10. CASE Tell
  BY <1>10, ReadsType DEF Tell, Return, SendProtocol, TypeOK
<1>11. CASE UNCHANGED vars
  BY <1>11 DEF vars, TypeOK
<1>12. CASE CopyDelay
  <2>1. PICK m \in Reads :
          \E d \in (IF m = Garbage THEN 0 .. MaxNow + 1 ELSE {Delay[m]}) : timing' = <<d, now>>
    BY <1>12 DEF CopyDelay
  <2>2. m \in Msgs \cup {Garbage}
    BY <1>12, ReadsType DEF CopyDelay
  <2>3. /\ now \in Start .. MaxNow
        /\ \E d \in 0 .. MaxNow + 1 : timing' = <<d, now>>
    BY <2>1, <2>2, MsgsAssumption DEF TypeOK
  <2>4. timing' \in (0 .. MaxNow + 1) \X (Start .. MaxNow)
    BY <2>1, <2>3
  <2>5. QED
    BY <1>12, <2>4 DEF CopyDelay, TypeOK
<1>13. CASE CompareTime
  <2>1. Untimed \in (0 .. MaxNow + 1) \X (Start .. MaxNow)
    BY DEF Untimed
  <2>2. pc' \in {"poll", "route"}
    BY <1>13 DEF CompareTime
  <2>3. QED
    BY <1>13, <2>1, <2>2 DEF CompareTime, TypeOK
<1>14. QED
  BY <1>1, <1>2, <1>3, <1>4, <1>5, <1>6, <1>7, <1>8, <1>9, <1>10,
     <1>11, <1>12, <1>13
     DEF Next, DispatcherThread

\* Every step keeps the messages sent split into waiting and taken.
LEMMA ConservationStep ==
  ASSUME IndInv, [Next]_vars
  PROVE  Conservation'
<1> USE DEF IndInv, queueVars, refVars, logVars, Sent
<1>1. ASSUME NEW m \in Msgs, SendMessage(m) PROVE Conservation'
  <2>1. now # NotSent /\ sentAt'[m] = now
    BY <1>1, ClockAssumption DEF SendMessage, TypeOK, NotSent
  <2>2. Sent' = Sent \cup {m} /\ m \notin Sent
    BY <1>1, <2>1 DEF SendMessage, TypeOK
  <2>3. QED
    BY <1>1, <2>2 DEF SendMessage, TypeOK, Conservation
<1>2. ASSUME NEW e \in Entities, Register(e) \/ Unregister(e) PROVE Conservation'
  BY <1>2 DEF Register, Unregister, Conservation
<1>3. CASE Tick
  BY <1>3 DEF Tick, Conservation
<1>4. CASE Poll
  BY <1>4 DEF Poll, Conservation
<1>5. CASE GetNext
  BY <1>5 DEF GetNext, Conservation, RefOK, SlotOK
<1>6. CASE TestDelay
  BY <1>6 DEF TestDelay, Conservation
<1>7. CASE Route
  BY <1>7 DEF Route, Conservation
<1>8. CASE Handle
  BY <1>8 DEF Handle, Conservation
<1>9. CASE ParseContent
  BY <1>9 DEF ParseContent, Return, Conservation
<1>10. CASE Tell
  BY <1>10 DEF Tell, Return, Conservation
<1>11. CASE UNCHANGED vars
  BY <1>11 DEF vars, Conservation
<1>12. CASE CopyDelay
  BY <1>12 DEF CopyDelay, Conservation
<1>13. CASE CompareTime
  BY <1>13 DEF CompareTime, Conservation
<1>14. QED
  BY <1>1, <1>2, <1>3, <1>4, <1>5, <1>6, <1>7, <1>8, <1>9, <1>10,
     <1>11, <1>12, <1>13
     DEF Next, DispatcherThread

\* Every step keeps a best message in element 0.
LEMMA SlotStep ==
  ASSUME IndInv, [Next]_vars
  PROVE  SlotOK'
<1> USE MsgsAssumption DEF IndInv, queueVars, refVars, logVars
<1>1. ASSUME NEW m \in Msgs, SendMessage(m) PROVE SlotOK'
  BY <1>1 DEF SendMessage, TypeOK, SlotOK, GoesFirst
<1>2. ASSUME NEW e \in Entities, Register(e) \/ Unregister(e) PROVE SlotOK'
  BY <1>2 DEF Register, Unregister, SlotOK
<1>3. CASE Tick
  BY <1>3 DEF Tick, SlotOK
<1>4. CASE Poll
  BY <1>4 DEF Poll, SlotOK
<1>5. CASE GetNext
  BY <1>5 DEF GetNext, TypeOK, SlotOK, Best, GoesFirst
<1>6. CASE TestDelay
  BY <1>6 DEF TestDelay, SlotOK
<1>7. CASE Route
  BY <1>7 DEF Route, SlotOK
<1>8. CASE Handle
  BY <1>8 DEF Handle, SlotOK
<1>9. CASE ParseContent
  BY <1>9 DEF ParseContent, Return, SlotOK
<1>10. CASE Tell
  BY <1>10 DEF Tell, Return, SlotOK
<1>11. CASE UNCHANGED vars
  BY <1>11 DEF vars, SlotOK
<1>12. CASE CopyDelay
  BY <1>12 DEF CopyDelay, SlotOK
<1>13. CASE CompareTime
  BY <1>13 DEF CompareTime, SlotOK
<1>14. QED
  BY <1>1, <1>2, <1>3, <1>4, <1>5, <1>6, <1>7, <1>8, <1>9, <1>10,
     <1>11, <1>12, <1>13
     DEF Next, DispatcherThread

\* Every step keeps the reference on memory that held a message.
LEMMA RefStep ==
  ASSUME IndInv, [Next]_vars
  PROVE  RefOK'
<1> USE DEF IndInv, queueVars, refVars, logVars
<1>1. ASSUME NEW m \in Msgs, SendMessage(m) PROVE RefOK'
  BY <1>1 DEF SendMessage, TypeOK, RefOK
<1>2. ASSUME NEW e \in Entities, Register(e) \/ Unregister(e) PROVE RefOK'
  BY <1>2 DEF Register, Unregister, RefOK
<1>3. CASE Tick
  BY <1>3 DEF Tick, RefOK
<1>4. CASE Poll
  BY <1>4 DEF Poll, RefOK
<1>5. CASE GetNext
  BY <1>5 DEF GetNext, TypeOK, SlotOK, RefOK, Best
<1>6. CASE TestDelay
  BY <1>6 DEF TestDelay, RefOK
<1>7. CASE Route
  BY <1>7 DEF Route, RefOK
<1>8. CASE Handle
  BY <1>8 DEF Handle, RefOK
<1>9. CASE ParseContent
  BY <1>9 DEF ParseContent, Return, RefOK
<1>10. CASE Tell
  BY <1>10 DEF Tell, Return, RefOK
<1>11. CASE UNCHANGED vars
  BY <1>11 DEF vars, RefOK
<1>12. CASE CopyDelay
  BY <1>12 DEF CopyDelay, RefOK
<1>13. CASE CompareTime
  BY <1>13 DEF CompareTime, RefOK
<1>14. QED
  BY <1>1, <1>2, <1>3, <1>4, <1>5, <1>6, <1>7, <1>8, <1>9, <1>10,
     <1>11, <1>12, <1>13
     DEF Next, DispatcherThread

\* Every step keeps the calls below the messages taken.
LEMMA CallsStep ==
  ASSUME IndInv, [Next]_vars
  PROVE  CallsOK'
<1> USE DEF IndInv, queueVars, refVars, logVars
<1>0. /\ IsFiniteSet(popped) /\ Cardinality(popped) \in Nat
      /\ calls \in Nat /\ reports \in Nat
  BY PoppedFinite DEF TypeOK
<1>1. ASSUME NEW m \in Msgs, SendMessage(m) PROVE CallsOK'
  BY <1>1 DEF SendMessage, CallsOK
<1>2. ASSUME NEW e \in Entities, Register(e) \/ Unregister(e) PROVE CallsOK'
  BY <1>2 DEF Register, Unregister, CallsOK
<1>3. CASE Tick
  BY <1>3 DEF Tick, CallsOK
<1>4. CASE Poll
  BY <1>4 DEF Poll, CallsOK
<1>5. CASE GetNext
  <2>1. slot \notin popped
    BY <1>5 DEF GetNext, Conservation, RefOK, SlotOK
  <2>2. Cardinality(popped') = Cardinality(popped) + 1
    BY <1>0, <1>5, <2>1, FS_AddElement DEF GetNext
  <2>3. QED
    BY <1>0, <1>5, <2>2 DEF GetNext, CallsOK
<1>6. CASE TestDelay
  <2>1. /\ pc = "delay" /\ pc' \in {"copy", "route"}
        /\ calls' = calls /\ popped' = popped /\ reports' = reports
    BY <1>6 DEF TestDelay
  <2>2. QED
    BY <1>0, <2>1 DEF CallsOK
<1>7. CASE Route
  <2>1. /\ pc = "route" /\ pc' \in {"poll", "handle"}
        /\ calls' = calls /\ popped' = popped /\ reports' = reports
    BY <1>7 DEF Route
  <2>2. QED
    BY <1>0, <2>1 DEF CallsOK
<1>8. CASE Handle
  <2>1. /\ pc = "handle" /\ pc' \in {"poll", "parse"}
        /\ calls' = calls + 1 /\ popped' = popped /\ reports' = reports
    BY <1>8 DEF Handle
  <2>2. QED
    BY <1>0, <2>1 DEF CallsOK
<1>9. CASE ParseContent
  <2>1. /\ pc = "parse" /\ calls' = calls /\ popped' = popped
        /\ \/ pc' = "poll" /\ reports' = reports
           \/ pc' = "poll" /\ reports' = reports + 1
           \/ pc' = "tell" /\ reports' = reports
    BY <1>9 DEF ParseContent, Return, SendProtocol
  <2>2. QED
    BY <1>0, <2>1 DEF CallsOK
<1>10. CASE Tell
  <2>1. /\ pc = "tell" /\ pc' = "poll" /\ calls' = calls /\ popped' = popped
        /\ reports' = reports + 1
    BY <1>10 DEF Tell, Return, SendProtocol
  <2>2. QED
    BY <1>0, <2>1 DEF CallsOK
<1>11. CASE UNCHANGED vars
  BY <1>11 DEF vars, CallsOK
<1>12. CASE CopyDelay
  <2>1. /\ pc = "copy" /\ pc' \in {"due"}
        /\ calls' = calls /\ popped' = popped /\ reports' = reports
    BY <1>12 DEF CopyDelay
  <2>2. QED
    BY <1>0, <2>1 DEF CallsOK
<1>13. CASE CompareTime
  <2>1. /\ pc = "due" /\ pc' \in {"poll", "route"}
        /\ calls' = calls /\ popped' = popped /\ reports' = reports
    BY <1>13 DEF CompareTime
  <2>2. QED
    BY <1>0, <2>1 DEF CallsOK
<1>14. QED
  BY <1>1, <1>2, <1>3, <1>4, <1>5, <1>6, <1>7, <1>8, <1>9, <1>10,
     <1>11, <1>12, <1>13
     DEF Next, DispatcherThread

\* The inductive invariant is kept by every step, action by action.
LEMMA IndInvStep == IndInv /\ [Next]_vars => IndInv'
BY TypeStep, ConservationStep, SlotStep, RefStep, CallsStep DEF IndInv

-----------------------------------------------------------------------------
\* In every reachable state the dispatcher satisfies its inductive invariant:
\* element 0 of the heap holds a best message, and the reference GetNext()
\* returned points to memory that held one (PriorityQueue.h:33-52).
THEOREM Invariance == SafeSpec => []IndInv
BY IndInvInit, IndInvStep, PTL DEF SafeSpec

\* Type correctness: in particular what is read through the reference of
\* GetNext() never comes from memory that held no message.
THEOREM TypeCorrect == SafeSpec => []TypeOK
<1>1. IndInv => TypeOK
  BY DEF IndInv
<1>2. QED
  BY <1>1, Invariance, PTL

\* The queue neither loses nor repeats a message.
THEOREM ConservationCorrect == SafeSpec => []Conservation
<1>1. IndInv => Conservation
  BY DEF IndInv
<1>2. QED
  BY <1>1, Invariance, PTL

\* There are no more calls of HandleMessage than messages taken, and no more reports
\* to clients than calls (MessageDispatcher.cpp:24-44).
THEOREM CallsCorrect == SafeSpec => []OneCallPerPop
<1>1. IndInv => OneCallPerPop
  <2> SUFFICES ASSUME IndInv PROVE OneCallPerPop
    OBVIOUS
  <2>1. Cardinality(popped) \in Nat /\ calls \in Nat /\ reports \in Nat
    BY PoppedFinite DEF IndInv, TypeOK
  <2>2. QED
    BY <2>1 DEF IndInv, CallsOK, OneCallPerPop
<1>2. QED
  BY <1>1, Invariance, PTL

\* No message is taken while a more urgent one waits.
THEOREM UrgentFirstCorrect == SafeSpec => UrgentFirst
<1>1. ASSUME IndInv, [Next]_vars
      PROVE  [\A m \in popped' \ popped : \A n \in queue : Priority[m] <= Priority[n]]_vars
  <2> USE DEF IndInv, queueVars, refVars, logVars
  <2>1. CASE GetNext
    <3>1. popped' \ popped \subseteq {slot}
      BY <2>1 DEF GetNext
    <3>2. QED
      BY <1>1, <3>1 DEF SlotOK
  <2>2. CASE ~GetNext /\ Next
    <3>1. popped' = popped
      BY <2>2 DEF Next, DispatcherThread, Poll, TestDelay, CopyDelay,
                  CompareTime, Route, Handle, ParseContent, Tell, SendMessage, Register, Unregister, Tick
    <3>2. QED
      BY <3>1
  <2>3. CASE UNCHANGED vars
    BY <2>3
  <2>4. QED
    BY <1>1, <2>1, <2>2, <2>3
<1>2. QED
  BY <1>1, Invariance, PTL DEF SafeSpec, UrgentFirst
=============================================================================
