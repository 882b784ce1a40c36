----------------------------- MODULE Dispatcher -----------------------------
(***************************************************************************)
(* MessageDispatcher and the PriorityQueue under it.                       *)
(*                                                                         *)
(* Any thread of the server sends (SendMessage, under the mutex of the     *)
(* queue); one dispatcher thread polls, takes the best message and gives   *)
(* it to its receiver.  GetNext() returns a REFERENCE to the top it has    *)
(* just popped, that is, to element 0 of the vector of the heap, and the   *)
(* dispatcher and the receiver read the fields of the message through it   *)
(* later, one by one and without the mutex.  The model therefore keeps     *)
(* what element 0 holds:                                                   *)
(*   - while the queue is not empty, the current top;                      *)
(*   - after the last message was popped, the remains of that message, a   *)
(*     destroyed object, until the next push constructs a new one there;   *)
(*   - a push that exceeds the capacity moves the elements to a new        *)
(*     buffer, and the reference is left pointing into a freed one.        *)
(* Reading a destroyed object or freed memory is undefined behaviour; it   *)
(* gives the old fields or Garbage.                                        *)
(*                                                                         *)
(* The heap itself is std::priority_queue: only its contract is used (the  *)
(* top is a best element, which one among equals is open; a push displaces *)
(* the top only if it is strictly better).                                 *)
(***************************************************************************)
EXTENDS Integers, FiniteSets

CONSTANTS
  Msgs,        \* the messages sent in a behaviour; each is sent once
  Priority,    \* Priority[m]: MsgItem.priority, the least value goes first
  Receiver,    \* Receiver[m]: MsgItem.receiver
  Delay,       \* Delay[m]: MsgItem.delay, seconds
  Type,        \* Type[m]: MsgItem.type, see Actions
  Entities,    \* the ids entities may be registered under
  Players,     \* those of players; hosters do nothing with a message
  Start,       \* system time when the server starts, seconds since 1970
  MaxNow,      \* bound on the clock
  NoMsg,       \* element 0 of a vector that never held anything
  Garbage,     \* a message with arbitrary fields
  DeadReads    \* what dead memory may read as, besides what it held last:
               \* {Garbage}, or {} for memory nobody has reused yet

\* MSG_TYPE_AOI_ENTER, MSG_TYPE_AOI_LEAVE, MSG_TYPE_AOI_MOVE
Actions == {"enter", "leave", "move"}

ASSUME MsgsAssumption ==
  /\ IsFiniteSet(Msgs)
  /\ Priority \in [Msgs -> Int]
  /\ Receiver \in [Msgs -> Entities]
  /\ Delay \in [Msgs -> Nat]
  /\ Type \in [Msgs -> Actions]
  /\ Players \subseteq Entities
  /\ NoMsg \notin Msgs /\ Garbage \notin Msgs
  /\ DeadReads \subseteq {Garbage}
ASSUME ClockAssumption ==
  /\ Start \in Nat /\ MaxNow \in Nat /\ Start <= MaxNow
  /\ \A m \in Msgs : Delay[m] < Start    \* delays are shorter than the epoch

VARIABLES
  queue,      \* the messages in the heap
  slot,       \* element 0 of its vector, constructed or destroyed
  cap,        \* the capacity of the vector
  ref,        \* the dispatcher's reference: "none", "slot" (element 0), "freed"
  old,        \* what element 0 held when the buffer under ref was freed
  pc,         \* where the dispatcher thread is
  timing,     \* its locals delay and curr_time
  target,     \* the entity found for the receiver read through ref
  online,     \* the ids registered in EntityManager
  now,        \* the system clock
  sentAt,     \* when each message was sent (Start - 1: not yet)
  popped,     \* the messages taken from the queue
  taken,      \* the message the last GetNext() popped
  calls,      \* the number of calls of HandleMessage
  last,       \* the entity and the message of the last one
  action,     \* the type HandleMessage has read
  who,        \* the message common_prop was parsed from
  reports,    \* the number of SurroundingsChanged sent to clients
  report      \* the messages entity_id and content of the last one are from

queueVars == <<queue, slot, cap>>
refVars   == <<ref, old>>
logVars   == <<calls, last, action, who, reports, report>>
vars == <<queueVars, refVars, pc, timing, target, online, now, sentAt, popped, taken,
          logVars>>

NotSent == Start - 1
Untimed == <<0, Start>>    \* the locals before they are set

Init ==
  /\ queue = {} /\ slot = NoMsg /\ cap = 0
  /\ ref = "none" /\ old = NoMsg
  /\ pc = "poll" /\ timing = Untimed
  /\ target \in Entities
  /\ online = {}
  /\ now = Start
  /\ sentAt = [m \in Msgs |-> NotSent]
  /\ popped = {} /\ taken = NoMsg
  /\ calls = 0 /\ last = <<target, NoMsg>>
  /\ action = "none" /\ who = NoMsg
  /\ reports = 0 /\ report = <<NoMsg, NoMsg>>

-----------------------------------------------------------------------------
(* The senders, and the rest of the server.                                *)

\* Mutant: the comparison of PriorityQueueItem is the other way round.
WorstFirst(m, n) == Priority[m] > Priority[n]

\* operator< of PriorityQueueItem: m goes before n.
GoesFirst(m, n) == Priority[m] < Priority[n]

Best(S) == {m \in S : \A n \in S : ~GoesFirst(n, m)}

\* SendMessage: the item is copied before its time is set, so the message in the
\* queue has time 0; then Emplace under the mutex.
SendMessage(m) ==
  /\ sentAt[m] = NotSent
  /\ sentAt' = [sentAt EXCEPT ![m] = now]
  /\ slot' = IF queue = {} \/ GoesFirst(m, slot) THEN m ELSE slot
  /\ queue' = queue \cup {m}
  /\ IF Cardinality(queue) = cap
       THEN /\ cap' = IF cap = 0 THEN 1 ELSE 2 * cap
            /\ ref' = IF ref = "slot" THEN "freed" ELSE ref
            /\ old' = IF ref = "slot" THEN slot ELSE old
       ELSE UNCHANGED <<cap, refVars>>
  /\ UNCHANGED <<pc, timing, target, online, now, popped, taken, logVars>>

\* An entity enters a scene for the first time (EntityManager::Add).
Register(e) ==
  /\ e \notin online
  /\ online' = online \cup {e}
  /\ UNCHANGED <<queueVars, refVars, pc, timing, target, now, sentAt, popped, taken,
                 logVars>>

\* An entity is destroyed (EntityManager::Erase).
Unregister(e) ==
  /\ e \in online
  /\ online' = online \ {e}
  /\ UNCHANGED <<queueVars, refVars, pc, timing, target, now, sentAt, popped, taken,
                 logVars>>

Tick ==
  /\ now < MaxNow
  /\ now' = now + 1
  /\ UNCHANGED <<queueVars, refVars, pc, timing, target, online, sentAt, popped, taken,
                 logVars>>

-----------------------------------------------------------------------------
(* The dispatcher thread.                                                  *)

\* What a read through the reference gives now.
Reads == IF ref = "freed" THEN {old} \cup DeadReads
         ELSE IF queue = {} THEN {slot} \cup DeadReads
         ELSE {slot}

\* Mutant: the result of Empty() is ignored.
PollUnchecked ==
  /\ pc = "poll"
  /\ pc' = "next"
  /\ UNCHANGED <<queueVars, refVars, timing, target, online, now, sentAt, popped, taken,
                 logVars>>

\* Empty() says there is something to do; otherwise the thread sleeps and asks
\* again, which changes nothing.
Poll ==
  /\ pc = "poll" /\ queue # {}
  /\ pc' = "next"
  /\ UNCHANGED <<queueVars, refVars, timing, target, online, now, sentAt, popped, taken,
                 logVars>>

\* Mutant: the message is not popped.
PeekOnly ==
  /\ pc = "next"
  /\ UNCHANGED <<queueVars, old>>
  /\ popped' = popped \cup {slot} /\ taken' = slot
  /\ ref' = "slot"
  /\ pc' = "delay"
  /\ UNCHANGED <<timing, target, online, now, sentAt, logVars>>

\* Mutant: the last message stays in the queue.
GetNextButLast ==
  /\ pc = "next" /\ Cardinality(queue) > 1
  /\ queue' = queue \ {slot}
  /\ slot' \in Best(queue')
  /\ popped' = popped \cup {slot} /\ taken' = slot
  /\ ref' = "slot"
  /\ pc' = "delay"
  /\ UNCHANGED <<cap, old, timing, target, online, now, sentAt, logVars>>

\* GetNext(): pop() puts the next best message into element 0, or, if there was
\* one message only, destroys it in place.
GetNext ==
  /\ pc = "next"
  /\ queue' = queue \ {slot}
  /\ slot' \in IF queue' = {} THEN {slot} ELSE Best(queue')
  /\ popped' = popped \cup {slot} /\ taken' = slot
  /\ ref' = "slot"
  /\ pc' = "delay"
  /\ UNCHANGED <<cap, old, timing, target, online, now, sentAt, logVars>>

\* The time of a message in the queue, see SendMessage.
TimeOf(m) == 0

\* if (message.delay()): most messages have none.
TestDelay ==
  /\ pc = "delay"
  /\ \E m \in Reads :
       pc' \in IF m = Garbage THEN {"copy", "route"}
               ELSE IF Delay[m] # 0 THEN {"copy"} ELSE {"route"}
  /\ UNCHANGED <<queueVars, refVars, timing, target, online, now, sentAt, popped,
                 taken, logVars>>

\* The delay is read again into a local, then the clock is.
CopyDelay ==
  /\ pc = "copy"
  /\ \E m \in Reads :
       \E d \in IF m = Garbage THEN 0 .. MaxNow + 1 ELSE {Delay[m]} :
         timing' = <<d, now>>
  /\ pc' = "due"
  /\ UNCHANGED <<queueVars, refVars, target, online, now, sentAt, popped, taken,
                 logVars>>

\* A message that is not due yet is dropped; its time is read only if the local
\* delay is positive.
CompareTime ==
  /\ pc = "due"
  /\ \E m \in Reads :
       pc' \in IF timing[1] = 0 THEN {"route"}
               ELSE IF m = Garbage THEN {"poll", "route"}
               ELSE IF timing[2] < TimeOf(m) + timing[1] THEN {"poll"} ELSE {"route"}
  /\ timing' = Untimed
  /\ UNCHANGED <<queueVars, refVars, target, online, now, sentAt, popped, taken,
                 logVars>>

\* receiver() is read and Discharge looks the entity up: a receiver that is not
\* online gets nothing.
Route ==
  /\ pc = "route"
  /\ \E m \in Reads :
       \E e \in IF m = Garbage THEN Entities ELSE {Receiver[m]} :
         IF e \in online THEN target' = e /\ pc' = "handle"
                         ELSE pc' = "poll" /\ UNCHANGED target
  /\ UNCHANGED <<queueVars, refVars, timing, online, now, sentAt, popped, taken,
                 logVars>>

\* Mutant: the thread goes back to the same reference instead of to Empty().
HandleAgain ==
  /\ pc = "handle"
  /\ \E m \in Reads : last' = <<target, m>>
  /\ calls' = calls + 1
  /\ pc' \in {"poll", "route"}
  /\ UNCHANGED <<queueVars, refVars, timing, target, online, now, sentAt, popped, taken,
                 action, who, reports, report>>

\* entity->HandleMessage(message), up to the switch on item.type().
Handle ==
  /\ pc = "handle"
  /\ calls' = calls + 1
  /\ \E m \in Reads :
       /\ last' = <<target, m>>
       /\ \E a \in IF m = Garbage THEN Actions \cup {"none"} ELSE {Type[m]} :
            IF target \in Players /\ a # "none"
              THEN pc' = "parse" /\ action' = a
              ELSE pc' = "poll" /\ UNCHANGED action
  /\ UNCHANGED <<queueVars, refVars, timing, target, online, now, sentAt, popped, taken,
                 who, reports, report>>

\* HandleMessage returns; its locals are gone.
Return == pc' = "poll" /\ action' = "none" /\ who' = NoMsg

\* SendProtocol(SurroundingsChanged)
SendProtocol(w, c) == reports' = reports + 1 /\ report' = <<w, c>>

\* ParseFromString(item.content()); "enter" is reported only if IsInSight says so,
\* the others without content.
ParseContent ==
  /\ pc = "parse"
  /\ \E m \in Reads :
       \/ m = Garbage /\ Return /\ UNCHANGED <<reports, report>>
       \/ /\ action = "enter"
          /\ \/ Return
             \/ pc' = "tell" /\ who' = m /\ UNCHANGED action
          /\ UNCHANGED <<reports, report>>
       \/ action # "enter" /\ Return /\ SendProtocol(m, NoMsg)
  /\ UNCHANGED <<queueVars, refVars, timing, target, online, now, sentAt, popped, taken,
                 calls, last>>

\* item.content() is read again, for the report.
Tell ==
  /\ pc = "tell"
  /\ \E m \in Reads : SendProtocol(who, m)
  /\ Return
  /\ UNCHANGED <<queueVars, refVars, timing, target, online, now, sentAt, popped, taken,
                 calls, last>>

-----------------------------------------------------------------------------
DispatcherThread == \/ Poll \/ GetNext \/ TestDelay \/ CopyDelay \/ CompareTime
                    \/ Route \/ Handle \/ ParseContent \/ Tell

Next == \/ DispatcherThread
        \/ \E m \in Msgs : SendMessage(m)
        \/ \E e \in Entities : Register(e) \/ Unregister(e)
        \/ Tick

SafeSpec == Init /\ [][Next]_vars

\* The dispatcher is a running OS thread in an endless loop; the mutex of the
\* queue is held for one queue operation at a time.
Spec == SafeSpec /\ WF_vars(DispatcherThread)

-----------------------------------------------------------------------------
Sent == {m \in Msgs : sentAt[m] # NotSent}

\* Every variable keeps its type; in particular GetNext() never pops an empty heap,
\* though Empty() and GetNext() take the mutex separately (MessageDispatcher.cpp:26-34).
TypeOK ==
  /\ queue \in SUBSET Msgs
  /\ slot \in Msgs \cup {NoMsg}
  /\ cap \in Nat
  /\ ref \in {"none", "slot", "freed"}
  /\ old \in Msgs \cup {NoMsg}
  /\ pc \in {"poll", "next", "delay", "copy", "due", "route", "handle", "parse", "tell"}
  /\ timing \in (0 .. MaxNow + 1) \X (Start .. MaxNow)
  /\ target \in Entities
  /\ online \in SUBSET Entities
  /\ now \in Start .. MaxNow
  /\ sentAt \in [Msgs -> NotSent .. MaxNow]
  /\ popped \in SUBSET Msgs
  /\ taken \in Msgs \cup {NoMsg}
  /\ calls \in Nat
  /\ last \in Entities \X (Msgs \cup {NoMsg, Garbage})
  /\ action \in Actions \cup {"none"}
  /\ who \in Msgs \cup {NoMsg, Garbage}
  /\ reports \in Nat
  /\ report \in (Msgs \cup {NoMsg, Garbage}) \X (Msgs \cup {NoMsg, Garbage})

\* The queue neither loses nor repeats a message: what was sent is either still
\* in it or was taken, never both, whatever the sends between Empty() and
\* GetNext() (PriorityQueue.h:33-52).
Conservation ==
  /\ queue \cup popped = Sent
  /\ queue \cap popped = {}

\* GetNext() never takes a message while a more urgent one waits
\* (MessageDispatcher.h:24 "the least value goes first").
UrgentFirst ==
  [][\A m \in popped' \ popped : \A n \in queue : Priority[m] <= Priority[n]]_vars

\* There are no more calls of HandleMessage than messages taken, and no more reports
\* to clients than calls, so what the dispatcher does is bounded by what is sent.
\* (Which message a call is given is another matter, see HandlesWhatItTook; one may
\* be handled twice and another never.)  (MessageDispatcher.cpp:24-44,
\* Player.cpp:139-193)
OneCallPerPop == reports <= calls /\ calls <= Cardinality(popped)

\* Once the senders stop, the queue is emptied (MessageDispatcher.cpp:24-44).
Drains == (Sent = Msgs) ~> (queue = {})

\* "Handed to each receiver for handling" (MessageDispatcher.cpp:51): the message
\* HandleMessage is given is the one taken from the queue.
HandlesWhatItTook == [][calls' # calls /\ last'[2] \in Msgs => last'[2] = taken]_vars

-----------------------------------------------------------------------------
(* More comments the model refutes (see the README).                       *)

\* "Sent to the receiver" (MessageDispatcher.h:63): HandleMessage is called on the
\* entity the message is addressed to.
ReachesItsReceiver == last[2] \in Msgs => Receiver[last[2]] = last[1]

\* "Delay of sending, in seconds" (P_Server.proto:26) and "not yet time to send"
\* (MessageDispatcher.cpp:38): no message is handled before its delay is over.
DelayHonoured ==
  [][calls' # calls /\ last'[2] \in Msgs
       => now >= sentAt[last'[2]] + Delay[last'[2]]]_vars

\* "Something nearby has changed" (P_Protocol.proto:222): the entity_id and the
\* content a client is sent are those of one message.
ReportOfOne == \A m, n \in Msgs : report = <<m, n>> => m = n
=============================================================================
