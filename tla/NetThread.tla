----------------------------- MODULE NetThread -----------------------------
(***************************************************************************)
(* The connection layer: AsyncAcceptor, SocketManager and the pool of      *)
(* NetworkThreads (AsyncAcceptor.h, Socket.h, NetThread.h; the copies      *)
(* under NetWork/ are the same code).                                      *)
(*                                                                         *)
(* Two kinds of process run concurrently.  The accept chain runs on the    *)
(* io_service of Main: it picks the network thread with the fewest         *)
(* connections, arms async_accept, and in the callback creates the         *)
(* session, Start()s it and only then hands it to the thread; there is     *)
(* one accept in flight at a time.  Each network thread runs, one at a     *)
(* time, the receive handlers of its own sessions and, every 10 ms,        *)
(* Update(): AddSockets() under _fresh_mutex, then remove_if over          *)
(* _socket_list.                                                           *)
(*                                                                         *)
(* The two vectors are sets here: their order decides nothing below.       *)
(*                                                                         *)
(* ~Socket asks for the remote endpoint, which throws when the peer is     *)
(* gone; a destructor that throws ends the process.  Destructors run where *)
(* a list lets go of a session.                                            *)
(***************************************************************************)
EXTENDS Integers, FiniteSets

CONSTANTS
  ThreadCount,   \* thread_count of StartNetwork
  Sessions,      \* the connections clients make; bounds the number accepted
  ChecksClosed   \* TRUE : SOCKET_TYPE keeps Socket::Update, which tests _closed
                 \* FALSE: it overrides it with one that returns true always
                 \*        (WorldSession.cpp:140, AuthServer/Session.h:25)

ASSUME ThreadCountAssumption == ThreadCount \in Nat \ {0}
ASSUME SessionsAssumption == IsFiniteSet(Sessions)
ASSUME ChecksClosedAssumption == ChecksClosed \in BOOLEAN

Threads == 0 .. ThreadCount - 1

Unaccepted == -1      \* the home of a session no client has opened yet

VARIABLES
  conns,      \* conns[t]: _connections
  fresh,      \* fresh[t]: _fresh_list
  sockets,    \* sockets[t]: _socket_list
  todo,       \* todo[t]: the part of _socket_list remove_if has still to visit
  dropped,    \* dropped[t]: visited, to be erased when remove_if is done
  sweeping,   \* the threads inside Update()
  closed,     \* the sessions whose _closed is set
  reading,    \* the sessions with an async_read_some pending
  home,       \* home[s]: the thread whose io_service the socket of s belongs to
  accPc,      \* where the accept chain is
  target,     \* min, then thread_index: the thread the next connection goes to
  idx,        \* i of SelectThreadWithMinConnections
  left,       \* the left operand of its comparison, once read
  opening,    \* the session created and started, not yet handed over
  jammed,     \* the threads whose _accept_socket is left open
  up          \* the process has not been terminated

vars == <<conns, fresh, sockets, todo, dropped, sweeping, closed, reading,
          home, accPc, target, idx, left, opening, jammed, up>>

accVars  == <<accPc, target, idx, left, opening, jammed>>
loopVars == <<sockets, todo, dropped, sweeping>>

Init ==
  /\ conns = [t \in Threads |-> 0]
  /\ fresh = [t \in Threads |-> {}]
  /\ sockets = [t \in Threads |-> {}]
  /\ todo = [t \in Threads |-> {}]
  /\ dropped = [t \in Threads |-> {}]
  /\ sweeping = {}
  /\ closed = {}
  /\ reading = {}
  /\ home = [s \in Sessions |-> Unaccepted]
  /\ accPc = "select" /\ target = 0 /\ idx = 1 /\ left = 0
  /\ opening = {}
  /\ jammed = {}
  /\ up = TRUE

-----------------------------------------------------------------------------
(* The accept chain.                                                       *)

\* AsyncAcceptWithCallback calls the socket factory anew: the loop starts over.
Rearm == accPc' = "select" /\ target' = 0 /\ idx' = 1 /\ left' = 0

\* Mutant: the acceptor is not armed again.
RearmNever == accPc' = "closed" /\ target' = 0 /\ idx' = 1 /\ left' = 0

\* One turn of the loop is two atomic loads; connections may go in between.
SelectRead ==
  /\ accPc = "select" /\ idx < ThreadCount
  /\ left' = conns[idx]
  /\ accPc' = "compare"
  /\ UNCHANGED <<conns, fresh, loopVars, closed, reading, home, target, idx,
                 opening, jammed>>

\* Mutant: the comparison is the other way round.
SelectCompareWrong ==
  /\ accPc = "compare"
  /\ target' = IF left > conns[target] THEN idx ELSE target
  /\ idx' = idx + 1
  /\ accPc' = "select"
  /\ UNCHANGED <<conns, fresh, loopVars, closed, reading, home, left, opening,
                 jammed>>

SelectCompare ==
  /\ accPc = "compare"
  /\ target' = IF left < conns[target] THEN idx ELSE target
  /\ idx' = idx + 1
  /\ accPc' = "select"
  /\ UNCHANGED <<conns, fresh, loopVars, closed, reading, home, left, opening,
                 jammed>>

\* The socket of the selected thread is armed: its index is fixed from here on.
AsyncAccept ==
  /\ accPc = "select" /\ idx >= ThreadCount
  /\ accPc' = "armed"
  /\ UNCHANGED <<conns, fresh, loopVars, closed, reading, home, target, idx,
                 left, opening, jammed>>

\* OnSocketOpen up to Start(): from now on the handler of s runs on its thread,
\* although the thread does not know s yet.
OnAccept(s) ==
  /\ accPc = "armed" /\ target \notin jammed /\ home[s] = Unaccepted
  /\ home' = [home EXCEPT ![s] = target]
  /\ reading' = reading \cup {s}
  /\ opening' = {s}
  /\ accPc' = "add"
  /\ UNCHANGED <<conns, fresh, loopVars, closed, target, idx, left, jammed>>

\* Mutant: an error ends the chain.
AcceptErrorStops ==
  /\ accPc = "armed" /\ target \notin jammed
  /\ jammed' \in {jammed, jammed \cup {target}}
  /\ RearmNever
  /\ UNCHANGED <<conns, fresh, loopVars, closed, reading, home, opening>>

\* async_accept reports an error, or non_blocking() throws and leaves the accept
\* socket open: no session is made, the chain is armed again (nobody closes the
\* acceptor).
AcceptError ==
  /\ accPc = "armed" /\ target \notin jammed
  /\ jammed' \in {jammed, jammed \cup {target}}
  /\ Rearm
  /\ UNCHANGED <<conns, fresh, loopVars, closed, reading, home, opening>>

\* An accept into a socket that is open already completes with an error.
AcceptIntoOpen ==
  /\ accPc = "armed" /\ target \in jammed
  /\ Rearm
  /\ UNCHANGED <<conns, fresh, loopVars, closed, reading, home, opening, jammed>>

\* NetworkThread::AddSocket under _fresh_mutex, then the chain is armed again.
AddSocket ==
  /\ accPc = "add"
  /\ conns' = [conns EXCEPT ![target] = @ + 1]
  /\ fresh' = [fresh EXCEPT ![target] = @ \cup opening]
  /\ opening' = {}
  /\ Rearm
  /\ UNCHANGED <<loopVars, closed, reading, home, jammed>>

-----------------------------------------------------------------------------
(* A network thread.  Its handlers and its Update() never overlap.         *)

\* A receive handler that closes its session and returns (read error, illegal
\* message); it is not armed again.
HandlerClose(s) ==
  /\ s \in reading /\ home[s] \notin sweeping
  /\ closed' = closed \cup {s}
  /\ reading' = reading \ {s}
  /\ UNCHANGED <<conns, fresh, loopVars, home, accVars>>

\* A receive handler that returns without Close() and without arming the next
\* read (an exception, or one of the early returns of the game logic).  The
\* third outcome, arming the next read, changes nothing here.
HandlerReturn(s) ==
  /\ s \in reading /\ home[s] \notin sweeping
  /\ reading' = reading \ {s}
  /\ UNCHANGED <<conns, fresh, loopVars, closed, home, accVars>>

\* Mutant: closed fresh sockets stay counted.
UpdateKeepsCount(t) ==
  /\ t \notin sweeping
  /\ sweeping' = sweeping \cup {t}
  /\ sockets' = [sockets EXCEPT ![t] = @ \cup (fresh[t] \ closed)]
  /\ fresh' = [fresh EXCEPT ![t] = {}]
  /\ todo' = [todo EXCEPT ![t] = sockets'[t]]
  /\ UNCHANGED <<conns, dropped, closed, reading, home, accVars>>

\* Mutant: _fresh_list is not cleared.
UpdateKeepsFresh(t) ==
  /\ t \notin sweeping
  /\ sweeping' = sweeping \cup {t}
  /\ conns' = [conns EXCEPT ![t] = @ - Cardinality(fresh[t] \cap closed)]
  /\ sockets' = [sockets EXCEPT ![t] = @ \cup (fresh[t] \ closed)]
  /\ todo' = [todo EXCEPT ![t] = sockets'[t]]
  /\ UNCHANGED <<fresh, dropped, closed, reading, home, accVars>>

\* Update() up to the end of AddSockets(): open fresh sockets join _socket_list,
\* the others are let go and no longer counted; remove_if starts.
UpdateBegin(t) ==
  /\ t \notin sweeping
  /\ sweeping' = sweeping \cup {t}
  /\ conns' = [conns EXCEPT ![t] = @ - Cardinality(fresh[t] \cap closed)]
  /\ sockets' = [sockets EXCEPT ![t] = @ \cup (fresh[t] \ closed)]
  /\ fresh' = [fresh EXCEPT ![t] = {}]
  /\ todo' = [todo EXCEPT ![t] = sockets'[t]]
  /\ UNCHANGED <<dropped, closed, reading, home, accVars>>

\* Mutant: the sense of _closed is reversed.
SessionUpdateReversed(s) == ~ChecksClosed \/ s \in closed

\* What socket->Update() returns.
SessionUpdate(s) == ChecksClosed => s \notin closed

\* The lambda of remove_if on one socket, one action for each result.
SweepKeep(t, s) ==
  /\ s \in todo[t] /\ SessionUpdate(s)
  /\ todo' = [todo EXCEPT ![t] = @ \ {s}]
  /\ UNCHANGED <<conns, fresh, sockets, dropped, sweeping, closed, reading,
                 home, accVars>>

\* Mutant: the connection is subtracted twice.
SweepDropTwice(t, s) ==
  /\ s \in todo[t] /\ ~SessionUpdate(s)
  /\ todo' = [todo EXCEPT ![t] = @ \ {s}]
  /\ dropped' = [dropped EXCEPT ![t] = @ \cup {s}]
  /\ closed' = closed \cup {s}
  /\ conns' = [conns EXCEPT ![t] = @ - 2]
  /\ UNCHANGED <<fresh, sockets, sweeping, reading, home, accVars>>

\* Update() returned false: the socket is closed and counted off.
SweepDrop(t, s) ==
  /\ s \in todo[t] /\ ~SessionUpdate(s)
  /\ todo' = [todo EXCEPT ![t] = @ \ {s}]
  /\ dropped' = [dropped EXCEPT ![t] = @ \cup {s}]
  /\ closed' = closed \cup {s}
  /\ conns' = [conns EXCEPT ![t] = @ - 1]
  /\ UNCHANGED <<fresh, sockets, sweeping, reading, home, accVars>>

\* remove_if is done: the tail is erased and Update() returns.
UpdateEnd(t) ==
  /\ t \in sweeping /\ todo[t] = {}
  /\ sockets' = [sockets EXCEPT ![t] = @ \ dropped[t]]
  /\ dropped' = [dropped EXCEPT ![t] = {}]
  /\ sweeping' = sweeping \ {t}
  /\ UNCHANGED <<conns, fresh, todo, closed, reading, home, accVars>>

\* A list lets go of its sessions: AddSockets() of closed fresh ones, erase() of
\* those remove_if has given up.
LetsGo(t) == \/ t \notin sweeping /\ fresh[t] \cap closed # {}
             \/ t \in sweeping /\ todo[t] = {} /\ dropped[t] # {}

\* ~Socket throws instead: the process ends where it is.
Terminate(t) ==
  /\ LetsGo(t)
  /\ up' = FALSE
  /\ UNCHANGED <<conns, fresh, loopVars, closed, reading, home, accVars>>

-----------------------------------------------------------------------------
AcceptChain == SelectRead \/ SelectCompare \/ AsyncAccept \/ AcceptIntoOpen \/ AddSocket

Sweep(t) == \/ UpdateBegin(t)
            \/ \E s \in Sessions : SweepKeep(t, s) \/ SweepDrop(t, s)
            \/ UpdateEnd(t)

Operate == \/ AcceptChain
           \/ AcceptError
           \/ \E s \in Sessions : OnAccept(s) \/ HandlerClose(s) \/ HandlerReturn(s)
           \/ \E t \in Threads : Sweep(t)

Down == ~up /\ UNCHANGED vars

Next == \/ up /\ Operate /\ UNCHANGED up
        \/ up /\ \E t \in Threads : Terminate(t)
        \/ Down

\* The timer of each thread is armed again by every Update(), the thread is a
\* running OS thread, and the accept chain never blocks outside async_accept.
\* Nothing is assumed of the clients: a connection, a message or an error may
\* never come.
Fairness == /\ WF_vars(up /\ AcceptChain /\ UNCHANGED up)
            /\ \A t \in Threads : WF_vars(up /\ Sweep(t) /\ UNCHANGED up)

SafeSpec == Init /\ [][Next]_vars

Spec == SafeSpec /\ Fairness

-----------------------------------------------------------------------------
Tracked(t) == fresh[t] \cup sockets[t]

\* What _connections counts.
Kept(t) == fresh[t] \cup (sockets[t] \ dropped[t])

\* Every variable keeps its type; in particular _connections, an unsigned count to
\* its readers, never goes below zero (NetThread.h:59, 79, 110).
TypeOK ==
  /\ conns \in [Threads -> Nat]
  /\ fresh \in [Threads -> SUBSET Sessions]
  /\ sockets \in [Threads -> SUBSET Sessions]
  /\ todo \in [Threads -> SUBSET Sessions]
  /\ dropped \in [Threads -> SUBSET Sessions]
  /\ sweeping \in SUBSET Threads
  /\ closed \in SUBSET Sessions
  /\ reading \in SUBSET Sessions
  /\ home \in [Sessions -> Threads \cup {Unaccepted}]
  /\ accPc \in {"select", "compare", "armed", "add"}
  /\ target \in Threads
  /\ idx \in 1 .. ThreadCount
  /\ left \in Nat
  /\ opening \in SUBSET Sessions
  /\ jammed \in SUBSET Threads
  /\ up \in BOOLEAN

\* _connections of a thread is the number of sessions it keeps: the ones waiting
\* in _fresh_list and the ones in _socket_list that remove_if has not given up
\* in the pass it is making (NetThread.h:59, 79, 110 against 60, 75, 105).
ConnAccounting ==
  \A t \in Threads :
    conns[t] = Cardinality(Kept(t))

\* A session is kept by no thread but the one whose io_service runs its
\* handlers, there at one place only, and never before the accept callback
\* hands it over (Socket.h:155-157 against NetThread.h:60, 75, 83).
TrackedAtHome ==
  /\ \A t \in Threads : \A s \in Tracked(t) : home[s] = t
  /\ \A t \in Threads : fresh[t] \cap sockets[t] = {}
  /\ \A t \in Threads : Tracked(t) \cap opening = {}

\* Until the first session closes, the accept chain spreads the connections
\* evenly: two threads never differ by more than one, although the thread is
\* selected when the accept is armed and the connection is counted only after
\* it was opened (Socket.h:166-178, AsyncAcceptor.h:66-84).
Balanced ==
  closed = {} => \A t, u \in Threads : conns[t] <= conns[u] + 1

\* The life of a session as the rest of the server sees it.
Phase(s) ==
  IF home[s] = Unaccepted THEN "new"
  ELSE IF ~up THEN "lost"
  ELSE IF s \notin closed THEN IF s \in reading THEN "open" ELSE "silent"
  ELSE IF s \in opening \/ s \in Tracked(home[s]) THEN "closed"
  ELSE "released"

View == [s \in Sessions |-> Phase(s)]

Lifecycle == INSTANCE SessionLifecycle WITH phase <- View

\* The network layer implements SessionLifecycle: only a session's own handler
\* closes it, an open or silent one is forgotten only when the process ends, and
\* (with Socket::Update, NetThread.h:98 "delete the inactive connections") every
\* closed one is in the end, also one that its handler closes before AddSocket
\* or while it waits in _fresh_list.
ImplementsLifecycle == Lifecycle!Spec

\* The safety part, which holds for the sessions of this repository too.
ImplementsSafeLifecycle == Lifecycle!SafeSpec

\* Whatever happens to a connection attempt, a server that is up comes back to
\* accepting: the chain of async_accept calls is never cut (AsyncAcceptor.h:84).
AcceptsAgain == []<>(accPc = "armed" \/ ~up)

\* The comment of NetThread::Update, "checked every 0.01 s, inactive connections
\* are deleted": a closed session is not kept for ever (NetThread.h:98).
ClosedReleased ==
  \A s \in Sessions :
    (s \in closed) ~> (~up \/ \A t \in Threads : s \notin Tracked(t))

\* What one would expect of AcceptsAgain and the model refutes (see the README): the
\* server comes back to an accept that can succeed (AsyncAcceptor.h:75).
AcceptsForReal == []<>(~up \/ (accPc = "armed" /\ target \notin jammed))
=============================================================================
