-------------------------- MODULE SessionLifecycle --------------------------
(***************************************************************************)
(* What the network layer promises about one client connection, whatever   *)
(* thread serves it: a session is opened once, is closed only by its own   *)
(* receive handler, and is forgotten by the server only after it was       *)
(* closed -- and then surely.  A session whose handler returned without    *)
(* closing it or reading on has fallen silent: nothing closes it any more. *)
(* Releasing a session may end the process, and all sessions are lost.     *)
(* NetThread.tla is shown to implement this.                               *)
(***************************************************************************)
CONSTANT Sessions

VARIABLE phase          \* phase[s]: where session s is in its life

Phases == {"new", "open", "silent", "closed", "released", "lost"}

Init == phase = [s \in Sessions |-> "new"]

Advance(s, from, to) == /\ phase[s] = from
                        /\ phase' = [phase EXCEPT ![s] = to]

Open(s)    == Advance(s, "new", "open")
Close(s)   == Advance(s, "open", "closed")
Silence(s) == Advance(s, "open", "silent")

\* One pass of a network thread may release several closed sessions at once.
ReleaseSome == \E S \in SUBSET {s \in Sessions : phase[s] = "closed"} :
                 phase' = [s \in Sessions |-> IF s \in S THEN "released"
                                                         ELSE phase[s]]

\* Only the release of a closed session can end the process.
LoseAll == /\ \E s \in Sessions : phase[s] = "closed"
           /\ phase' = [s \in Sessions |-> IF phase[s] = "new" THEN "new" ELSE "lost"]

Next == \/ \E s \in Sessions : Open(s) \/ Close(s) \/ Silence(s)
        \/ ReleaseSome \/ LoseAll

SafeSpec == Init /\ [][Next]_phase

\* Every closed session is released in the end, or lost with all others.
Spec == /\ SafeSpec
        /\ \A s \in Sessions :
             (phase[s] = "closed") ~> (phase[s] \in {"released", "lost"})
=============================================================================
