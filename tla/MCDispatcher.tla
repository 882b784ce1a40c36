---------------------------- MODULE MCDispatcher ----------------------------
(* Dispatcher with concrete messages.  The server itself leaves priority   *)
(* and delay of a message at their defaults; the tables with other values  *)
(* exercise what MsgItem offers to callers.                                *)
EXTENDS Dispatcher, TLC

CONSTANTS m1, m2, m3, e1, e2

MCMsgs == {m1, m2, m3}
MCPriority == m1 :> 10 @@ m2 :> 10 @@ m3 :> 1
MCDefaultPriority == [m \in MCMsgs |-> 10]
MCReceiver == m1 :> e1 @@ m2 :> e2 @@ m3 :> e1
MCEntities == {e1, e2}
MCPlayers == {e1}
MCType == m1 :> "enter" @@ m2 :> "leave" @@ m3 :> "enter"
MCDelay == m1 :> 2 @@ m2 :> 0 @@ m3 :> 0
=============================================================================
