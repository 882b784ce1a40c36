--------------------------- MODULE MCPlayerSession ---------------------------
(* PlayerSession with two clients, whose network thread is the same        *)
(* (thread_count = 1, the default of StartNetwork) or not (Main asks for   *)
(* five).  Their ENTER_GAMEs ask for players that exist (MCAccount), or    *)
(* one of them for a player nobody has created yet (MCAccountAhead).       *)
EXTENDS PlayerSession, TLC

CONSTANTS c1, c2

MCClients == {c1, c2}
MCOneThread == [c \in Clients |-> 1]
MCTwoThreads == c1 :> 1 @@ c2 :> 2
MCAccount == [c \in Clients |-> 1]
MCAccountAhead == c1 :> 1 @@ c2 :> 2
=============================================================================
