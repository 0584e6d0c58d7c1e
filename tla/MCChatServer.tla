---------------------------- MODULE MCChatServer -----------------------------
EXTENDS ChatServer

(* One client with a long dialogue, one that sends its name and a message, *)
(* with NUL bytes among them, and one that takes a place and says nothing. *)
MCClients  == {"talks", "nuls", "mute"}
MCNuls     == {"nuls"}
MCMessages == [c \in MCClients |-> IF c = "talks" THEN 3 ELSE IF c = "nuls" THEN 2 ELSE 0]
=============================================================================
