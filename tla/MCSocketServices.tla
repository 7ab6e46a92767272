-------------------------- MODULE MCSocketServices --------------------------
(* SocketServices for TLC: the root user, who wants another mode, and a    *)
(* stranger.                                                               *)
EXTENDS SocketServices

CONSTANTS a, b

MCClients == {a, b}
MCUid     == [c \in MCClients |-> IF c = a THEN "root" ELSE "nobody"]
MCMethod  == [c \in MCClients |-> IF c = a THEN "mode" ELSE "other"]
=============================================================================
