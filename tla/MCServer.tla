------------------------------ MODULE MCServer ------------------------------
(***************************************************************************)
(* Instance of Server for TLC: two sockets and three clients.  One sends a *)
(* second request while its first is answered, one is served next to it,   *)
(* and one only needs the socket of another.                               *)
(***************************************************************************)
EXTENDS Server, TLC

CONSTANTS c1, c2, c3

MCClients == {c1, c2, c3}

MCWindow == c1 :> 1 @@ c2 :> 0 @@ c3 :> 0

MCMaxRequests == c1 :> 2 @@ c2 :> 1 @@ c3 :> 0
=============================================================================
