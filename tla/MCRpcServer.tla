---------------------------- MODULE MCRpcServer ----------------------------
(* Instance of RpcServer for TLC.                                          *)
EXTENDS RpcServer

CONSTANTS c1, c2

(* Two requests make a packet wait in the buffer behind the one served.    *)
TwoAndOne == [c \in Conns |-> IF c = c1 THEN 2 ELSE 1]
=============================================================================
