--------------------------- MODULE MCRpcTransport ---------------------------
(* Unary calls and streams on one connection.                              *)
EXTENDS RpcTransport
=============================================================================
