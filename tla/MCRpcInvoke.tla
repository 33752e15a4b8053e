---------------------------- MODULE MCRpcInvoke ----------------------------
(* The calls to one address, on a small instance.                          *)
EXTENDS RpcInvoke
=============================================================================
