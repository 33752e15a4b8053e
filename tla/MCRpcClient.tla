---------------------------- MODULE MCRpcClient ----------------------------
(* Instance of RpcClient for TLC.                                          *)
EXTENDS RpcClient
=============================================================================
