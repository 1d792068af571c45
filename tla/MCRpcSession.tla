--------------------------- MODULE MCRpcSession ----------------------------
(* Instances of RpcSession for TLC: their constants are in the             *)
(* configurations.                                                         *)
EXTENDS RpcSession
=============================================================================
