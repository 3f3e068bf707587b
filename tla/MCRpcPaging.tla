--------------------------- MODULE MCRpcPaging ---------------------------
(***************************************************************************)
(* Instances of RpcPaging for TLC.                                         *)
(***************************************************************************)
EXTENDS RpcPaging
=============================================================================
