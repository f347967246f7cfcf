----------------------------- MODULE MCRpcServer -----------------------------
(* Small instance of RpcServer for TLC: two lists over three nodes.        *)
EXTENDS RpcServer

CONSTANTS n1, n2, n3

MCLists == {<<n1, n2, n3>>, <<n3, n1>>}
=============================================================================
