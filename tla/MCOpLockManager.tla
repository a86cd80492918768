--------------------------- MODULE MCOpLockManager ---------------------------
(***************************************************************************)
(* Instance of OpLockManager for TLC: three control sockets on one server, *)
(* a directory and its subdirectory, plain and inclusive locks.            *)
(***************************************************************************)
EXTENDS OpLockManager, TLC

MCCurrentServer == [s \in Sockets |-> "A"]
MCPaths == {<<"d">>, <<"d", "e">>}
MCSymmetry == Permutations(Sockets)
===============================================================================
