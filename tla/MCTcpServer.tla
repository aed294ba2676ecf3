----------------------------- MODULE MCTcpServer -----------------------------
(* Instances of TcpServer for TLC: connections are interchangeable.         *)
EXTENDS TcpServer, TLC

ClientSymmetry == Permutations(Client)
=============================================================================
