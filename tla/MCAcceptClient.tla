--------------------------- MODULE MCAcceptClient ---------------------------
(* Instances of AcceptClient for TLC: requests are interchangeable.         *)
EXTENDS AcceptClient, TLC

ReqSymmetry == Permutations(Req)
=============================================================================
