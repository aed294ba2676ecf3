--------------------------- MODULE MCVideoService ---------------------------
(* Instances of VideoService for TLC: threads are interchangeable.          *)
EXTENDS VideoService, TLC

ThreadSymmetry == Permutations(Thread)
=============================================================================
