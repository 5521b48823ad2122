--------------------------- MODULE MCFlushBuffer ---------------------------
(* FlushBuffer on a small instance; the threads are interchangeable. *)
EXTENDS FlushBuffer, TLC

Symmetry == Permutations(Threads)
=============================================================================
