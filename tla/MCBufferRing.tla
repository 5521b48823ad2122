---------------------------- MODULE MCBufferRing ----------------------------
(* BufferRing on small instances; the threads are interchangeable. *)
EXTENDS BufferRing, TLC

Symmetry == Permutations(Threads)

\* BufferRingOptions::new() with a dispatcher and a completion channel.
LoggerOptions == {[io_instance |-> TRUE, auto_flush |-> TRUE,
                   auto_rotate |-> TRUE, cq_tx |-> TRUE]}

NoStore == {[o EXCEPT !.io_instance = FALSE] : o \in LoggerOptions}

\* With and without a dispatcher, and no completion channel.
PairOptions == {[o EXCEPT !.cq_tx = FALSE] : o \in LoggerOptions \cup NoStore}
=============================================================================
