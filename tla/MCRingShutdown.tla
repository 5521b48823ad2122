--------------------------- MODULE MCRingShutdown ---------------------------
(* RingShutdown on a small instance, with every option but manual flushing. *)
EXTENDS RingShutdown

AutoOptions == {o \in BufferRingOptions : o.auto_flush}
=============================================================================
