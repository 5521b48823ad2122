------------------------------ MODULE MCQuikIO ------------------------------
(* QuikIO on a small instance: the threads are interchangeable, and the read *)
(* starts inside the first page and ends beyond the last.                    *)
EXTENDS QuikIO, TLC

\* A queue of one entry never links, so "Tail" is "Serialized" there.
SmallSetups == {<<"Tail", 1>>, <<"Serialized", 2>>}

\* Both write modes with the queue of QuikIO::link and QuikIO::new.
CodeSetups == {"Tail", "Serialized"} \X {8}

ReadArgs == {[offset |-> 1, len |-> 4]}

Symmetry == Permutations(Threads)
=============================================================================
