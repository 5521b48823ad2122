---------------------------- MODULE FlushBuffer ----------------------------
(***************************************************************************)
(* One FlushBuffer (flush_buffer.rs) shared by a set of threads.           *)
(*                                                                         *)
(* Every atomic operation on the state word is one step.  reserve_space    *)
(* and un_sealed read the word, decide, and then compare-and-exchange, so  *)
(* each is two steps with any number of other threads' steps in between.   *)
(* The threads keep the documented contract of the API and nothing more:   *)
(* a reservation is copied and then given back with decrement_writers, and *)
(* increment_writers is paired with decrement_writers.  Sealing, the two   *)
(* flush bits and un_sealed may be called by anyone at any time.           *)
(***************************************************************************)
EXTENDS StateWord, FiniteSets

CONSTANTS
  Threads,
  Block,     \* ONE_MEGABYTE_BLOCK
  Sizes      \* payload sizes the threads ask for

ASSUME FlushBufferAssumption ==
  /\ IsFiniteSet(Threads)
  /\ Cardinality(Threads) < WriterSpan
  /\ Block \in Nat
  /\ Block < OffsetSpan
  /\ Sizes \subseteq 0 .. Block

VARIABLES
  word,      \* FlushBuffer::state
  copies,    \* copies[i]: how often byte i was written since the last reset
  pc,        \* where each thread is in its call
  seen,      \* the word each thread loaded last
  size,      \* the payload size of its call
  off        \* the offset its reservation returned

vars == <<word, copies, pc, seen, size, off>>

Region(t) == off[t] .. off[t] + size[t] - 1

\* A thread between a successful reservation (or increment_writers) and
\* decrement_writers.
Holders == {t \in Threads : pc[t] \in {"copy", "dec", "pinned"}}

\* The call returns and its locals are gone.  A call that returns an error
\* leaves the shared state as it was; the caller is free to call again.
Return(t) ==
  /\ pc' = [pc EXCEPT ![t] = "idle"]
  /\ seen' = [seen EXCEPT ![t] = ZeroWord]
  /\ size' = [size EXCEPT ![t] = 0]
  /\ off' = [off EXCEPT ![t] = 0]

Init ==
  /\ word = ZeroWord
  /\ copies = [i \in 0 .. Block - 1 |-> 0]
  /\ pc = [t \in Threads |-> "idle"]
  /\ seen = [t \in Threads |-> ZeroWord]
  /\ size = [t \in Threads |-> 0]
  /\ off = [t \in Threads |-> 0]

-----------------------------------------------------------------------------
(* reserve_space *)

\* Mutation: the payload is not checked against the room that is left.
ReserveLoadUnbounded(t, n) ==
  /\ pc[t] = "idle"
  /\ IsOpen(word)
  /\ seen' = [seen EXCEPT ![t] = word]
  /\ size' = [size EXCEPT ![t] = n]
  /\ pc' = [pc EXCEPT ![t] = "cas"]
  /\ UNCHANGED <<word, copies, off>>

\* The load: the buffer is open and the payload fits.  Otherwise the call
\* returns EncounteredSealedBuffer or InsufficientSpace at once.
ReserveLoad(t, n) ==
  /\ pc[t] = "idle"
  /\ IsOpen(word)
  /\ word.offset + n <= Block
  /\ seen' = [seen EXCEPT ![t] = word]
  /\ size' = [size EXCEPT ![t] = n]
  /\ pc' = [pc EXCEPT ![t] = "cas"]
  /\ UNCHANGED <<word, copies, off>>

\* Mutation: a plain store of the new word.
ReserveStore(t) ==
  /\ pc[t] = "cas"
  /\ word' = Reserved(seen[t], size[t])
  /\ off' = [off EXCEPT ![t] = seen[t].offset]
  /\ pc' = [pc EXCEPT ![t] = "copy"]
  /\ UNCHANGED <<copies, seen, size>>

\* compare_exchange(state, new): the word may have changed and changed back.
ReserveCas(t) ==
  /\ pc[t] = "cas"
  /\ \/ /\ word = seen[t]
        /\ word' = Reserved(seen[t], size[t])
        /\ off' = [off EXCEPT ![t] = seen[t].offset]
        /\ pc' = [pc EXCEPT ![t] = "copy"]
        /\ UNCHANGED <<seen, size>>
     \/ /\ word # seen[t]            \* FailedReservation
        /\ Return(t)
        /\ UNCHANGED word
  /\ UNCHANGED copies

\* write: the payload is copied into the reserved range.
Write(t) ==
  /\ pc[t] = "copy"
  /\ copies' = [i \in 0 .. Block - 1 |->
                  IF i \in Region(t) THEN copies[i] + 1 ELSE copies[i]]
  /\ pc' = [pc EXCEPT ![t] = "dec"]
  /\ UNCHANGED <<word, seen, size, off>>

\* decrement_writers, after the copy or to undo increment_writers.
DecrementWriters(t) ==
  /\ pc[t] \in {"dec", "pinned"}
  /\ word' = SubWriter(word)
  /\ Return(t)
  /\ UNCHANGED copies

IncrementWriters(t) ==
  /\ pc[t] = "idle"
  /\ word' = AddWriter(word)
  /\ pc' = [pc EXCEPT ![t] = "pinned"]
  /\ UNCHANGED <<copies, seen, size, off>>

-----------------------------------------------------------------------------
(* The flag bits *)

\* seal and is_sealed are the same fetch_or and differ only in what they
\* make of the previous value: asking whether the buffer is sealed seals it.
Seal(t) ==
  /\ pc[t] = "idle"
  /\ word' = SetSealed(word)
  /\ UNCHANGED <<copies, pc, seen, size, off>>

SetFlushInProgress(t) ==
  /\ pc[t] = "idle"
  /\ word' = SetFlushing(word)
  /\ UNCHANGED <<copies, pc, seen, size, off>>

ClearFlushInProgress(t) ==
  /\ pc[t] = "idle"
  /\ word' = ClearFlushing(word)
  /\ UNCHANGED <<copies, pc, seen, size, off>>

\* The load of un_sealed.  With a writer or a flush it returns ActiveUsers,
\* on a buffer that is not sealed EncounteredUnSealedBufferDuringCOMPEX.
UnsealLoad(t) ==
  /\ pc[t] = "idle"
  /\ word.writers = 0
  /\ ~word.flushing
  /\ word.sealed
  /\ seen' = [seen EXCEPT ![t] = word]
  /\ pc' = [pc EXCEPT ![t] = "unseal"]
  /\ UNCHANGED <<word, copies, size, off>>

\* Mutation: fetch_and(!SEALED_BIT) in place of the compare_exchange.
UnsealAnd(t) ==
  /\ pc[t] = "unseal"
  /\ word' = ClearSealed(word)
  /\ Return(t)
  /\ UNCHANGED copies

\* The compare_exchange of un_sealed; it returns FailedUnsealed when it fails.
UnsealCas(t) ==
  /\ pc[t] = "unseal"
  /\ word' = IF word = seen[t] THEN ClearSealed(seen[t]) ELSE word
  /\ Return(t)
  /\ UNCHANGED copies

-----------------------------------------------------------------------------
(* Helpers for one thread alone.  increment_offset is documented so.         *)
(* reset_offset is "for use in tests only" and nothing in the repository     *)
(* calls it: that no other call is under way is this module's choice.        *)

Quiescent == \A t \in Threads : pc[t] = "idle"

\* increment_offset, followed by the write it is for; it ignores both bits.
IncrementOffset(n) ==
  /\ Quiescent
  /\ word.offset + n <= Block
  /\ word' = AddOffset(word, n)
  /\ copies' = [i \in 0 .. Block - 1 |->
                  IF i \in word.offset .. word.offset + n - 1
                  THEN copies[i] + 1 ELSE copies[i]]
  /\ UNCHANGED <<pc, seen, size, off>>

\* reset_offset: the loop ends at its first compare_exchange.
ResetOffset ==
  /\ Quiescent
  /\ word' = ZeroOffset(word)
  /\ copies' = [i \in 0 .. Block - 1 |-> 0]
  /\ UNCHANGED <<pc, seen, size, off>>

Step(t) ==
  \/ \E n \in Sizes : ReserveLoad(t, n)
  \/ ReserveCas(t)
  \/ Write(t)
  \/ DecrementWriters(t)
  \/ IncrementWriters(t)
  \/ Seal(t)
  \/ SetFlushInProgress(t)
  \/ ClearFlushInProgress(t)
  \/ UnsealLoad(t)
  \/ UnsealCas(t)

Next ==
  \/ \E t \in Threads : Step(t)
  \/ \E n \in Sizes : IncrementOffset(n)
  \/ ResetOffset

Spec == Init /\ [][Next]_vars

-----------------------------------------------------------------------------
(* Properties *)

TypeOK ==
  /\ word \in Word
  /\ copies \in [0 .. Block - 1 -> Nat]
  /\ pc \in [Threads -> {"idle", "cas", "copy", "dec", "pinned", "unseal"}]
  /\ seen \in [Threads -> Word]
  /\ size \in [Threads -> 0 .. Block]
  /\ off \in [Threads -> 0 .. Block]

\* lib.rs, Buffer: "no two threads are ever granted the same region".  Two
\* threads inside write never own the same byte, and never one past the end.
ExclusiveRegions ==
  \A t \in Threads : pc[t] \in {"copy", "dec"} =>
    /\ Region(t) \subseteq 0 .. Block - 1
    /\ \A u \in Threads \ {t} : pc[u] \in {"copy", "dec"} =>
         Region(t) \cap Region(u) = {}

\* No byte is ever written twice between two resets, even by threads whose
\* reservations never overlap in time: a finished payload stays intact.
WrittenOnce == \A i \in 0 .. Block - 1 : copies[i] <= 1

\* What a flusher relies on when it finds the writer count at zero: every
\* reserved byte has been copied, and no thread still holds a reservation.
DrainedMeansCopied ==
  word.writers = 0 => /\ Holders = {}
                      /\ \A i \in 0 .. word.offset - 1 : copies[i] = 1

\* un_sealed "only succeeds when there are no active writers and no flush is
\* in progress": true at the step that clears the bit, not just at its load.
ReopenedOnlyWhenIdle ==
  [][word.sealed /\ ~word'.sealed => Holders = {} /\ ~word.flushing]_vars
=============================================================================
