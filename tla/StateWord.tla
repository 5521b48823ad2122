----------------------------- MODULE StateWord -----------------------------
(***************************************************************************)
(* The packed state word of a FlushBuffer (lib.rs, state.rs), as a record  *)
(* of its four fields.                                                     *)
(*                                                                         *)
(*   bits 63..32  offset     bytes reserved so far                         *)
(*   bits 31..8   writers    reservations whose copy is not finished       *)
(*   bit  1       flushing   FLUSH_IN_PROGRESS_BIT                         *)
(*   bit  0       sealed     SEALED_BIT                                    *)
(*                                                                         *)
(* The code does arithmetic on the whole word, so adding or subtracting    *)
(* WRITER_ONE at the edge of the writers field carries into, or borrows    *)
(* from, the offset field.  The operators below keep that: OffsetSpan and  *)
(* WriterSpan are the number of values of the two fields (2^32 and 2^24).  *)
(* PackedFlushBuffer shows that they agree with the arithmetic on the      *)
(* integer.                                                                *)
(*                                                                         *)
(* Here and in the modules above, a definition introduced as a mutation is *)
(* a wrong variant of the one after it; no specification uses it.  Putting *)
(* it in that definition's place must make a property fail.                *)
(***************************************************************************)
EXTENDS Naturals

CONSTANTS
  OffsetSpan,   \* number of values of the offset field, 2^32 in the code
  WriterSpan    \* number of values of the writers field, 2^24 in the code

ASSUME SpanAssumption ==
  /\ OffsetSpan \in Nat \ {0}
  /\ WriterSpan \in Nat \ {0}

Word == [offset : 0 .. OffsetSpan - 1, writers : 0 .. WriterSpan - 1,
         flushing : BOOLEAN, sealed : BOOLEAN]

\* AtomicUsize::new(0), and what reset_buffer stores.
ZeroWord == [offset |-> 0, writers |-> 0, flushing |-> FALSE, sealed |-> FALSE]

\* state & (SEALED_BIT | FLUSH_IN_PROGRESS_BIT) == 0
IsOpen(w) == ~w.sealed /\ ~w.flushing

\* FlushBuffer::is_available on a loaded word.
IsAvailable(w) == IsOpen(w) /\ w.offset = 0

\* A sum of two offset-field values, modulo the field.
WrapOffset(n) == IF n < OffsetSpan THEN n ELSE n - OffsetSpan

\* wrapping_add(n * OFFSET_ONE): the carry out of the word is lost.
AddOffset(w, n) == [w EXCEPT !.offset = WrapOffset(w.offset + n)]

\* + WRITER_ONE: an overflowing writers field carries into the offset.
AddWriter(w) ==
  IF w.writers + 1 < WriterSpan
  THEN [w EXCEPT !.writers = w.writers + 1]
  ELSE [AddOffset(w, 1) EXCEPT !.writers = 0]

\* - WRITER_ONE: an empty writers field borrows from the offset.
SubWriter(w) ==
  IF w.writers > 0
  THEN [w EXCEPT !.writers = w.writers - 1]
  ELSE [AddOffset(w, OffsetSpan - 1) EXCEPT !.writers = WriterSpan - 1]

\* Mutations: the offset is not advanced; the writer is not counted.
ReservedInPlace(w, n)   == AddWriter(w)
ReservedUncounted(w, n) == AddOffset(w, n)

\* The word reserve_space tries to install for a payload of n bytes.
Reserved(w, n) == AddWriter(AddOffset(w, n))

SetSealed(w)     == [w EXCEPT !.sealed   = TRUE]
ClearSealed(w)   == [w EXCEPT !.sealed   = FALSE]
SetFlushing(w)   == [w EXCEPT !.flushing = TRUE]
ClearFlushing(w) == [w EXCEPT !.flushing = FALSE]
ZeroOffset(w)    == [w EXCEPT !.offset   = 0]

\* usize::next_multiple_of
NextMultipleOf(n, m) == ((n + m - 1) \div m) * m
=============================================================================
