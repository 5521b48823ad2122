------------------------- MODULE PackedFlushBuffer -------------------------
(***************************************************************************)
(* FlushBuffer with its state word as the code has it: one unsigned        *)
(* integer, the fields cut out by shifts and masks (lib.rs, state.rs), the *)
(* updates done by arithmetic and bit operations on the whole word.        *)
(*                                                                         *)
(* The module repeats the atomic steps of FlushBuffer on that integer and  *)
(* is shown to implement FlushBuffer when the word is read through Decode. *)
(* What could go wrong is a carry or borrow between neighbouring fields,   *)
(* and a compare_exchange that tells apart, or fails to tell apart, two    *)
(* words whose fields are equal.                                           *)
(***************************************************************************)
EXTENDS Naturals, FiniteSets

CONSTANTS
  Threads, Block, Sizes,
  OffsetSpan,   \* 2^32: bits 63..32
  WriterSpan,   \* 2^24: bits 31..8
  FlagSpan      \* 2^8: bits 7..0, of which only the lowest two are used

ASSUME PackedAssumption ==
  /\ OffsetSpan \in Nat \ {0}
  /\ WriterSpan \in Nat \ {0}
  /\ FlagSpan \in Nat /\ FlagSpan % 4 = 0 /\ FlagSpan > 0
  /\ Block \in Nat /\ Block < OffsetSpan
  /\ Sizes \subseteq 0 .. Block

VARIABLES word, copies, pc, seen, size, off

vars == <<word, copies, pc, seen, size, off>>

WRITER_ONE == FlagSpan
OFFSET_ONE == FlagSpan * WriterSpan
WordSpan   == OFFSET_ONE * OffsetSpan

state_offset(s)  == s \div OFFSET_ONE

\* Mutation: the writer count without WRITER_MASK.
state_writers_unmasked(s) == s \div WRITER_ONE

state_writers(s) == (s % OFFSET_ONE) \div WRITER_ONE
state_sealed(s)  == s % 2 = 1
state_flush_in_progress(s) == (s \div 2) % 2 = 1

\* wrapping_add and fetch_add; fetch_sub is the addition of the complement.
Add(s, n) == (s + n) % WordSpan
Sub(s, n) == (s + (WordSpan - n)) % WordSpan

\* Mutations: the flush bit set by fetch_add and cleared by fetch_sub.
AddFlush(s) == s + 2
SubFlush(s) == s - 2

\* s | SEALED_BIT, s & !SEALED_BIT and the same for FLUSH_IN_PROGRESS_BIT
OrSealed(s)   == IF state_sealed(s) THEN s ELSE s + 1
NandSealed(s) == IF state_sealed(s) THEN s - 1 ELSE s
OrFlush(s)    == IF state_flush_in_progress(s) THEN s ELSE s + 2
NandFlush(s)  == IF state_flush_in_progress(s) THEN s - 2 ELSE s

\* reset_offset: state & 0x0000_0000_FFFF_FFFF
LowHalf(s) == s % OFFSET_ONE

Decode(s) == [offset   |-> state_offset(s),
              writers  |-> state_writers(s),
              flushing |-> state_flush_in_progress(s),
              sealed   |-> state_sealed(s)]

Abstract == INSTANCE FlushBuffer
              WITH word <- Decode(word), seen <- [t \in Threads |-> Decode(seen[t])]

Return(t) ==
  /\ pc' = [pc EXCEPT ![t] = "idle"]
  /\ seen' = [seen EXCEPT ![t] = 0]
  /\ size' = [size EXCEPT ![t] = 0]
  /\ off' = [off EXCEPT ![t] = 0]

Init ==
  /\ word = 0
  /\ copies = [i \in 0 .. Block - 1 |-> 0]
  /\ pc = [t \in Threads |-> "idle"]
  /\ seen = [t \in Threads |-> 0]
  /\ size = [t \in Threads |-> 0]
  /\ off = [t \in Threads |-> 0]

\* state & (SEALED_BIT | FLUSH_IN_PROGRESS_BIT) == 0, then the room check.
ReserveLoad(t, n) ==
  /\ pc[t] = "idle"
  /\ word % 4 = 0
  /\ state_offset(word) + n <= Block
  /\ seen' = [seen EXCEPT ![t] = word]
  /\ size' = [size EXCEPT ![t] = n]
  /\ pc' = [pc EXCEPT ![t] = "cas"]
  /\ UNCHANGED <<word, copies, off>>

ReserveCas(t) ==
  /\ pc[t] = "cas"
  /\ \/ /\ word = seen[t]
        /\ word' = Add(Add(seen[t], size[t] * OFFSET_ONE), WRITER_ONE)
        /\ off' = [off EXCEPT ![t] = state_offset(seen[t])]
        /\ pc' = [pc EXCEPT ![t] = "copy"]
        /\ UNCHANGED <<seen, size>>
     \/ /\ word # seen[t]
        /\ Return(t)
        /\ UNCHANGED word
  /\ UNCHANGED copies

Write(t) ==
  /\ pc[t] = "copy"
  /\ copies' = [i \in 0 .. Block - 1 |->
                  IF i \in off[t] .. off[t] + size[t] - 1
                  THEN copies[i] + 1 ELSE copies[i]]
  /\ pc' = [pc EXCEPT ![t] = "dec"]
  /\ UNCHANGED <<word, seen, size, off>>

DecrementWriters(t) ==
  /\ pc[t] \in {"dec", "pinned"}
  /\ word' = Sub(word, WRITER_ONE)
  /\ Return(t)
  /\ UNCHANGED copies

IncrementWriters(t) ==
  /\ pc[t] = "idle"
  /\ word' = Add(word, WRITER_ONE)
  /\ pc' = [pc EXCEPT ![t] = "pinned"]
  /\ UNCHANGED <<copies, seen, size, off>>

\* seal, set_flush_in_progress and clear_flush_in_progress
Flag(t) ==
  /\ pc[t] = "idle"
  /\ word' \in {OrSealed(word), OrFlush(word), NandFlush(word)}
  /\ UNCHANGED <<copies, pc, seen, size, off>>

UnsealLoad(t) ==
  /\ pc[t] = "idle"
  /\ state_writers(word) = 0
  /\ ~state_flush_in_progress(word)
  /\ state_sealed(word)
  /\ seen' = [seen EXCEPT ![t] = word]
  /\ pc' = [pc EXCEPT ![t] = "unseal"]
  /\ UNCHANGED <<word, copies, size, off>>

UnsealCas(t) ==
  /\ pc[t] = "unseal"
  /\ word' = IF word = seen[t] THEN NandSealed(seen[t]) ELSE word
  /\ Return(t)
  /\ UNCHANGED copies

Quiescent == \A t \in Threads : pc[t] = "idle"

IncrementOffset(n) ==
  LET o == state_offset(word) IN
  /\ Quiescent
  /\ o + n <= Block
  /\ word' = Add(word, n * OFFSET_ONE)
  /\ copies' = [i \in 0 .. Block - 1 |->
                  IF i \in o .. o + n - 1 THEN copies[i] + 1 ELSE copies[i]]
  /\ UNCHANGED <<pc, seen, size, off>>

ResetOffset ==
  /\ Quiescent
  /\ word' = LowHalf(word)
  /\ copies' = [i \in 0 .. Block - 1 |-> 0]
  /\ UNCHANGED <<pc, seen, size, off>>

Step(t) ==
  \/ \E n \in Sizes : ReserveLoad(t, n)
  \/ ReserveCas(t)       \/ Write(t)
  \/ DecrementWriters(t) \/ IncrementWriters(t)
  \/ Flag(t)
  \/ UnsealLoad(t)       \/ UnsealCas(t)

Next ==
  \/ \E t \in Threads : Step(t)
  \/ \E n \in Sizes : IncrementOffset(n)
  \/ ResetOffset

Spec == Init /\ [][Next]_vars

-----------------------------------------------------------------------------

TypeOK ==
  /\ word \in 0 .. WordSpan - 1
  /\ seen \in [Threads -> 0 .. WordSpan - 1]

\* The six bits between the flags and the writer count stay zero, in the word
\* and in every copy a thread compares it with: the fields are all there is.
ReservedBitsZero == \A s \in {word} \cup {seen[t] : t \in Threads} :
                      s % FlagSpan < 4

\* Every run of the packed word is a run of FlushBuffer on its fields.
ImplementsFlushBuffer == Abstract!Spec
=============================================================================
