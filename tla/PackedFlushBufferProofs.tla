---------------------- MODULE PackedFlushBufferProofs ----------------------
(***************************************************************************)
(* Proofs about PackedFlushBuffer, for any widths of the fields and any    *)
(* number of threads, more of them than the writers field can count        *)
(* included: the arithmetic on the whole word is the arithmetic of         *)
(* StateWord on its fields, carries and borrows too.                       *)
(***************************************************************************)
EXTENDS PackedFlushBuffer, Integers, TLAPS

USE PackedAssumption

-----------------------------------------------------------------------------
(* Division by an unknown number *)

LEMMA QuotientRest ==
  ASSUME NEW d \in Nat \ {0}, NEW x \in Nat, NEW r \in 0 .. d - 1
  PROVE  (x * d + r) \div d = x /\ (x * d + r) % d = r
OBVIOUS

LEMMA QuotientOf ==
  ASSUME NEW d \in Nat \ {0}, NEW s \in Nat
  PROVE  s \div d \in Nat /\ s % d \in 0 .. d - 1 /\ s = (s \div d) * d + (s % d)
OBVIOUS

LEMMA TimesSmaller ==
  ASSUME NEW a \in Nat, NEW b \in Nat, NEW d \in Nat, a <= b
  PROVE  a * d <= b * d
OBVIOUS

-----------------------------------------------------------------------------
(* Words *)

\* The word with offset o, w writers and the flag bits f.
Pack(o, w, f) == o * OFFSET_ONE + (w * FlagSpan + f)

Offsets == 0 .. OffsetSpan - 1
Writers == 0 .. WriterSpan - 1
Flags   == 0 .. 3

\* The words whose six unused bits are zero.
Packed == {s \in 0 .. WordSpan - 1 : s % FlagSpan < 4}

LEMMA Spans ==
  /\ OFFSET_ONE \in Nat \ {0} /\ WordSpan \in Nat \ {0}
  /\ FlagSpan \in Nat \ {0} /\ 4 <= FlagSpan /\ FlagSpan <= OFFSET_ONE
  /\ \E g \in Nat : FlagSpan = 4 * g
  /\ WordSpan = OffsetSpan * OFFSET_ONE /\ OFFSET_ONE = WriterSpan * FlagSpan
<1>1. PICK g \in Nat : FlagSpan = 4 * g
  OBVIOUS
<1>2. 4 <= FlagSpan
  BY <1>1
<1>3. OFFSET_ONE \in Nat \ {0} /\ FlagSpan <= OFFSET_ONE
      /\ OFFSET_ONE = WriterSpan * FlagSpan
  BY DEF OFFSET_ONE
<1>4. WordSpan \in Nat \ {0} /\ WordSpan = OffsetSpan * OFFSET_ONE
  BY <1>3 DEF WordSpan
<1> QED BY <1>1, <1>2, <1>3, <1>4

LEMMA LowPart ==
  ASSUME NEW w \in Writers, NEW f \in Flags
  PROVE  /\ w * FlagSpan + f \in 0 .. OFFSET_ONE - 1
         /\ (w * FlagSpan + f) \div FlagSpan = w
         /\ (w * FlagSpan + f) % FlagSpan = f
<1>1. w \in Nat /\ w + 1 <= WriterSpan /\ f \in 0 .. FlagSpan - 1 /\ FlagSpan \in Nat \ {0}
  BY Spans DEF Writers, Flags
<1>2. (w + 1) * FlagSpan <= WriterSpan * FlagSpan
  BY <1>1, TimesSmaller
<1>3. (w + 1) * FlagSpan = w * FlagSpan + FlagSpan /\ w * FlagSpan \in Nat
  BY <1>1
<1>4. w * FlagSpan + f \in 0 .. OFFSET_ONE - 1
  BY <1>1, <1>2, <1>3, Spans
<1> QED BY <1>1, <1>4, QuotientRest

\* The fields of a packed word.
LEMMA PackFields ==
  ASSUME NEW o \in Offsets, NEW w \in Writers, NEW f \in Flags
  PROVE  /\ Pack(o, w, f) \in Packed
         /\ state_offset(Pack(o, w, f)) = o
         /\ state_writers(Pack(o, w, f)) = w
         /\ Pack(o, w, f) % 4 = f
         /\ state_sealed(Pack(o, w, f)) <=> f \in {1, 3}
         /\ state_flush_in_progress(Pack(o, w, f)) <=> f \in {2, 3}
         /\ LowHalf(Pack(o, w, f)) = Pack(0, w, f)
<1>1. PICK s : s = Pack(o, w, f)
  OBVIOUS
<1>2. PICK l \in 0 .. OFFSET_ONE - 1 : l = w * FlagSpan + f
  BY LowPart
<1>3. o \in Nat /\ o + 1 <= OffsetSpan /\ w \in Nat /\ f \in Nat /\ f < 4
  BY DEF Offsets, Writers, Flags
<1>4. s = o * OFFSET_ONE + l /\ OFFSET_ONE \in Nat \ {0}
  BY <1>1, <1>2, Spans DEF Pack
<1>5. s \div OFFSET_ONE = o /\ s % OFFSET_ONE = l
  BY <1>3, <1>4, QuotientRest
<1>6. s \in 0 .. WordSpan - 1
  <2>1. (o + 1) * OFFSET_ONE <= OffsetSpan * OFFSET_ONE
    BY <1>3, <1>4, TimesSmaller
  <2>2. (o + 1) * OFFSET_ONE = o * OFFSET_ONE + OFFSET_ONE /\ o * OFFSET_ONE \in Nat
    BY <1>3, <1>4
  <2> QED BY <1>4, <2>1, <2>2, Spans
<1>7. PICK x \in Nat : s = x * FlagSpan + f
  <2>1. o * OFFSET_ONE = (o * WriterSpan) * FlagSpan
    BY <1>3, Spans
  <2>2. PICK y \in Nat : y = o * WriterSpan
    BY <1>3
  <2>3. (y + w) * FlagSpan = y * FlagSpan + w * FlagSpan
    BY <1>3, Spans
  <2>4. s = (y + w) * FlagSpan + f
    BY <1>2, <1>3, <1>4, <2>1, <2>2, <2>3, Spans
  <2>5. PICK z \in Nat : z = y + w
    BY <1>3
  <2>6. s = z * FlagSpan + f
    BY <2>4, <2>5
  <2> QED BY <2>6
<1>8. s % FlagSpan = f
  <2>1. f \in 0 .. FlagSpan - 1 /\ FlagSpan \in Nat \ {0}
    BY <1>3, Spans
  <2> QED BY <1>7, <2>1, QuotientRest
<1>9. PICK k \in Nat : s = 4 * k + f
  <2>1. PICK g \in Nat : FlagSpan = 4 * g
    BY Spans
  <2>2. x * FlagSpan = 4 * (x * g) /\ x * g \in Nat
    BY <2>1
  <2> QED BY <1>7, <2>2
<1>10. s % 4 = f /\ s % 2 = f % 2 /\ (s \div 2) % 2 = f \div 2
  BY <1>3, <1>9
<1>11. LowHalf(s) = l /\ Pack(0, w, f) = l
  <2>1. 0 * OFFSET_ONE = 0
    BY Spans
  <2> QED BY <1>2, <1>5, <2>1 DEF LowHalf, Pack
<1>12. state_writers(s) = w /\ state_offset(s) = o
  BY <1>2, <1>5, LowPart DEF state_writers, state_offset, WRITER_ONE
<1>13. f = 0 \/ f = 1 \/ f = 2 \/ f = 3
  BY <1>3
<1>14. /\ state_sealed(s) <=> f \in {1, 3}
       /\ state_flush_in_progress(s) <=> f \in {2, 3}
  BY <1>10, <1>13 DEF state_sealed, state_flush_in_progress
<1>15. s \in Packed
  BY <1>3, <1>6, <1>8 DEF Packed
<1> QED BY <1>1, <1>10, <1>11, <1>12, <1>14, <1>15

\* Every word with the unused bits zero is packed from its fields.
LEMMA Unpack ==
  ASSUME NEW s \in Packed
  PROVE  \E o \in Offsets, w \in Writers, f \in Flags : s = Pack(o, w, f)
<1>1. s \in Nat /\ s < WordSpan /\ s % FlagSpan < 4
  BY Spans DEF Packed
<1>2. PICK o \in Nat, l \in 0 .. OFFSET_ONE - 1 : s = o * OFFSET_ONE + l
  <2>1. PICK d \in Nat \ {0} : d = OFFSET_ONE
    BY Spans
  <2>2. s \div d \in Nat /\ s % d \in 0 .. d - 1 /\ s = (s \div d) * d + (s % d)
    BY <1>1, QuotientOf
  <2> QED BY <2>1, <2>2
<1>3. PICK w \in Nat, f \in 0 .. FlagSpan - 1 : l = w * FlagSpan + f
  <2>1. l \in Nat /\ FlagSpan \in Nat \ {0}
    BY Spans
  <2>2. /\ l \div FlagSpan \in Nat /\ l % FlagSpan \in 0 .. FlagSpan - 1
        /\ l = (l \div FlagSpan) * FlagSpan + (l % FlagSpan)
    BY <2>1, QuotientOf
  <2> QED BY <2>2
<1>4. o \in Offsets
  <2>1. ASSUME OffsetSpan <= o PROVE FALSE
    <3>1. OffsetSpan * OFFSET_ONE <= o * OFFSET_ONE
      BY <2>1, Spans, TimesSmaller
    <3>2. o * OFFSET_ONE \in Nat
      BY Spans
    <3> QED BY <1>1, <1>2, <3>1, <3>2, Spans
  <2> QED BY <2>1 DEF Offsets
<1>5. w \in Writers
  <2>1. ASSUME WriterSpan <= w PROVE FALSE
    <3>1. WriterSpan * FlagSpan <= w * FlagSpan
      BY <2>1, Spans, TimesSmaller
    <3>2. w * FlagSpan \in Nat
      BY Spans
    <3> QED BY <1>3, <3>1, <3>2, Spans
  <2> QED BY <2>1 DEF Writers
<1>6. s % FlagSpan = f
  <2>1. o * OFFSET_ONE = (o * WriterSpan) * FlagSpan
    BY Spans
  <2>2. PICK y \in Nat : y = o * WriterSpan
    OBVIOUS
  <2>3. (y + w) * FlagSpan = y * FlagSpan + w * FlagSpan
    BY Spans
  <2>4. s = (y + w) * FlagSpan + f /\ y + w \in Nat
    BY <1>2, <1>3, <2>1, <2>2, <2>3, Spans
  <2> QED BY <2>4, QuotientRest, Spans
<1>7. f \in Flags
  BY <1>1, <1>6 DEF Flags
<1>8. s = Pack(o, w, f)
  BY <1>2, <1>3 DEF Pack
<1> QED BY <1>4, <1>5, <1>7, <1>8

-----------------------------------------------------------------------------
(* The operations of the code on a packed word *)

LEMMA Wrap ==
  ASSUME NEW d \in Nat \ {0}, NEW x \in 0 .. d - 1
  PROVE  x % d = x /\ (x + d) % d = x
OBVIOUS

LEMMA PackNat ==
  ASSUME NEW o \in Offsets, NEW w \in Writers, NEW f \in Flags
  PROVE  /\ Pack(o, w, f) \in 0 .. WordSpan - 1
         /\ o * OFFSET_ONE \in Nat /\ w * FlagSpan \in Nat
<1>1. Pack(o, w, f) \in 0 .. WordSpan - 1
  BY PackFields DEF Packed
<1> QED BY <1>1, Spans DEF Offsets, Writers

\* Adding to the writers carries into the offset, and out of the word.
LEMMA AddOne ==
  ASSUME NEW o \in Offsets, NEW w \in Writers, NEW f \in Flags
  PROVE  Add(Pack(o, w, f), WRITER_ONE) =
           IF w + 1 < WriterSpan THEN Pack(o, w + 1, f)
           ELSE IF o + 1 < OffsetSpan THEN Pack(o + 1, 0, f) ELSE Pack(0, 0, f)
<1>0. o \in Nat /\ w \in Nat /\ f \in Nat /\ 0 \in Offsets /\ 0 \in Writers
  BY DEF Offsets, Writers, Flags
<1>1. PICK F \in Nat \ {0}, U \in Nat \ {0}, W \in Nat \ {0} :
        F = FlagSpan /\ U = OFFSET_ONE /\ W = WordSpan
  BY Spans
<1>2. (w + 1) * F = w * F + F /\ (o + 1) * U = o * U + U /\ 0 * F = 0 /\ 0 * U = 0
  BY <1>0
<1>3. CASE w + 1 < WriterSpan
  <2>1. w + 1 \in Writers
    BY <1>0, <1>3 DEF Writers
  <2>2. Pack(o, w, f) + F = Pack(o, w + 1, f)
    BY <1>0, <1>1, <1>2, PackNat DEF Pack
  <2>3. Pack(o, w + 1, f) \in 0 .. W - 1
    BY <1>1, <2>1, PackNat
  <2> QED BY <1>1, <1>3, <2>2, <2>3, Wrap DEF Add, WRITER_ONE
<1>4. CASE ~(w + 1 < WriterSpan)
  <2>1. w + 1 = WriterSpan
    BY <1>0, <1>4 DEF Writers
  <2>2. w * F + F = U
    BY <1>1, <1>2, <2>1, Spans
  <2>3. Pack(o, w, f) + F = (o + 1) * U + f
    BY <1>0, <1>1, <1>2, <2>2, PackNat DEF Pack
  <2>4. CASE o + 1 < OffsetSpan
    <3>1. o + 1 \in Offsets
      BY <1>0, <2>4 DEF Offsets
    <3>2. Pack(o + 1, 0, f) = (o + 1) * U + f
      BY <1>0, <1>1, <1>2 DEF Pack
    <3>3. Pack(o + 1, 0, f) \in 0 .. W - 1
      BY <1>0, <1>1, <3>1, PackNat
    <3> QED BY <1>1, <1>4, <2>3, <2>4, <3>2, <3>3, Wrap DEF Add, WRITER_ONE
  <2>5. CASE ~(o + 1 < OffsetSpan)
    <3>1. o + 1 = OffsetSpan
      BY <1>0, <2>5 DEF Offsets
    <3>2. (o + 1) * U + f = f + W
      BY <1>0, <1>1, <3>1, Spans
    <3>3. Pack(0, 0, f) = f /\ f \in 0 .. W - 1
      <4>1. Pack(0, 0, f) = f
        BY <1>0, <1>1, <1>2 DEF Pack
      <4>2. Pack(0, 0, f) \in 0 .. W - 1
        BY <1>0, <1>1, PackNat
      <4> QED BY <4>1, <4>2
    <3> QED BY <1>1, <1>4, <2>3, <2>5, <3>2, <3>3, Wrap DEF Add, WRITER_ONE
  <2> QED BY <2>4, <2>5
<1> QED BY <1>3, <1>4

\* Subtracting from the writers borrows from the offset, and from beyond the word.
LEMMA SubOne ==
  ASSUME NEW o \in Offsets, NEW w \in Writers, NEW f \in Flags
  PROVE  Sub(Pack(o, w, f), WRITER_ONE) =
           IF w > 0 THEN Pack(o, w - 1, f)
           ELSE IF o > 0 THEN Pack(o - 1, WriterSpan - 1, f)
                         ELSE Pack(OffsetSpan - 1, WriterSpan - 1, f)
<1>0. /\ o \in Nat /\ w \in Nat /\ f \in Nat
      /\ OffsetSpan - 1 \in Offsets /\ WriterSpan - 1 \in Writers
  BY DEF Offsets, Writers, Flags
<1>1. PICK F \in Nat \ {0}, U \in Nat \ {0}, W \in Nat \ {0} :
        F = FlagSpan /\ U = OFFSET_ONE /\ W = WordSpan
  BY Spans
<1>2. PICK v \in Nat : v = WriterSpan - 1
  OBVIOUS
<1>3. v * F + F = U
  <2>1. (v + 1) * F = v * F + F /\ v + 1 = WriterSpan
    BY <1>2
  <2> QED BY <1>1, <2>1, Spans
<1>4. Sub(Pack(o, w, f), WRITER_ONE) = (Pack(o, w, f) + (W - F)) % W
  BY <1>1 DEF Sub, WRITER_ONE
<1>5. CASE w > 0
  <2>1. PICK x \in Writers : x = w - 1 /\ w = x + 1 /\ x \in Nat
    BY <1>0, <1>5 DEF Writers
  <2>2. (x + 1) * F = x * F + F
    BY <2>1
  <2>3. Pack(o, w, f) = Pack(o, x, f) + F
    BY <1>0, <1>1, <2>1, <2>2, PackNat DEF Pack
  <2>4. Pack(o, x, f) \in 0 .. W - 1
    BY <1>1, PackNat
  <2>5. Pack(o, w, f) + (W - F) = Pack(o, x, f) + W
    BY <2>3, <2>4
  <2> QED BY <1>4, <1>5, <2>1, <2>4, <2>5, Wrap
<1>6. CASE w = 0
  <2>1. Pack(o, w, f) = o * U + f /\ o * U \in Nat
    <3>1. 0 * F = 0
      OBVIOUS
    <3> QED BY <1>0, <1>1, <1>6, <3>1, PackNat DEF Pack
  <2>2. CASE o > 0
    <3>1. PICK x \in Offsets : x = o - 1 /\ o = x + 1 /\ x \in Nat
      BY <1>0, <2>2 DEF Offsets
    <3>2. (x + 1) * U = x * U + U /\ x * U \in Nat
      BY <3>1
    <3>3. Pack(x, v, f) = x * U + (v * F + f) /\ Pack(x, v, f) \in 0 .. W - 1
      BY <1>0, <1>1, <1>2, PackNat DEF Pack
    <3>4. Pack(o, w, f) + (W - F) = Pack(x, v, f) + W
      <4>1. v * F \in Nat
        OBVIOUS
      <4> QED BY <1>0, <1>3, <2>1, <3>1, <3>2, <3>3, <4>1
    <3> QED BY <1>2, <1>4, <1>6, <2>2, <3>1, <3>3, <3>4, Wrap
  <2>3. CASE o = 0
    <3>1. PICK x \in Offsets : x = OffsetSpan - 1 /\ x + 1 = OffsetSpan /\ x \in Nat
      BY <1>0 DEF Offsets
    <3>2. (x + 1) * U = x * U + U /\ (x + 1) * U = W /\ x * U \in Nat /\ 0 * U = 0
      BY <1>1, <3>1, Spans
    <3>3. Pack(x, v, f) = x * U + (v * F + f) /\ Pack(x, v, f) \in 0 .. W - 1
      BY <1>0, <1>1, <1>2, PackNat DEF Pack
    <3>4. Pack(o, w, f) + (W - F) = Pack(x, v, f)
      <4>1. v * F \in Nat /\ Pack(o, w, f) = f
        BY <1>0, <2>1, <2>3, <3>2
      <4> QED BY <1>0, <1>3, <3>2, <3>3, <4>1
    <3> QED BY <1>2, <1>4, <1>6, <2>3, <3>1, <3>3, <3>4, Wrap
  <2> QED BY <1>0, <2>2, <2>3
<1> QED BY <1>0, <1>5, <1>6

\* Adding to the offset touches nothing else; the carry out of the word is lost.
LEMMA AddMany ==
  ASSUME NEW o \in Offsets, NEW w \in Writers, NEW f \in Flags, NEW n \in Offsets
  PROVE  Add(Pack(o, w, f), n * OFFSET_ONE) =
           IF o + n < OffsetSpan THEN Pack(o + n, w, f)
                                 ELSE Pack(o + n - OffsetSpan, w, f)
<1>0. o \in Nat /\ w \in Nat /\ f \in Nat /\ n \in Nat
  BY DEF Offsets, Writers, Flags
<1>1. PICK F \in Nat \ {0}, U \in Nat \ {0}, W \in Nat \ {0} :
        F = FlagSpan /\ U = OFFSET_ONE /\ W = WordSpan
  BY Spans
<1>2. (o + n) * U = o * U + n * U /\ o * U \in Nat /\ n * U \in Nat
  BY <1>0
<1>3. PICK l \in Nat : l = w * F + f
  BY <1>0
<1>4. Pack(o, w, f) + n * U = (o + n) * U + l
  BY <1>0, <1>1, <1>2, <1>3 DEF Pack
<1>5. CASE o + n < OffsetSpan
  <2>1. o + n \in Offsets
    BY <1>0, <1>5 DEF Offsets
  <2>2. Pack(o + n, w, f) = (o + n) * U + l /\ Pack(o + n, w, f) \in 0 .. W - 1
    BY <1>1, <1>3, <2>1, PackNat DEF Pack
  <2> QED BY <1>1, <1>4, <1>5, <2>2, Wrap DEF Add
<1>6. CASE ~(o + n < OffsetSpan)
  <2>1. PICK x \in Offsets : x = o + n - OffsetSpan /\ o + n = x + OffsetSpan /\ x \in Nat
    BY <1>0, <1>6 DEF Offsets
  <2>2. (x + OffsetSpan) * U = x * U + W
    BY <1>1, <2>1, Spans
  <2>3. Pack(x, w, f) = x * U + l /\ Pack(x, w, f) \in 0 .. W - 1
    BY <1>1, <1>3, <2>1, PackNat DEF Pack
  <2>4. Pack(o, w, f) + n * U = Pack(x, w, f) + W
    <3>1. x * U \in Nat
      BY <2>1
    <3> QED BY <1>4, <2>1, <2>2, <2>3, <3>1
  <2> QED BY <1>1, <1>6, <2>1, <2>3, <2>4, Wrap DEF Add
<1> QED BY <1>5, <1>6

\* The flags: a bit is set or cleared, and no other bit moves.
LEMMA FlagOps ==
  ASSUME NEW o \in Offsets, NEW w \in Writers, NEW f \in Flags
  PROVE  /\ OrSealed(Pack(o, w, f)) = Pack(o, w, IF f \in {1, 3} THEN f ELSE f + 1)
         /\ NandSealed(Pack(o, w, f)) = Pack(o, w, IF f \in {1, 3} THEN f - 1 ELSE f)
         /\ OrFlush(Pack(o, w, f)) = Pack(o, w, IF f \in {2, 3} THEN f ELSE f + 2)
         /\ NandFlush(Pack(o, w, f)) = Pack(o, w, IF f \in {2, 3} THEN f - 2 ELSE f)
<1>1. PICK l \in Nat : \A g \in Int : Pack(o, w, g) = l + g
  <2>1. o * OFFSET_ONE \in Nat /\ w * FlagSpan \in Nat
    BY PackNat
  <2>2. PICK a \in Nat, b \in Nat : a = o * OFFSET_ONE /\ b = w * FlagSpan
    BY <2>1
  <2>3. \A g \in Int : Pack(o, w, g) = (a + b) + g
    BY <2>2 DEF Pack
  <2>4. PICK c \in Nat : c = a + b
    OBVIOUS
  <2>5. \A g \in Int : Pack(o, w, g) = c + g
    BY <2>3, <2>4
  <2> QED BY <2>5
<1>2. f = 0 \/ f = 1 \/ f = 2 \/ f = 3
  BY DEF Flags
<1>3. /\ state_sealed(Pack(o, w, f)) <=> f \in {1, 3}
      /\ state_flush_in_progress(Pack(o, w, f)) <=> f \in {2, 3}
  BY PackFields
<1>4. Pack(o, w, f) = l + f
  BY <1>1, <1>2
<1>5. OrSealed(Pack(o, w, f)) = Pack(o, w, IF f \in {1, 3} THEN f ELSE f + 1)
  BY <1>1, <1>2, <1>3, <1>4 DEF OrSealed
<1>6. NandSealed(Pack(o, w, f)) = Pack(o, w, IF f \in {1, 3} THEN f - 1 ELSE f)
  BY <1>1, <1>2, <1>3, <1>4 DEF NandSealed
<1>7. OrFlush(Pack(o, w, f)) = Pack(o, w, IF f \in {2, 3} THEN f ELSE f + 2)
  BY <1>1, <1>2, <1>3, <1>4 DEF OrFlush
<1>8. NandFlush(Pack(o, w, f)) = Pack(o, w, IF f \in {2, 3} THEN f - 2 ELSE f)
  BY <1>1, <1>2, <1>3, <1>4 DEF NandFlush
<1> QED BY <1>5, <1>6, <1>7, <1>8

-----------------------------------------------------------------------------
(* The same operations on the fields *)

\* The fields of the word Pack(o, w, f).
Fields(o, w, f) == [offset |-> o, writers |-> w,
                    flushing |-> f \in {2, 3}, sealed |-> f \in {1, 3}]

LEMMA DecodePack ==
  ASSUME NEW o \in Offsets, NEW w \in Writers, NEW f \in Flags
  PROVE  Decode(Pack(o, w, f)) = Fields(o, w, f)
<1>1. PICK s : s = Pack(o, w, f)
  OBVIOUS
<1>2. state_offset(s) = o /\ state_writers(s) = w
  BY <1>1, PackFields
<1>3. state_sealed(s) = (f \in {1, 3}) /\ state_flush_in_progress(s) = (f \in {2, 3})
  BY <1>1, PackFields DEF state_sealed, state_flush_in_progress
<1> QED BY <1>1, <1>2, <1>3 DEF Decode, Fields

\* Two words that differ differ in a field: a compare_exchange on the word
\* is one on its fields.
LEMMA DecodeInjective ==
  ASSUME NEW s \in Packed, NEW r \in Packed, Decode(s) = Decode(r)
  PROVE  s = r
<1>1. PICK o \in Offsets, w \in Writers, f \in Flags : s = Pack(o, w, f)
  BY Unpack
<1>2. PICK p \in Offsets, v \in Writers, g \in Flags : r = Pack(p, v, g)
  BY Unpack
<1>3. Fields(o, w, f) = Fields(p, v, g)
  BY <1>1, <1>2, DecodePack
<1>4. o = p /\ w = v /\ (f \in {2, 3} <=> g \in {2, 3}) /\ (f \in {1, 3} <=> g \in {1, 3})
  BY <1>3 DEF Fields
<1>5. f = g
  BY <1>4 DEF Flags
<1> QED BY <1>1, <1>2, <1>4, <1>5

LEMMA DecodeOpen ==
  ASSUME NEW s \in Packed
  PROVE  s % 4 = 0 <=> Abstract!IsOpen(Decode(s))
<1>1. PICK o \in Offsets, w \in Writers, f \in Flags : s = Pack(o, w, f)
  BY Unpack
<1>2. s % 4 = f /\ Decode(s) = Fields(o, w, f)
  BY <1>1, PackFields, DecodePack
<1>3. Decode(s).sealed = (f \in {1, 3}) /\ Decode(s).flushing = (f \in {2, 3})
  BY <1>2 DEF Fields
<1>4. Abstract!IsOpen(Decode(s)) <=> f \notin {1, 3} /\ f \notin {2, 3}
  BY <1>3, Zenon DEF Abstract!IsOpen
<1> QED BY <1>2, <1>4 DEF Flags

LEMMA DecodeFields ==
  ASSUME NEW s
  PROVE  /\ Decode(s).offset = state_offset(s) /\ Decode(s).writers = state_writers(s)
         /\ Decode(s).sealed = state_sealed(s)
         /\ Decode(s).flushing = state_flush_in_progress(s)
BY DEF Decode

LEMMA DecodeZero == 0 \in Packed /\ Decode(0) = Abstract!ZeroWord
<1>1. 0 \in Offsets /\ 0 \in Writers /\ 0 \in Flags
  BY DEF Offsets, Writers, Flags
<1>2. Pack(0, 0, 0) = 0
  BY Spans DEF Pack
<1>3. 0 \in Packed /\ Decode(0) = Fields(0, 0, 0)
  BY <1>1, <1>2, PackFields, DecodePack
<1>4. Fields(0, 0, 0) = Abstract!ZeroWord
  <2>1. (0 \in {2, 3}) = FALSE /\ (0 \in {1, 3}) = FALSE
    OBVIOUS
  <2> QED BY <2>1, Zenon DEF Fields, Abstract!ZeroWord
<1> QED BY <1>3, <1>4

LEMMA DecodeAddWriter ==
  ASSUME NEW s \in Packed
  PROVE  /\ Add(s, WRITER_ONE) \in Packed
         /\ Decode(Add(s, WRITER_ONE)) = Abstract!AddWriter(Decode(s))
<1>1. PICK o \in Offsets, w \in Writers, f \in Flags : s = Pack(o, w, f)
  BY Unpack
<1>2. o \in Nat /\ w \in Nat /\ 0 \in Offsets /\ 0 \in Writers
  BY DEF Offsets, Writers
<1>3. Decode(s) = Fields(o, w, f)
  BY <1>1, DecodePack
<1>4. CASE w + 1 < WriterSpan
  <2>1. w + 1 \in Writers /\ Add(s, WRITER_ONE) = Pack(o, w + 1, f)
    BY <1>1, <1>2, <1>4, AddOne DEF Writers
  <2>2. Pack(o, w + 1, f) \in Packed /\ Decode(Pack(o, w + 1, f)) = Fields(o, w + 1, f)
    BY <2>1, PackFields, DecodePack
  <2>3. Abstract!AddWriter(Fields(o, w, f)) = Fields(o, w + 1, f)
    BY <1>2, <1>4 DEF Abstract!AddWriter, Fields
  <2> QED BY <1>3, <2>1, <2>2, <2>3
<1>5. CASE ~(w + 1 < WriterSpan)
  <2>1. PICK p \in Offsets : p = IF o + 1 < OffsetSpan THEN o + 1 ELSE 0
    BY <1>2 DEF Offsets
  <2>2. Add(s, WRITER_ONE) = Pack(p, 0, f)
    BY <1>1, <1>2, <1>5, <2>1, AddOne
  <2>3. Pack(p, 0, f) \in Packed /\ Decode(Pack(p, 0, f)) = Fields(p, 0, f)
    BY <1>2, PackFields, DecodePack
  <2>4. Abstract!WrapOffset(o + 1) = p
    BY <1>2, <2>1 DEF Abstract!WrapOffset, Offsets
  <2>5. Abstract!AddOffset(Fields(o, w, f), 1) = Fields(p, w, f)
    BY <2>4 DEF Abstract!AddOffset, Fields
  <2>6. Abstract!AddWriter(Fields(o, w, f)) = [Fields(p, w, f) EXCEPT !.writers = 0]
    BY <1>5, <2>5 DEF Abstract!AddWriter, Fields
  <2>7. Abstract!AddWriter(Fields(o, w, f)) = Fields(p, 0, f)
    BY <2>6 DEF Fields
  <2> QED BY <1>3, <2>2, <2>3, <2>7
<1> QED BY <1>4, <1>5

LEMMA DecodeSubWriter ==
  ASSUME NEW s \in Packed
  PROVE  /\ Sub(s, WRITER_ONE) \in Packed
         /\ Decode(Sub(s, WRITER_ONE)) = Abstract!SubWriter(Decode(s))
<1>1. PICK o \in Offsets, w \in Writers, f \in Flags : s = Pack(o, w, f)
  BY Unpack
<1>2. o \in Nat /\ w \in Nat
  BY DEF Offsets, Writers
<1>3. Decode(s) = Fields(o, w, f)
  BY <1>1, DecodePack
<1>4. CASE w > 0
  <2>1. w - 1 \in Writers /\ Sub(s, WRITER_ONE) = Pack(o, w - 1, f)
    BY <1>1, <1>2, <1>4, SubOne DEF Writers
  <2>2. Pack(o, w - 1, f) \in Packed /\ Decode(Pack(o, w - 1, f)) = Fields(o, w - 1, f)
    BY <2>1, PackFields, DecodePack
  <2>3. Abstract!SubWriter(Fields(o, w, f)) = Fields(o, w - 1, f)
    BY <1>2, <1>4 DEF Abstract!SubWriter, Fields
  <2> QED BY <1>3, <2>1, <2>2, <2>3
<1>5. CASE ~(w > 0)
  <2>1. PICK p \in Offsets : p = IF o > 0 THEN o - 1 ELSE OffsetSpan - 1
    BY <1>2 DEF Offsets
  <2>2. PICK v \in Writers : v = WriterSpan - 1
    BY DEF Writers
  <2>3. Sub(s, WRITER_ONE) = Pack(p, v, f)
    BY <1>1, <1>2, <1>5, <2>1, <2>2, SubOne
  <2>4. Pack(p, v, f) \in Packed /\ Decode(Pack(p, v, f)) = Fields(p, v, f)
    BY PackFields, DecodePack
  <2>5. Abstract!WrapOffset(o + (OffsetSpan - 1)) = p
    BY <1>2, <2>1 DEF Abstract!WrapOffset, Offsets
  <2>6. Abstract!AddOffset(Fields(o, w, f), OffsetSpan - 1) = Fields(p, w, f)
    BY <2>5 DEF Abstract!AddOffset, Fields
  <2>7. Abstract!SubWriter(Fields(o, w, f)) = [Fields(p, w, f) EXCEPT !.writers = v]
    BY <1>5, <2>2, <2>6 DEF Abstract!SubWriter, Fields
  <2>8. Abstract!SubWriter(Fields(o, w, f)) = Fields(p, v, f)
    BY <2>7 DEF Fields
  <2> QED BY <1>3, <2>3, <2>4, <2>8
<1> QED BY <1>4, <1>5

LEMMA DecodeAddOffset ==
  ASSUME NEW s \in Packed, NEW n \in Offsets
  PROVE  /\ Add(s, n * OFFSET_ONE) \in Packed
         /\ Decode(Add(s, n * OFFSET_ONE)) = Abstract!AddOffset(Decode(s), n)
<1>1. PICK o \in Offsets, w \in Writers, f \in Flags : s = Pack(o, w, f)
  BY Unpack
<1>2. o \in Nat /\ n \in Nat
  BY DEF Offsets
<1>3. PICK p \in Offsets : p = IF o + n < OffsetSpan THEN o + n ELSE o + n - OffsetSpan
  <2>1. o < OffsetSpan /\ n < OffsetSpan
    BY DEF Offsets
  <2>2. (IF o + n < OffsetSpan THEN o + n ELSE o + n - OffsetSpan) \in Offsets
    BY <1>2, <2>1 DEF Offsets
  <2> QED BY <2>2
<1>4. Add(s, n * OFFSET_ONE) = Pack(p, w, f)
  BY <1>1, <1>3, AddMany
<1>5. Pack(p, w, f) \in Packed /\ Decode(Pack(p, w, f)) = Fields(p, w, f)
  BY PackFields, DecodePack
<1>6. Abstract!WrapOffset(o + n) = p
  BY <1>3 DEF Abstract!WrapOffset
<1>7. Abstract!AddOffset(Fields(o, w, f), n) = Fields(p, w, f)
  BY <1>6 DEF Abstract!AddOffset, Fields
<1>8. Decode(s) = Fields(o, w, f)
  BY <1>1, DecodePack
<1> QED BY <1>4, <1>5, <1>7, <1>8

LEMMA DecodeReserved ==
  ASSUME NEW s \in Packed, NEW n \in Offsets
  PROVE  /\ Add(Add(s, n * OFFSET_ONE), WRITER_ONE) \in Packed
         /\ Decode(Add(Add(s, n * OFFSET_ONE), WRITER_ONE)) = Abstract!Reserved(Decode(s), n)
<1>1. PICK r \in Packed : r = Add(s, n * OFFSET_ONE) /\ Decode(r) = Abstract!AddOffset(Decode(s), n)
  BY DecodeAddOffset
<1>2. Add(r, WRITER_ONE) \in Packed /\ Decode(Add(r, WRITER_ONE)) = Abstract!AddWriter(Decode(r))
  BY DecodeAddWriter
<1> QED BY <1>1, <1>2 DEF Abstract!Reserved

LEMMA DecodeFlags ==
  ASSUME NEW s \in Packed
  PROVE  /\ OrSealed(s) \in Packed /\ Decode(OrSealed(s)) = Abstract!SetSealed(Decode(s))
         /\ NandSealed(s) \in Packed /\ Decode(NandSealed(s)) = Abstract!ClearSealed(Decode(s))
         /\ OrFlush(s) \in Packed /\ Decode(OrFlush(s)) = Abstract!SetFlushing(Decode(s))
         /\ NandFlush(s) \in Packed /\ Decode(NandFlush(s)) = Abstract!ClearFlushing(Decode(s))
<1>1. PICK o \in Offsets, w \in Writers, f \in Flags : s = Pack(o, w, f)
  BY Unpack
<1>2. f = 0 \/ f = 1 \/ f = 2 \/ f = 3
  BY DEF Flags
<1>3. Decode(s) = Fields(o, w, f)
  BY <1>1, DecodePack
<1>4. PICK b, c : b = (f \in {2, 3}) /\ c = (f \in {1, 3})
  BY Zenon
<1>5. Fields(o, w, f) = [offset |-> o, writers |-> w, flushing |-> b, sealed |-> c]
  BY <1>4, Zenon DEF Fields
<1>6. \A x : [[offset |-> o, writers |-> w, flushing |-> b, sealed |-> c] EXCEPT !.sealed = x]
               = [offset |-> o, writers |-> w, flushing |-> b, sealed |-> x]
  OBVIOUS
<1>7. \A x : [[offset |-> o, writers |-> w, flushing |-> b, sealed |-> c] EXCEPT !.flushing = x]
               = [offset |-> o, writers |-> w, flushing |-> x, sealed |-> c]
  OBVIOUS
<1>8. OrSealed(s) \in Packed /\ Decode(OrSealed(s)) = Abstract!SetSealed(Decode(s))
  <2>1. PICK g \in Flags : g = IF f \in {1, 3} THEN f ELSE f + 1
    BY <1>2 DEF Flags
  <2>2. OrSealed(s) = Pack(o, w, g)
    BY <1>1, <2>1, FlagOps
  <2>3. Pack(o, w, g) \in Packed /\ Decode(Pack(o, w, g)) = Fields(o, w, g)
    BY PackFields, DecodePack
  <2>4. (g \in {2, 3}) = (f \in {2, 3}) /\ (g \in {1, 3}) = TRUE
    BY <1>2, <2>1
  <2>5. Fields(o, w, g) = Abstract!SetSealed(Fields(o, w, f))
    <3>1. Fields(o, w, g) = [offset |-> o, writers |-> w, flushing |-> b, sealed |-> TRUE]
      BY <1>4, <2>4, Zenon DEF Fields
    <3>2. Abstract!SetSealed([offset |-> o, writers |-> w, flushing |-> b, sealed |-> c])
            = [offset |-> o, writers |-> w, flushing |-> b, sealed |-> TRUE]
      BY <1>6, <1>7, Zenon DEF Abstract!SetSealed
    <3> QED BY <1>5, <3>1, <3>2, Zenon
  <2> QED BY <1>3, <2>2, <2>3, <2>5
<1>9. NandSealed(s) \in Packed /\ Decode(NandSealed(s)) = Abstract!ClearSealed(Decode(s))
  <2>1. PICK g \in Flags : g = IF f \in {1, 3} THEN f - 1 ELSE f
    BY <1>2 DEF Flags
  <2>2. NandSealed(s) = Pack(o, w, g)
    BY <1>1, <2>1, FlagOps
  <2>3. Pack(o, w, g) \in Packed /\ Decode(Pack(o, w, g)) = Fields(o, w, g)
    BY PackFields, DecodePack
  <2>4. (g \in {2, 3}) = (f \in {2, 3}) /\ (g \in {1, 3}) = FALSE
    BY <1>2, <2>1
  <2>5. Fields(o, w, g) = Abstract!ClearSealed(Fields(o, w, f))
    <3>1. Fields(o, w, g) = [offset |-> o, writers |-> w, flushing |-> b, sealed |-> FALSE]
      BY <1>4, <2>4, Zenon DEF Fields
    <3>2. Abstract!ClearSealed([offset |-> o, writers |-> w, flushing |-> b, sealed |-> c])
            = [offset |-> o, writers |-> w, flushing |-> b, sealed |-> FALSE]
      BY <1>6, <1>7, Zenon DEF Abstract!ClearSealed
    <3> QED BY <1>5, <3>1, <3>2, Zenon
  <2> QED BY <1>3, <2>2, <2>3, <2>5
<1>10. OrFlush(s) \in Packed /\ Decode(OrFlush(s)) = Abstract!SetFlushing(Decode(s))
  <2>1. PICK g \in Flags : g = IF f \in {2, 3} THEN f ELSE f + 2
    BY <1>2 DEF Flags
  <2>2. OrFlush(s) = Pack(o, w, g)
    BY <1>1, <2>1, FlagOps
  <2>3. Pack(o, w, g) \in Packed /\ Decode(Pack(o, w, g)) = Fields(o, w, g)
    BY PackFields, DecodePack
  <2>4. (g \in {2, 3}) = TRUE /\ (g \in {1, 3}) = (f \in {1, 3})
    BY <1>2, <2>1
  <2>5. Fields(o, w, g) = Abstract!SetFlushing(Fields(o, w, f))
    <3>1. Fields(o, w, g) = [offset |-> o, writers |-> w, flushing |-> TRUE, sealed |-> c]
      BY <1>4, <2>4, Zenon DEF Fields
    <3>2. Abstract!SetFlushing([offset |-> o, writers |-> w, flushing |-> b, sealed |-> c])
            = [offset |-> o, writers |-> w, flushing |-> TRUE, sealed |-> c]
      BY <1>6, <1>7, Zenon DEF Abstract!SetFlushing
    <3> QED BY <1>5, <3>1, <3>2, Zenon
  <2> QED BY <1>3, <2>2, <2>3, <2>5
<1>11. NandFlush(s) \in Packed /\ Decode(NandFlush(s)) = Abstract!ClearFlushing(Decode(s))
  <2>1. PICK g \in Flags : g = IF f \in {2, 3} THEN f - 2 ELSE f
    BY <1>2 DEF Flags
  <2>2. NandFlush(s) = Pack(o, w, g)
    BY <1>1, <2>1, FlagOps
  <2>3. Pack(o, w, g) \in Packed /\ Decode(Pack(o, w, g)) = Fields(o, w, g)
    BY PackFields, DecodePack
  <2>4. (g \in {2, 3}) = FALSE /\ (g \in {1, 3}) = (f \in {1, 3})
    BY <1>2, <2>1
  <2>5. Fields(o, w, g) = Abstract!ClearFlushing(Fields(o, w, f))
    <3>1. Fields(o, w, g) = [offset |-> o, writers |-> w, flushing |-> FALSE, sealed |-> c]
      BY <1>4, <2>4, Zenon DEF Fields
    <3>2. Abstract!ClearFlushing([offset |-> o, writers |-> w, flushing |-> b, sealed |-> c])
            = [offset |-> o, writers |-> w, flushing |-> FALSE, sealed |-> c]
      BY <1>6, <1>7, Zenon DEF Abstract!ClearFlushing
    <3> QED BY <1>5, <3>1, <3>2, Zenon
  <2> QED BY <1>3, <2>2, <2>3, <2>5
<1> QED BY <1>8, <1>9, <1>10, <1>11

LEMMA DecodeLowHalf ==
  ASSUME NEW s \in Packed
  PROVE  LowHalf(s) \in Packed /\ Decode(LowHalf(s)) = Abstract!ZeroOffset(Decode(s))
<1>1. PICK o \in Offsets, w \in Writers, f \in Flags : s = Pack(o, w, f)
  BY Unpack
<1>2. 0 \in Offsets
  BY DEF Offsets
<1>3. LowHalf(s) = Pack(0, w, f)
  BY <1>1, PackFields
<1>4. Pack(0, w, f) \in Packed /\ Decode(Pack(0, w, f)) = Fields(0, w, f)
  BY <1>2, PackFields, DecodePack
<1>5. Fields(0, w, f) = Abstract!ZeroOffset(Fields(o, w, f))
  BY DEF Abstract!ZeroOffset, Fields
<1> QED BY <1>1, <1>3, <1>4, <1>5, DecodePack

-----------------------------------------------------------------------------
(* The invariant and the steps *)

\* The word, and every copy of it, has its unused bits zero; a call asks for
\* no more bytes than the buffer has, so an offset field can hold them.
PInv ==
  /\ word \in Packed
  /\ seen \in [Threads -> Packed]
  /\ size \in [Threads -> 0 .. Block]

LEMMA SizeIsOffset == 0 .. Block \subseteq Offsets
BY DEF Offsets

LEMMA SeenStep ==
  ASSUME PInv, NEW t \in Threads, NEW s \in Packed, seen' = [seen EXCEPT ![t] = s]
  PROVE  /\ seen' \in [Threads -> Packed]
         /\ [u \in Threads |-> Decode(seen'[u])] =
              [[u \in Threads |-> Decode(seen[u])] EXCEPT ![t] = Decode(s)]
<1>1. seen \in [Threads -> Packed]
  BY DEF PInv
<1>2. seen' \in [Threads -> Packed] /\ seen'[t] = s
      /\ \A u \in Threads : u # t => seen'[u] = seen[u]
  BY <1>1
<1>3. \A u \in Threads : Decode(seen'[u]) = IF u = t THEN Decode(s) ELSE Decode(seen[u])
  BY <1>2
<1> QED BY <1>2, <1>3

LEMMA ReturnStep ==
  ASSUME PInv, NEW t \in Threads, Return(t)
  PROVE  /\ Abstract!Return(t)
         /\ seen' \in [Threads -> Packed] /\ size' \in [Threads -> 0 .. Block]
<1>1. 0 \in Packed /\ Decode(0) = Abstract!ZeroWord
  BY DecodeZero
<1>2. /\ seen' \in [Threads -> Packed]
      /\ [u \in Threads |-> Decode(seen'[u])] =
           [[u \in Threads |-> Decode(seen[u])] EXCEPT ![t] = Decode(0)]
  BY <1>1, SeenStep DEF Return
<1>3. size' \in [Threads -> 0 .. Block]
  BY DEF PInv, Return
<1>4. [u \in Threads |-> Decode(seen'[u])] =
        [[u \in Threads |-> Decode(seen[u])] EXCEPT ![t] = Abstract!ZeroWord]
  BY <1>1, <1>2, Zenon
<1>5. Abstract!Return(t)
  BY <1>4, Zenon DEF Return, Abstract!Return
<1> QED BY <1>2, <1>3, <1>5

LEMMA ReserveLoadStep ==
  ASSUME PInv, NEW t \in Threads, NEW n \in Sizes, ReserveLoad(t, n)
  PROVE  PInv' /\ Abstract!ReserveLoad(t, n)
<1>1. word \in Packed /\ seen' = [seen EXCEPT ![t] = word]
  BY DEF PInv, ReserveLoad
<1>2. /\ seen' \in [Threads -> Packed]
      /\ [u \in Threads |-> Decode(seen'[u])] =
           [[u \in Threads |-> Decode(seen[u])] EXCEPT ![t] = Decode(word)]
  BY <1>1, SeenStep
<1>3. PInv'
  BY <1>2 DEF PInv, ReserveLoad
<1>4. Abstract!IsOpen(Decode(word)) /\ Decode(word).offset = state_offset(word)
  BY <1>1, DecodeOpen, DecodeFields DEF ReserveLoad
<1>5. Decode(word).offset + n <= Block
  BY <1>4 DEF ReserveLoad
<1>6. Decode(word)' = Decode(word)
  BY DEF ReserveLoad
<1>7. Abstract!ReserveLoad(t, n)
  BY <1>2, <1>4, <1>5, <1>6, Zenon DEF ReserveLoad, Abstract!ReserveLoad
<1> QED BY <1>3, <1>7

LEMMA ReserveCasStep ==
  ASSUME PInv, NEW t \in Threads, ReserveCas(t)
  PROVE  PInv' /\ Abstract!ReserveCas(t)
<1>1. word \in Packed /\ seen[t] \in Packed /\ size[t] \in Offsets
  BY SizeIsOffset DEF PInv
<1>2. [u \in Threads |-> Decode(seen[u])][t] = Decode(seen[t])
  OBVIOUS
<1>3. CASE word = seen[t]
  <2>1. /\ word' = Add(Add(seen[t], size[t] * OFFSET_ONE), WRITER_ONE)
        /\ off' = [off EXCEPT ![t] = state_offset(seen[t])]
        /\ pc' = [pc EXCEPT ![t] = "copy"]
        /\ UNCHANGED <<seen, size, copies>> /\ pc[t] = "cas"
    BY <1>3 DEF ReserveCas
  <2>2. word' \in Packed /\ Decode(word') = Abstract!Reserved(Decode(seen[t]), size[t])
    BY <1>1, <2>1, DecodeReserved
  <2>3. PInv'
    BY <2>1, <2>2 DEF PInv
  <2>4. Decode(word) = Decode(seen[t]) /\ Decode(seen[t]).offset = state_offset(seen[t])
    BY <1>3, DecodeFields
  <2>5. [u \in Threads |-> Decode(seen'[u])] = [u \in Threads |-> Decode(seen[u])]
    BY <2>1
  <2>6. Abstract!ReserveCas(t)
    BY <1>2, <2>1, <2>2, <2>4, <2>5, Zenon DEF Abstract!ReserveCas
  <2> QED BY <2>3, <2>6
<1>4. CASE word # seen[t]
  <2>1. Return(t) /\ UNCHANGED <<word, copies>> /\ pc[t] = "cas"
    BY <1>4 DEF ReserveCas
  <2>2. /\ Abstract!Return(t)
        /\ seen' \in [Threads -> Packed] /\ size' \in [Threads -> 0 .. Block]
    BY <2>1, ReturnStep
  <2>3. PInv'
    BY <1>1, <2>1, <2>2 DEF PInv
  <2>4. Decode(word) # Decode(seen[t])
    BY <1>1, <1>4, DecodeInjective
  <2>5. Decode(word') = Decode(word)
    BY <2>1
  <2>6. Abstract!ReserveCas(t)
    BY <1>2, <2>1, <2>2, <2>4, <2>5, Zenon DEF Abstract!ReserveCas
  <2> QED BY <2>3, <2>6
<1> QED BY <1>3, <1>4

LEMMA WriteStep ==
  ASSUME PInv, NEW t \in Threads, Write(t)
  PROVE  PInv' /\ Abstract!Write(t)
<1>1. PInv'
  BY DEF PInv, Write
<1>2. /\ Decode(word') = Decode(word)
      /\ [u \in Threads |-> Decode(seen'[u])] = [u \in Threads |-> Decode(seen[u])]
  BY DEF Write
<1>3. Abstract!Write(t)
  BY <1>2, Zenon DEF Write, Abstract!Write, Abstract!Region
<1> QED BY <1>1, <1>3

LEMMA DecrementWritersStep ==
  ASSUME PInv, NEW t \in Threads, DecrementWriters(t)
  PROVE  PInv' /\ Abstract!DecrementWriters(t)
<1>1. word \in Packed /\ word' = Sub(word, WRITER_ONE) /\ Return(t)
  BY DEF PInv, DecrementWriters
<1>2. word' \in Packed /\ Decode(word') = Abstract!SubWriter(Decode(word))
  BY <1>1, DecodeSubWriter
<1>3. /\ Abstract!Return(t)
      /\ seen' \in [Threads -> Packed] /\ size' \in [Threads -> 0 .. Block]
  BY <1>1, ReturnStep
<1>4. PInv'
  BY <1>2, <1>3 DEF PInv
<1>5. Abstract!DecrementWriters(t)
  BY <1>2, <1>3, Zenon DEF DecrementWriters, Abstract!DecrementWriters
<1> QED BY <1>4, <1>5

LEMMA IncrementWritersStep ==
  ASSUME PInv, NEW t \in Threads, IncrementWriters(t)
  PROVE  PInv' /\ Abstract!IncrementWriters(t)
<1>1. word \in Packed /\ word' = Add(word, WRITER_ONE)
  BY DEF PInv, IncrementWriters
<1>2. word' \in Packed /\ Decode(word') = Abstract!AddWriter(Decode(word))
  BY <1>1, DecodeAddWriter
<1>3. PInv'
  BY <1>2 DEF PInv, IncrementWriters
<1>4. [u \in Threads |-> Decode(seen'[u])] = [u \in Threads |-> Decode(seen[u])]
  BY DEF IncrementWriters
<1>5. Abstract!IncrementWriters(t)
  BY <1>2, <1>4, Zenon DEF IncrementWriters, Abstract!IncrementWriters
<1> QED BY <1>3, <1>5

LEMMA FlagStep ==
  ASSUME PInv, NEW t \in Threads, Flag(t)
  PROVE  PInv' /\ (\/ Abstract!Seal(t) \/ Abstract!SetFlushInProgress(t)
                   \/ Abstract!ClearFlushInProgress(t))
<1>1. word \in Packed
  BY DEF PInv
<1>2. /\ pc[t] = "idle" /\ UNCHANGED <<copies, pc, seen, size, off>>
      /\ word' = OrSealed(word) \/ word' = OrFlush(word) \/ word' = NandFlush(word)
  BY DEF Flag
<1>3. [u \in Threads |-> Decode(seen'[u])] = [u \in Threads |-> Decode(seen[u])]
  BY <1>2
<1>4. CASE word' = OrSealed(word)
  <2>1. word' \in Packed /\ Decode(word') = Abstract!SetSealed(Decode(word))
    BY <1>1, <1>4, DecodeFlags
  <2>2. PInv'
    BY <1>2, <2>1 DEF PInv
  <2>3. Abstract!Seal(t)
    BY <1>2, <1>3, <2>1, Zenon DEF Abstract!Seal
  <2> QED BY <2>2, <2>3
<1>5. CASE word' = OrFlush(word)
  <2>1. word' \in Packed /\ Decode(word') = Abstract!SetFlushing(Decode(word))
    BY <1>1, <1>5, DecodeFlags
  <2>2. PInv'
    BY <1>2, <2>1 DEF PInv
  <2>3. Abstract!SetFlushInProgress(t)
    BY <1>2, <1>3, <2>1, Zenon DEF Abstract!SetFlushInProgress
  <2> QED BY <2>2, <2>3
<1>6. CASE word' = NandFlush(word)
  <2>1. word' \in Packed /\ Decode(word') = Abstract!ClearFlushing(Decode(word))
    BY <1>1, <1>6, DecodeFlags
  <2>2. PInv'
    BY <1>2, <2>1 DEF PInv
  <2>3. Abstract!ClearFlushInProgress(t)
    BY <1>2, <1>3, <2>1, Zenon DEF Abstract!ClearFlushInProgress
  <2> QED BY <2>2, <2>3
<1> QED BY <1>2, <1>4, <1>5, <1>6

LEMMA UnsealLoadStep ==
  ASSUME PInv, NEW t \in Threads, UnsealLoad(t)
  PROVE  PInv' /\ Abstract!UnsealLoad(t)
<1>1. word \in Packed /\ seen' = [seen EXCEPT ![t] = word]
  BY DEF PInv, UnsealLoad
<1>2. /\ seen' \in [Threads -> Packed]
      /\ [u \in Threads |-> Decode(seen'[u])] =
           [[u \in Threads |-> Decode(seen[u])] EXCEPT ![t] = Decode(word)]
  BY <1>1, SeenStep
<1>3. PInv'
  BY <1>2 DEF PInv, UnsealLoad
<1>4. Decode(word).writers = 0
  BY DecodeFields DEF UnsealLoad
<1>5. ~Decode(word).flushing /\ Decode(word).sealed
  BY DecodeFields, Zenon DEF UnsealLoad
<1>6. Decode(word') = Decode(word)
  BY DEF UnsealLoad
<1>7. Abstract!UnsealLoad(t)
  BY <1>2, <1>4, <1>5, <1>6, Zenon DEF UnsealLoad, Abstract!UnsealLoad
<1> QED BY <1>3, <1>7

LEMMA UnsealCasStep ==
  ASSUME PInv, NEW t \in Threads, UnsealCas(t)
  PROVE  PInv' /\ Abstract!UnsealCas(t)
<1>1. /\ word \in Packed /\ seen[t] \in Packed /\ pc[t] = "unseal"
      /\ Return(t) /\ copies' = copies
      /\ word' = IF word = seen[t] THEN NandSealed(seen[t]) ELSE word
  BY DEF PInv, UnsealCas
<1>2. /\ Abstract!Return(t)
      /\ seen' \in [Threads -> Packed] /\ size' \in [Threads -> 0 .. Block]
  BY <1>1, ReturnStep
<1>3. [u \in Threads |-> Decode(seen[u])][t] = Decode(seen[t])
  OBVIOUS
<1>4. CASE word = seen[t]
  <2>1. word' \in Packed /\ Decode(word') = Abstract!ClearSealed(Decode(seen[t]))
    BY <1>1, <1>4, DecodeFlags
  <2>2. PInv'
    BY <1>2, <2>1 DEF PInv
  <2>3. Decode(word) = Decode(seen[t])
    BY <1>4
  <2>4. Abstract!UnsealCas(t)
    BY <1>1, <1>2, <1>3, <2>1, <2>3, Zenon DEF Abstract!UnsealCas
  <2> QED BY <2>2, <2>4
<1>5. CASE word # seen[t]
  <2>1. Decode(word) # Decode(seen[t])
    BY <1>1, <1>5, DecodeInjective
  <2>2. word' = word /\ Decode(word') = Decode(word)
    BY <1>1, <1>5
  <2>3. PInv'
    BY <1>1, <1>2, <2>2 DEF PInv
  <2>4. Abstract!UnsealCas(t)
    BY <1>1, <1>2, <1>3, <2>1, <2>2, Zenon DEF Abstract!UnsealCas
  <2> QED BY <2>3, <2>4
<1> QED BY <1>4, <1>5

LEMMA IncrementOffsetStep ==
  ASSUME PInv, NEW n \in Sizes, IncrementOffset(n)
  PROVE  PInv' /\ Abstract!IncrementOffset(n)
<1>1. /\ word \in Packed /\ n \in Offsets
      /\ word' = Add(word, n * OFFSET_ONE) /\ Quiescent
      /\ UNCHANGED <<pc, seen, size, off>>
  BY SizeIsOffset DEF PInv, IncrementOffset
<1>2. word' \in Packed /\ Decode(word') = Abstract!AddOffset(Decode(word), n)
  BY <1>1, DecodeAddOffset
<1>3. PInv'
  BY <1>1, <1>2 DEF PInv
<1>4. Decode(word).offset = state_offset(word)
  BY DecodeFields
<1>5. /\ Decode(word).offset + n <= Block
      /\ copies' = [i \in 0 .. Block - 1 |->
                      IF i \in Decode(word).offset .. Decode(word).offset + n - 1
                      THEN copies[i] + 1 ELSE copies[i]]
  BY <1>4, Zenon DEF IncrementOffset
<1>6. [u \in Threads |-> Decode(seen'[u])] = [u \in Threads |-> Decode(seen[u])]
  BY <1>1
<1>7. Abstract!IncrementOffset(n)
  BY <1>1, <1>2, <1>5, <1>6, Zenon DEF Abstract!IncrementOffset, Quiescent, Abstract!Quiescent
<1> QED BY <1>3, <1>7

LEMMA ResetOffsetStep ==
  ASSUME PInv, ResetOffset
  PROVE  PInv' /\ Abstract!ResetOffset
<1>1. /\ word \in Packed /\ word' = LowHalf(word) /\ Quiescent
      /\ UNCHANGED <<pc, seen, size, off>>
  BY DEF PInv, ResetOffset
<1>2. word' \in Packed /\ Decode(word') = Abstract!ZeroOffset(Decode(word))
  BY <1>1, DecodeLowHalf
<1>3. PInv'
  BY <1>1, <1>2 DEF PInv
<1>4. [u \in Threads |-> Decode(seen'[u])] = [u \in Threads |-> Decode(seen[u])]
  BY <1>1
<1>5. Abstract!ResetOffset
  BY <1>1, <1>2, <1>4, Zenon DEF ResetOffset, Abstract!ResetOffset, Quiescent, Abstract!Quiescent
<1> QED BY <1>3, <1>5

LEMMA PInit == Init => PInv /\ Abstract!Init
<1> SUFFICES ASSUME Init PROVE PInv /\ Abstract!Init
  OBVIOUS
<1>1. 0 \in Packed /\ Decode(0) = Abstract!ZeroWord
  BY DecodeZero
<1>2. PInv
  BY <1>1 DEF Init, PInv
<1>3. Decode(word) = Abstract!ZeroWord
  BY <1>1 DEF Init
<1>4. \A t \in Threads : Decode(seen[t]) = Abstract!ZeroWord
  BY <1>1 DEF Init
<1>5. [t \in Threads |-> Decode(seen[t])] = [t \in Threads |-> Abstract!ZeroWord]
  BY <1>4
<1>6. Abstract!Init
  BY <1>3, <1>5, Zenon DEF Init, Abstract!Init
<1> QED BY <1>2, <1>6

\* Every step keeps the invariant and is the step of FlushBuffer on the fields.
LEMMA PNext ==
  ASSUME PInv, [Next]_vars
  PROVE  PInv' /\ [Abstract!Next]_(Abstract!vars)
<1>1. CASE UNCHANGED vars
  <2>1. UNCHANGED <<word, copies, pc, seen, size, off>>
    BY <1>1 DEF vars
  <2>2. PInv'
    BY <2>1 DEF PInv
  <2>3. /\ Decode(word') = Decode(word)
        /\ [u \in Threads |-> Decode(seen'[u])] = [u \in Threads |-> Decode(seen[u])]
    BY <2>1
  <2>4. UNCHANGED Abstract!vars
    BY <2>1, <2>3, Zenon DEF Abstract!vars
  <2> QED BY <2>2, <2>4
<1>2. ASSUME NEW t \in Threads, Step(t) PROVE PInv' /\ Abstract!Next
  <2> SUFFICES PInv' /\ Abstract!Step(t)
    BY DEF Abstract!Next
  <2>1. ASSUME NEW n \in Sizes, ReserveLoad(t, n) PROVE PInv' /\ Abstract!Step(t)
    BY <2>1, ReserveLoadStep DEF Abstract!Step
  <2>2. CASE ReserveCas(t)
    BY <2>2, ReserveCasStep DEF Abstract!Step
  <2>3. CASE Write(t)
    BY <2>3, WriteStep DEF Abstract!Step
  <2>4. CASE DecrementWriters(t)
    BY <2>4, DecrementWritersStep DEF Abstract!Step
  <2>5. CASE IncrementWriters(t)
    BY <2>5, IncrementWritersStep DEF Abstract!Step
  <2>6. CASE Flag(t)
    BY <2>6, FlagStep DEF Abstract!Step
  <2>7. CASE UnsealLoad(t)
    BY <2>7, UnsealLoadStep DEF Abstract!Step
  <2>8. CASE UnsealCas(t)
    BY <2>8, UnsealCasStep DEF Abstract!Step
  <2> QED BY <1>2, <2>1, <2>2, <2>3, <2>4, <2>5, <2>6, <2>7, <2>8 DEF Step
<1>3. ASSUME NEW n \in Sizes, IncrementOffset(n) PROVE PInv' /\ Abstract!Next
  BY <1>3, IncrementOffsetStep DEF Abstract!Next
<1>4. CASE ResetOffset
  BY <1>4, ResetOffsetStep DEF Abstract!Next
<1> QED BY <1>1, <1>2, <1>3, <1>4 DEF Next

-----------------------------------------------------------------------------
(* Theorems *)

\* PInv is an invariant: no wrapping_add, fetch_sub or flag update of the code
\* makes a word that is more than its four fields.
THEOREM InvCorrect == Spec => []PInv
<1>1. Init => PInv
  BY PInit
<1>2. PInv /\ [Next]_vars => PInv'
  BY PNext
<1> QED BY <1>1, <1>2, PTL DEF Spec

\* TypeOK: no operation of the code leaves the 64 bits, whatever number of
\* threads calls increment_writers and decrement_writers.
THEOREM TypeCorrect == Spec => []TypeOK
<1>1. PInv => TypeOK
  <2>1. Packed \subseteq 0 .. WordSpan - 1
    BY DEF Packed
  <2> QED BY <2>1 DEF PInv, TypeOK
<1> QED BY <1>1, InvCorrect, PTL

\* ReservedBitsZero: the six bits between the flags and the writer count are
\* never set, by a carry, a borrow or a flag, in the word or in a loaded copy.
THEOREM ReservedCorrect == Spec => []ReservedBitsZero
<1>1. PInv => ReservedBitsZero
  <2> SUFFICES ASSUME PInv, NEW s \in {word} \cup {seen[t] : t \in Threads}
               PROVE  s % FlagSpan < 4
    BY DEF ReservedBitsZero
  <2>1. s \in Packed
    BY DEF PInv
  <2> QED BY <2>1 DEF Packed
<1> QED BY <1>1, InvCorrect, PTL

\* ImplementsFlushBuffer: shifts, masks, wrapping arithmetic and
\* compare_exchange on the integer do to its four fields what FlushBuffer says,
\* carries out of the writer count and borrows from the offset included.
THEOREM Implements == Spec => ImplementsFlushBuffer
<1>1. Init => Abstract!Init
  BY PInit
<1>2. PInv /\ [Next]_vars => [Abstract!Next]_(Abstract!vars)
  BY PNext
<1>3. Spec => Abstract!Spec
  BY <1>1, <1>2, InvCorrect, PTL DEF Spec, Abstract!Spec
<1> QED BY <1>3 DEF ImplementsFlushBuffer

=============================================================================
