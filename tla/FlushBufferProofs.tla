------------------------- MODULE FlushBufferProofs -------------------------
(***************************************************************************)
(* Proofs that a FlushBuffer keeps its promises for any number of threads  *)
(* that the writers field can count, any block size below the range of the *)
(* offset field, and any payload sizes.                                    *)
(*                                                                         *)
(* The writer count says nothing by itself about who is copying, and the   *)
(* offset nothing about which bytes are filled.  The inductive invariant   *)
(* ties both to the threads: the count is the number of holders, granted   *)
(* regions are disjoint and below the offset, and a byte has been copied   *)
(* exactly when it is below the offset and in nobody's unfinished region.  *)
(***************************************************************************)
EXTENDS FlushBuffer, FiniteSetTheorems, TLAPS

Granted == {t \in Threads : pc[t] \in {"copy", "dec"}}

CountIsHolders == word.writers = Cardinality(Holders)

\* What reserve_space and un_sealed checked still holds of the word they kept.
SeenWasOpen ==
  \A t \in Threads :
    pc[t] = "cas" => IsOpen(seen[t]) /\ seen[t].offset + size[t] <= Block

SeenWasIdle ==
  \A t \in Threads : pc[t] = "unseal" =>
    seen[t].writers = 0 /\ ~seen[t].flushing /\ seen[t].sealed

RegionsBelowOffset ==
  /\ word.offset <= Block
  /\ \A t \in Granted : off[t] + size[t] <= word.offset

RegionsApart ==
  \A t \in Granted : \A u \in Granted :
    t # u => off[t] + size[t] <= off[u] \/ off[u] + size[u] <= off[t]

\* Byte i belongs to a thread that has not copied it yet.
Pending(i) ==
  \E t \in Threads : pc[t] = "copy" /\ off[t] <= i /\ i < off[t] + size[t]

CopiedExactly ==
  \A i \in 0 .. Block - 1 :
    copies[i] = IF i < word.offset /\ ~Pending(i) THEN 1 ELSE 0

IInv ==
  /\ TypeOK
  /\ CountIsHolders
  /\ SeenWasOpen
  /\ SeenWasIdle
  /\ RegionsBelowOffset
  /\ RegionsApart
  /\ CopiedExactly

-----------------------------------------------------------------------------
(* The operators on the word *)

\* Recording a writer that still fits changes the writers field only.
LEMMA AddWriterFits ==
  ASSUME NEW w \in Word, w.writers + 1 < WriterSpan
  PROVE  /\ AddWriter(w) \in Word
         /\ AddWriter(w) = [w EXCEPT !.writers = w.writers + 1]
  BY SpanAssumption DEF AddWriter, Word

\* Removing a writer that is there changes the writers field only.
LEMMA SubWriterFits ==
  ASSUME NEW w \in Word, w.writers > 0
  PROVE  /\ SubWriter(w) \in Word
         /\ SubWriter(w) = [w EXCEPT !.writers = w.writers - 1]
  BY SpanAssumption DEF SubWriter, Word

\* Advancing an offset that still fits changes the offset field only.
LEMMA AddOffsetFits ==
  ASSUME NEW w \in Word, NEW n \in Nat, w.offset + n < OffsetSpan
  PROVE  /\ AddOffset(w, n) \in Word
         /\ AddOffset(w, n) = [w EXCEPT !.offset = w.offset + n]
  BY SpanAssumption DEF AddOffset, WrapOffset, Word

\* A reservation that fits advances the offset by the payload and counts one
\* writer; the flag bits stay as they were.
LEMMA ReservedFits ==
  ASSUME NEW w \in Word, NEW n \in Nat,
         w.offset + n < OffsetSpan, w.writers + 1 < WriterSpan
  PROVE  /\ Reserved(w, n) \in Word
         /\ Reserved(w, n).offset = w.offset + n
         /\ Reserved(w, n).writers = w.writers + 1
         /\ Reserved(w, n).flushing = w.flushing
         /\ Reserved(w, n).sealed = w.sealed
<1> DEFINE v == AddOffset(w, n)
<1>1. v \in Word /\ v = [w EXCEPT !.offset = w.offset + n]
  BY AddOffsetFits
<1>2. v.writers = w.writers /\ v.offset = w.offset + n
  BY <1>1 DEF Word
<1>3. AddWriter(v) \in Word /\ AddWriter(v) = [v EXCEPT !.writers = v.writers + 1]
  BY <1>1, <1>2, AddWriterFits
<1> QED
  BY <1>1, <1>2, <1>3 DEF Reserved, Word

-----------------------------------------------------------------------------
(* Counting holders *)

\* The holders are finitely many, and fewer than the writers field can count
\* as long as some thread is not one of them or the count is exact.
LEMMA HoldersFinite ==
  ASSUME NEW S \in SUBSET Threads
  PROVE  /\ IsFiniteSet(S)
         /\ Cardinality(S) \in Nat
         /\ Cardinality(S) < WriterSpan
         /\ \A t \in Threads \ S : /\ Cardinality(S \cup {t}) = Cardinality(S) + 1
                                   /\ Cardinality(S) + 1 < WriterSpan
         /\ \A t \in S : /\ Cardinality(S \ {t}) = Cardinality(S) - 1
                         /\ Cardinality(S) > 0
<1>1. IsFiniteSet(Threads) /\ Cardinality(Threads) < WriterSpan /\ WriterSpan \in Nat
  BY FlushBufferAssumption, SpanAssumption
<1>2. \A T \in SUBSET Threads :
        IsFiniteSet(T) /\ Cardinality(T) \in Nat /\ Cardinality(T) <= Cardinality(Threads)
  BY <1>1, FS_Subset, FS_CardinalityType
<1>3. Cardinality(Threads) \in Nat
  BY <1>1, FS_CardinalityType
<1>4. ASSUME NEW t \in Threads \ S
      PROVE  /\ Cardinality(S \cup {t}) = Cardinality(S) + 1
             /\ Cardinality(S) + 1 < WriterSpan
  <2>1. Cardinality(S \cup {t}) = Cardinality(S) + 1
    BY <1>2, <1>4, FS_AddElement
  <2>2. Cardinality(S \cup {t}) <= Cardinality(Threads)
    BY <1>2, <1>4
  <2> QED
    BY <1>1, <1>2, <1>3, <2>1, <2>2
<1>5. ASSUME NEW t \in S
      PROVE  /\ Cardinality(S \ {t}) = Cardinality(S) - 1
             /\ Cardinality(S) > 0
  <2>1. Cardinality(S \ {t}) = Cardinality(S) - 1
    BY <1>2, <1>5, FS_RemoveElement
  <2>2. Cardinality(S \ {t}) \in Nat
    BY <1>2
  <2> QED
    BY <1>2, <2>1, <2>2
<1> QED
  BY <1>1, <1>2, <1>3, <1>4, <1>5

-----------------------------------------------------------------------------
(* The invariant *)

\* The invariant holds in a new buffer.
LEMMA InitIInv == Init => IInv
<1> SUFFICES ASSUME Init PROVE IInv
  OBVIOUS
<1> USE SpanAssumption, FlushBufferAssumption
<1>1. TypeOK
  BY DEF Init, TypeOK, ZeroWord, Word
<1>2. Holders = {} /\ Granted = {}
  BY DEF Init, Holders, Granted
<1>3. CountIsHolders
  BY <1>2, FS_EmptySet DEF Init, CountIsHolders, ZeroWord
<1>4. SeenWasOpen /\ SeenWasIdle
  BY DEF Init, SeenWasOpen, SeenWasIdle
<1>5. RegionsBelowOffset /\ RegionsApart
  BY <1>2 DEF Init, RegionsBelowOffset, RegionsApart, ZeroWord
<1>6. CopiedExactly
  BY DEF Init, CopiedExactly, ZeroWord
<1> QED
  BY <1>1, <1>3, <1>4, <1>5, <1>6 DEF IInv

\* A step that leaves threads, copies, offset and writer count alone and only
\* sets or clears flag bits keeps the invariant.
LEMMA FlagStep ==
  ASSUME IInv, word' \in Word,
         word'.offset = word.offset, word'.writers = word.writers,
         UNCHANGED <<copies, pc, seen, size, off>>
  PROVE  IInv'
<1>1. TypeOK'
  BY DEF IInv, TypeOK
<1>2. Holders' = Holders /\ Granted' = Granted
  BY DEF Holders, Granted
<1>3. CountIsHolders'
  BY <1>2 DEF IInv, CountIsHolders
<1>4. SeenWasOpen' /\ SeenWasIdle'
  BY DEF IInv, SeenWasOpen, SeenWasIdle
<1>5. RegionsBelowOffset' /\ RegionsApart'
  BY <1>2 DEF IInv, RegionsBelowOffset, RegionsApart
<1>6. \A i \in 0 .. Block - 1 : Pending(i)' <=> Pending(i)
  BY DEF Pending
<1>7. CopiedExactly'
  BY <1>6 DEF IInv, CopiedExactly
<1> QED
  BY <1>1, <1>3, <1>4, <1>5, <1>7 DEF IInv

\* A thread that returns from a call in which it held nothing.
LEMMA ReturnStep ==
  ASSUME IInv, NEW t \in Threads, pc[t] \in {"cas", "unseal"}, Return(t),
         word' \in Word, word'.offset = word.offset, word'.writers = word.writers,
         UNCHANGED copies
  PROVE  IInv'
<1> USE SpanAssumption, FlushBufferAssumption
<1>1. TypeOK'
  BY DEF IInv, TypeOK, Return, ZeroWord, Word
<1>2. Holders' = Holders /\ Granted' = Granted
  BY DEF IInv, TypeOK, Return, Holders, Granted
<1>3. CountIsHolders'
  BY <1>2 DEF IInv, CountIsHolders
<1>4. SeenWasOpen' /\ SeenWasIdle'
  BY DEF IInv, TypeOK, Return, SeenWasOpen, SeenWasIdle
<1>5. \A u \in Granted : off'[u] = off[u] /\ size'[u] = size[u]
  BY DEF IInv, TypeOK, Return, Granted
<1>6. RegionsBelowOffset' /\ RegionsApart'
  BY <1>2, <1>5 DEF IInv, RegionsBelowOffset, RegionsApart
<1>7. \A i \in 0 .. Block - 1 : Pending(i)' <=> Pending(i)
  BY DEF IInv, TypeOK, Return, Pending
<1>8. CopiedExactly'
  BY <1>7 DEF IInv, CopiedExactly
<1> QED
  BY <1>1, <1>3, <1>4, <1>6, <1>8 DEF IInv

\* A load that a compare_exchange will follow touches the thread's locals only.
LEMMA LoadStep ==
  ASSUME IInv, NEW t \in Threads, pc[t] = "idle",
         NEW n \in 0 .. Block, NEW label \in {"cas", "unseal"},
         label = "cas" => IsOpen(word) /\ word.offset + n <= Block,
         label = "unseal" => word.writers = 0 /\ ~word.flushing /\ word.sealed,
         seen' = [seen EXCEPT ![t] = word],
         size' = [size EXCEPT ![t] = n],
         pc' = [pc EXCEPT ![t] = label],
         UNCHANGED <<word, copies, off>>
  PROVE  IInv'
<1>1. TypeOK'
  BY DEF IInv, TypeOK
<1>2. Holders' = Holders /\ Granted' = Granted
  BY DEF IInv, TypeOK, Holders, Granted
<1>3. CountIsHolders'
  BY <1>2 DEF IInv, CountIsHolders
<1>4. SeenWasOpen' /\ SeenWasIdle'
  BY DEF IInv, TypeOK, SeenWasOpen, SeenWasIdle
<1>5. \A u \in Granted : size'[u] = size[u]
  BY DEF IInv, TypeOK, Granted
<1>6. RegionsBelowOffset' /\ RegionsApart'
  BY <1>2, <1>5 DEF IInv, RegionsBelowOffset, RegionsApart
<1>7. \A i \in 0 .. Block - 1 : Pending(i)' <=> Pending(i)
  BY DEF IInv, TypeOK, Pending
<1>8. CopiedExactly'
  BY <1>7 DEF IInv, CopiedExactly
<1> QED
  BY <1>1, <1>3, <1>4, <1>6, <1>8 DEF IInv

\* The compare_exchange that grants a region: the thread becomes a holder, and
\* its region starts where all granted ones end.
LEMMA GrantStep ==
  ASSUME IInv, NEW t \in Threads, pc[t] = "cas", word = seen[t],
         word' = Reserved(seen[t], size[t]),
         off' = [off EXCEPT ![t] = seen[t].offset],
         pc' = [pc EXCEPT ![t] = "copy"],
         UNCHANGED <<copies, seen, size>>
  PROVE  IInv'
<1> USE SpanAssumption, FlushBufferAssumption
<1>1. /\ word \in Word /\ size[t] \in Nat /\ word.offset + size[t] <= Block
      /\ word.offset \in Nat
  BY DEF IInv, TypeOK, SeenWasOpen, Word
<1>2. t \notin Holders /\ t \notin Granted
  BY DEF Holders, Granted
<1>3. Holders' = Holders \cup {t} /\ Granted' = Granted \cup {t}
  BY DEF IInv, TypeOK, Holders, Granted
<1>4. /\ Cardinality(Holders') = word.writers + 1
      /\ word.writers + 1 < WriterSpan
  BY <1>2, <1>3, HoldersFinite DEF IInv, CountIsHolders, Holders
<1>5. /\ word' \in Word /\ word'.offset = word.offset + size[t]
      /\ word'.writers = word.writers + 1
  BY <1>1, <1>4, ReservedFits
<1>6. TypeOK'
  <2>1. seen[t].offset \in 0 .. Block
    BY <1>1
  <2>2. off' \in [Threads -> 0 .. Block]
    BY <2>1 DEF IInv, TypeOK
  <2>3. pc' \in [Threads -> {"idle", "cas", "copy", "dec", "pinned", "unseal"}]
    BY DEF IInv, TypeOK
  <2> QED
    BY <1>5, <2>2, <2>3 DEF IInv, TypeOK
<1>7. CountIsHolders'
  BY <1>4, <1>5 DEF CountIsHolders
<1>8. SeenWasOpen' /\ SeenWasIdle'
  BY DEF IInv, TypeOK, SeenWasOpen, SeenWasIdle
<1>9. /\ off'[t] = word.offset /\ size'[t] = size[t]
      /\ \A u \in Granted : /\ off'[u] = off[u] /\ size'[u] = size[u]
                            /\ off[u] \in Nat /\ size[u] \in Nat
                            /\ off[u] + size[u] <= word.offset
  BY <1>2 DEF IInv, TypeOK, RegionsBelowOffset, Granted
<1>10. RegionsBelowOffset'
  BY <1>1, <1>3, <1>5, <1>9 DEF RegionsBelowOffset
<1>11. RegionsApart'
  BY <1>1, <1>2, <1>3, <1>9 DEF IInv, RegionsApart
<1>12. ASSUME NEW i \in 0 .. Block - 1
       PROVE  copies'[i] = IF i < word'.offset /\ ~Pending(i)' THEN 1 ELSE 0
  <2>1. Pending(i)' <=> Pending(i) \/ (word.offset <= i /\ i < word.offset + size[t])
    BY DEF IInv, TypeOK, Pending
  <2> QED
    BY <1>1, <1>5, <2>1 DEF IInv, CopiedExactly
<1>13. CopiedExactly'
  BY <1>12 DEF CopiedExactly
<1> QED
  BY <1>6, <1>7, <1>8, <1>10, <1>11, <1>13 DEF IInv

\* The copy: each byte of the region goes from uncopied to copied once, since
\* no other region contains it.
LEMMA WriteStep ==
  ASSUME IInv, NEW t \in Threads, Write(t)
  PROVE  IInv'
<1> USE SpanAssumption, FlushBufferAssumption
<1>1. TypeOK'
  BY DEF IInv, TypeOK, Write
<1>2. Holders' = Holders /\ Granted' = Granted
  BY DEF IInv, TypeOK, Write, Holders, Granted
<1>3. CountIsHolders'
  BY <1>2 DEF IInv, CountIsHolders, Write
<1>4. SeenWasOpen' /\ SeenWasIdle'
  BY DEF IInv, TypeOK, Write, SeenWasOpen, SeenWasIdle
<1>5. RegionsBelowOffset' /\ RegionsApart'
  BY <1>2 DEF IInv, Write, RegionsBelowOffset, RegionsApart
<1>6. ASSUME NEW i \in 0 .. Block - 1
      PROVE  copies'[i] = IF i < word'.offset /\ ~Pending(i)' THEN 1 ELSE 0
  <2>1. /\ off[t] \in Nat /\ size[t] \in Nat /\ word.offset \in Nat
        /\ off[t] + size[t] <= word.offset
        /\ word' = word
    BY DEF IInv, TypeOK, Write, RegionsBelowOffset, Granted, Word
  <2>2. copies[i] = IF i < word.offset /\ ~Pending(i) THEN 1 ELSE 0
    BY DEF IInv, CopiedExactly
  <2>3. CASE off[t] <= i /\ i < off[t] + size[t]
    <3>1. copies'[i] = copies[i] + 1
      BY <2>1, <2>3 DEF Write, Region
    <3>2. Pending(i)
      BY <2>3 DEF Pending, Write
    <3>3. ~Pending(i)'
      <4> SUFFICES ASSUME NEW u \in Threads, pc'[u] = "copy",
                          off[u] <= i, i < off[u] + size[u]
                   PROVE  FALSE
        BY DEF Pending, Write
      <4>1. u # t /\ u \in Granted /\ t \in Granted
        BY DEF IInv, TypeOK, Write, Granted
      <4>2. off[u] \in Nat /\ size[u] \in Nat
        BY DEF IInv, TypeOK
      <4> QED
        BY <2>1, <2>3, <4>1, <4>2 DEF IInv, RegionsApart
    <3> QED
      BY <2>1, <2>2, <2>3, <3>1, <3>2, <3>3
  <2>4. CASE ~(off[t] <= i /\ i < off[t] + size[t])
    <3>1. copies'[i] = copies[i]
      BY <2>1, <2>4 DEF Write, Region
    <3>2. Pending(i)' <=> Pending(i)
      BY <2>4 DEF IInv, TypeOK, Pending, Write
    <3> QED
      BY <2>1, <2>2, <3>1, <3>2
  <2> QED
    BY <2>3, <2>4
<1>7. CopiedExactly'
  BY <1>6 DEF CopiedExactly
<1> QED
  BY <1>1, <1>3, <1>4, <1>5, <1>7 DEF IInv

\* decrement_writers: the thread stops being a holder, and since it was one the
\* count does not underflow.
LEMMA DecrementStep ==
  ASSUME IInv, NEW t \in Threads, DecrementWriters(t)
  PROVE  IInv'
<1> USE SpanAssumption, FlushBufferAssumption
<1>1. t \in Holders
  BY DEF DecrementWriters, Holders
<1>2. Holders' = Holders \ {t} /\ Granted' = Granted \ {t}
  BY DEF IInv, TypeOK, DecrementWriters, Return, Holders, Granted
<1>3. /\ Cardinality(Holders') = word.writers - 1
      /\ word.writers > 0
  BY <1>1, <1>2, HoldersFinite DEF IInv, CountIsHolders, Holders
<1>4. word \in Word
  BY DEF IInv, TypeOK
<1>5. /\ word' \in Word /\ word'.offset = word.offset
      /\ word'.writers = word.writers - 1
  BY <1>3, <1>4, SubWriterFits DEF DecrementWriters, Word
<1>6. TypeOK'
  BY <1>5 DEF IInv, TypeOK, DecrementWriters, Return, ZeroWord, Word
<1>7. CountIsHolders'
  BY <1>3, <1>5 DEF CountIsHolders
<1>8. SeenWasOpen' /\ SeenWasIdle'
  BY DEF IInv, TypeOK, DecrementWriters, Return, SeenWasOpen, SeenWasIdle
<1>9. \A u \in Granted' : u \in Granted /\ off'[u] = off[u] /\ size'[u] = size[u]
  BY <1>2 DEF IInv, TypeOK, DecrementWriters, Return, Granted
<1>10. RegionsBelowOffset' /\ RegionsApart'
  BY <1>5, <1>9 DEF IInv, RegionsBelowOffset, RegionsApart
<1>11. \A i \in 0 .. Block - 1 : Pending(i)' <=> Pending(i)
  BY DEF IInv, TypeOK, DecrementWriters, Return, Pending
<1>12. CopiedExactly'
  BY <1>5, <1>11 DEF IInv, CopiedExactly, DecrementWriters
<1> QED
  BY <1>6, <1>7, <1>8, <1>10, <1>12 DEF IInv

\* increment_writers: an idle thread becomes a holder, and there are too few
\* threads for the count to carry into the offset.
LEMMA IncrementStep ==
  ASSUME IInv, NEW t \in Threads, IncrementWriters(t)
  PROVE  IInv'
<1> USE SpanAssumption, FlushBufferAssumption
<1>1. t \notin Holders
  BY DEF IncrementWriters, Holders
<1>2. Holders' = Holders \cup {t} /\ Granted' = Granted
  BY DEF IInv, TypeOK, IncrementWriters, Holders, Granted
<1>3. /\ Cardinality(Holders') = word.writers + 1
      /\ word.writers + 1 < WriterSpan
  BY <1>1, <1>2, HoldersFinite DEF IInv, CountIsHolders, Holders
<1>4. word \in Word
  BY DEF IInv, TypeOK
<1>5. /\ word' \in Word /\ word'.offset = word.offset
      /\ word'.writers = word.writers + 1
  BY <1>3, <1>4, AddWriterFits DEF IncrementWriters, Word
<1>6. TypeOK'
  BY <1>5 DEF IInv, TypeOK, IncrementWriters
<1>7. CountIsHolders'
  BY <1>3, <1>5 DEF CountIsHolders
<1>8. SeenWasOpen' /\ SeenWasIdle'
  BY DEF IInv, TypeOK, IncrementWriters, SeenWasOpen, SeenWasIdle
<1>9. RegionsBelowOffset' /\ RegionsApart'
  BY <1>2, <1>5 DEF IInv, IncrementWriters, RegionsBelowOffset, RegionsApart
<1>10. \A i \in 0 .. Block - 1 : Pending(i)' <=> Pending(i)
  BY DEF IInv, TypeOK, IncrementWriters, Pending
<1>11. CopiedExactly'
  BY <1>5, <1>10 DEF IInv, CopiedExactly, IncrementWriters
<1> QED
  BY <1>6, <1>7, <1>8, <1>9, <1>11 DEF IInv

\* increment_offset and reset_offset, with no call under way.
LEMMA QuiescentStep ==
  ASSUME IInv, Quiescent, UNCHANGED <<pc, seen, size, off>>,
         word' \in Word, word'.writers = word.writers, word'.offset <= Block,
         copies' \in [0 .. Block - 1 -> Nat],
         \A i \in 0 .. Block - 1 : copies'[i] = IF i < word'.offset THEN 1 ELSE 0
  PROVE  IInv'
<1>1. TypeOK'
  BY DEF IInv, TypeOK
<1>2. Holders' = Holders /\ Granted' = {}
  BY DEF Holders, Granted, Quiescent
<1>3. CountIsHolders'
  BY <1>2 DEF IInv, CountIsHolders
<1>4. SeenWasOpen' /\ SeenWasIdle'
  BY DEF IInv, SeenWasOpen, SeenWasIdle
<1>5. RegionsBelowOffset' /\ RegionsApart'
  BY <1>2 DEF RegionsBelowOffset, RegionsApart
<1>6. \A i \in 0 .. Block - 1 : ~Pending(i)'
  BY DEF Pending, Quiescent
<1>7. CopiedExactly'
  BY <1>6 DEF CopiedExactly
<1> QED
  BY <1>1, <1>3, <1>4, <1>5, <1>7 DEF IInv

\* Every step of the specification keeps the invariant.
LEMMA NextIInv == IInv /\ [Next]_vars => IInv'
<1> SUFFICES ASSUME IInv, [Next]_vars PROVE IInv'
  OBVIOUS
<1> USE SpanAssumption, FlushBufferAssumption
<1>1. word \in Word /\ word.offset \in Nat /\ word.offset <= Block
  BY DEF IInv, TypeOK, RegionsBelowOffset, Word
<1>2. ASSUME NEW t \in Threads, NEW n \in Sizes, ReserveLoad(t, n) PROVE IInv'
  <2>1. n \in 0 .. Block
    OBVIOUS
  <2> QED
    BY <1>2, <2>1, LoadStep DEF ReserveLoad
<1>3. ASSUME NEW t \in Threads, ReserveCas(t) PROVE IInv'
  <2>1. CASE word = seen[t]
    BY <1>3, <2>1, GrantStep DEF ReserveCas
  <2>2. CASE word # seen[t]
    BY <1>1, <1>3, <2>2, ReturnStep DEF ReserveCas
  <2> QED
    BY <2>1, <2>2
<1>4. ASSUME NEW t \in Threads, Write(t) PROVE IInv'
  BY <1>4, WriteStep
<1>5. ASSUME NEW t \in Threads, DecrementWriters(t) PROVE IInv'
  BY <1>5, DecrementStep
<1>6. ASSUME NEW t \in Threads, IncrementWriters(t) PROVE IInv'
  BY <1>6, IncrementStep
<1>7. ASSUME NEW t \in Threads,
             Seal(t) \/ SetFlushInProgress(t) \/ ClearFlushInProgress(t)
      PROVE  IInv'
  <2>1. /\ word' \in Word /\ word'.offset = word.offset
        /\ word'.writers = word.writers
    BY <1>1, <1>7 DEF Seal, SetFlushInProgress, ClearFlushInProgress,
                      SetSealed, SetFlushing, ClearFlushing, Word
  <2> QED
    BY <1>7, <2>1, FlagStep DEF Seal, SetFlushInProgress, ClearFlushInProgress
<1>8. ASSUME NEW t \in Threads, UnsealLoad(t) PROVE IInv'
  <2>1. size[t] \in 0 .. Block /\ size' = [size EXCEPT ![t] = size[t]]
    BY <1>8 DEF IInv, TypeOK, UnsealLoad
  <2> QED
    BY <1>8, <2>1, LoadStep DEF UnsealLoad
<1>9. ASSUME NEW t \in Threads, UnsealCas(t) PROVE IInv'
  <2>1. /\ word' \in Word /\ word'.offset = word.offset
        /\ word'.writers = word.writers
    BY <1>1, <1>9 DEF UnsealCas, ClearSealed, Word
  <2> QED
    BY <1>9, <2>1, ReturnStep DEF UnsealCas
<1>10. ASSUME NEW n \in Sizes, IncrementOffset(n) PROVE IInv'
  <2>1. n \in Nat /\ word.offset + n <= Block
    BY <1>10 DEF IncrementOffset
  <2>2. /\ word' \in Word /\ word'.offset = word.offset + n
        /\ word'.writers = word.writers
    BY <1>1, <1>10, <2>1, AddOffsetFits DEF IncrementOffset, Word
  <2>3. copies' \in [0 .. Block - 1 -> Nat]
    BY <1>10 DEF IInv, TypeOK, IncrementOffset
  <2>4. \A i \in 0 .. Block - 1 : ~Pending(i)
    BY <1>10 DEF IncrementOffset, Quiescent, Pending
  <2>5. \A i \in 0 .. Block - 1 : copies'[i] = IF i < word'.offset THEN 1 ELSE 0
    BY <1>1, <1>10, <2>1, <2>2, <2>4 DEF IInv, CopiedExactly, IncrementOffset
  <2> QED
    BY <1>10, <2>1, <2>2, <2>3, <2>5, QuiescentStep DEF IncrementOffset
<1>11. ASSUME ResetOffset PROVE IInv'
  <2>1. /\ word' \in Word /\ word'.offset = 0
        /\ word'.writers = word.writers
    BY <1>1, <1>11 DEF ResetOffset, ZeroOffset, Word
  <2>2. copies' \in [0 .. Block - 1 -> Nat]
    BY <1>11 DEF ResetOffset
  <2>3. \A i \in 0 .. Block - 1 : copies'[i] = IF i < word'.offset THEN 1 ELSE 0
    BY <1>11, <2>1 DEF ResetOffset
  <2> QED
    BY <1>11, <2>1, <2>2, <2>3, QuiescentStep DEF ResetOffset
<1>12. CASE UNCHANGED vars
  BY <1>1, <1>12, FlagStep DEF vars
<1> QED
  BY <1>2, <1>3, <1>4, <1>5, <1>6, <1>7, <1>8, <1>9, <1>10, <1>11, <1>12
     DEF Next, Step

\* The invariant holds throughout.
LEMMA Invariance == Spec => []IInv
  BY InitIInv, NextIInv, PTL DEF Spec

-----------------------------------------------------------------------------
(* What the invariant gives *)

\* A writer count of zero means that nobody holds a reservation.
LEMMA ZeroMeansNone ==
  ASSUME IInv, word.writers = 0 PROVE Holders = {}
<1>1. Holders \in SUBSET Threads /\ Cardinality(Holders) = 0
  BY DEF IInv, CountIsHolders, Holders
<1>2. IsFiniteSet(Holders)
  BY <1>1, HoldersFinite
<1> QED
  BY <1>1, <1>2, FS_EmptySet

\* The word, the locals of every call and the copy counters stay in their
\* types: the offset field never exceeds its range and the count never wraps.
THEOREM TypeCorrect == Spec => []TypeOK
<1>1. IInv => TypeOK
  BY DEF IInv
<1> QED
  BY <1>1, Invariance, PTL

\* reserve_space never grants two threads a common byte, nor one outside the
\* allocation, however loads, compare_exchanges and resets interleave.
THEOREM RegionsExclusive == Spec => []ExclusiveRegions
<1>1. IInv => ExclusiveRegions
  <2> SUFFICES ASSUME IInv, NEW t \in Threads, pc[t] \in {"copy", "dec"}
               PROVE  /\ Region(t) \subseteq 0 .. Block - 1
                      /\ \A u \in Threads \ {t} : pc[u] \in {"copy", "dec"} =>
                           Region(t) \cap Region(u) = {}
    BY DEF ExclusiveRegions
  <2>1. \A u \in Threads : off[u] \in Nat /\ size[u] \in Nat
    BY DEF IInv, TypeOK
  <2>2. Region(t) \subseteq 0 .. Block - 1
    BY <2>1, FlushBufferAssumption DEF IInv, TypeOK, RegionsBelowOffset, Granted, Region, Word
  <2>3. ASSUME NEW u \in Threads \ {t}, pc[u] \in {"copy", "dec"}
        PROVE  Region(t) \cap Region(u) = {}
    BY <2>1, <2>3 DEF IInv, RegionsApart, Granted, Region
  <2> QED
    BY <2>2, <2>3
<1> QED
  BY <1>1, Invariance, PTL

\* No byte is copied twice between two resets of the offset.
THEOREM NoByteWrittenTwice == Spec => []WrittenOnce
<1>1. IInv => WrittenOnce
  BY DEF IInv, CopiedExactly, WrittenOnce
<1> QED
  BY <1>1, Invariance, PTL

\* A writer count of zero proves to a flusher that every reserved byte has been
\* copied, and exactly once.
THEOREM DrainedIsComplete == Spec => []DrainedMeansCopied
<1>1. IInv => DrainedMeansCopied
  <2> SUFFICES ASSUME IInv, word.writers = 0
               PROVE  /\ Holders = {}
                      /\ \A i \in 0 .. word.offset - 1 : copies[i] = 1
    BY DEF DrainedMeansCopied
  <2>1. Holders = {}
    BY ZeroMeansNone
  <2>2. \A i \in Nat : ~Pending(i)
    BY <2>1 DEF Holders, Pending
  <2>3. word.offset \in Nat /\ word.offset <= Block /\ Block \in Nat
    BY FlushBufferAssumption DEF IInv, TypeOK, RegionsBelowOffset, Word
  <2> QED
    BY <2>1, <2>2, <2>3 DEF IInv, CopiedExactly
<1> QED
  BY <1>1, Invariance, PTL

\* un_sealed clears the sealed bit only while nobody holds a reservation and no
\* flush is under way, although it decided that on an earlier load.
THEOREM UnsealOnlyIdle == Spec => ReopenedOnlyWhenIdle
<1>1. IInv /\ [Next]_vars => (word.sealed /\ ~word'.sealed => Holders = {} /\ ~word.flushing)
  <2> SUFFICES ASSUME IInv, [Next]_vars, word.sealed, ~word'.sealed
               PROVE  Holders = {} /\ ~word.flushing
    OBVIOUS
  <2>1. word \in Word
    BY DEF IInv, TypeOK
  <2>2. PICK t \in Threads : UnsealCas(t)
    <3>1. ASSUME NEW t \in Threads, ReserveCas(t) PROVE word'.sealed
      <4>1. word = seen[t] => ~word.sealed
        BY <3>1 DEF ReserveCas, IInv, SeenWasOpen, IsOpen
      <4> QED
        BY <3>1, <4>1 DEF ReserveCas
    <3>2. ASSUME NEW t \in Threads, DecrementWriters(t) PROVE word'.sealed
      BY <2>1, <3>2 DEF DecrementWriters, SubWriter, AddOffset, Word
    <3>3. ASSUME NEW t \in Threads, IncrementWriters(t) PROVE word'.sealed
      BY <2>1, <3>3 DEF IncrementWriters, AddWriter, AddOffset, Word
    <3>4. ASSUME NEW t \in Threads,
                 \/ \E n \in Sizes : ReserveLoad(t, n)
                 \/ Write(t) \/ Seal(t) \/ SetFlushInProgress(t)
                 \/ ClearFlushInProgress(t) \/ UnsealLoad(t)
          PROVE  word'.sealed
      BY <2>1, <3>4 DEF ReserveLoad, Write, Seal, SetFlushInProgress,
           ClearFlushInProgress, UnsealLoad, SetSealed, SetFlushing,
           ClearFlushing, Word
    <3>5. ASSUME ResetOffset \/ (\E n \in Sizes : IncrementOffset(n))
          PROVE  word'.sealed
      BY <2>1, <3>5 DEF ResetOffset, IncrementOffset, ZeroOffset, AddOffset, Word
    <3> QED
      BY <3>1, <3>2, <3>3, <3>4, <3>5 DEF Next, Step, vars
  <2>3. word = seen[t] /\ pc[t] = "unseal"
    BY <2>2 DEF UnsealCas
  <2>4. word.writers = 0 /\ ~word.flushing
    BY <2>3 DEF IInv, SeenWasIdle
  <2> QED
    BY <2>4, ZeroMeansNone
<1> QED
  BY <1>1, Invariance, PTL DEF Spec, ReopenedOnlyWhenIdle
=============================================================================
