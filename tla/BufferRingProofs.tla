-------------------------- MODULE BufferRingProofs --------------------------
(***************************************************************************)
(* Proofs about BufferRing for any number of threads and buffers, any      *)
(* block and page size, every configuration of the options, and any number *)
(* of messages and faults.                                                 *)
(***************************************************************************)
EXTENDS BufferRing, TLAPS

\* What reserve_space saw before its compare_exchange.
SeenWasOpen ==
  \A t \in Threads : pc[t] = "cas" =>
    IsOpen(loc[t].seen) /\ loc[t].seen.offset + loc[t].size <= Block

\* rotate_after_seal only scans while it has candidates left.
ScanBounded == \A t \in Threads : pc[t] = "scan" => loc[t].tries > 0

\* The threads' part of the type invariant, and the shared part.
ThreadOK ==
  /\ pc \in [Threads -> Labels]
  /\ loc \in [Threads -> Local]
  /\ SeenWasOpen
  /\ ScanBounded

SharedOK ==
  /\ word \in [Buffers -> Word]
  /\ address \in [Buffers -> Nat]
  /\ sqe \in [Buffers -> SUBSET Sqe]
  /\ current \in Buffers
  /\ next_index \in Buffers
  /\ next_address \in Nat
  /\ sq \subseteq Request
  /\ kernel \subseteq Request
  /\ cq \subseteq Cqe
  /\ got \in [Threads -> SUBSET Cqe]
  /\ serial \in Nat

TInv == ThreadOK /\ SharedOK

-----------------------------------------------------------------------------
(* The operators on the word *)

\* Replacing one of the two numeric fields keeps the type and the flags.
LEMMA SetField ==
  ASSUME NEW w \in Word, NEW o \in 0 .. OffsetSpan - 1, NEW n \in 0 .. WriterSpan - 1
  PROVE  /\ [w EXCEPT !.offset = o] \in Word
         /\ [w EXCEPT !.offset = o].flushing = w.flushing
         /\ [w EXCEPT !.offset = o].writers = w.writers
         /\ [w EXCEPT !.writers = n] \in Word
         /\ [w EXCEPT !.writers = n].flushing = w.flushing
  BY DEF Word

\* Adding to the offset keeps the type and the flags, with or without wrapping.
LEMMA AddOffsetOps ==
  ASSUME NEW w \in Word, NEW n \in 0 .. OffsetSpan
  PROVE  AddOffset(w, n) \in Word /\ AddOffset(w, n).flushing = w.flushing
<1>1. WrapOffset(w.offset + n) \in 0 .. OffsetSpan - 1
  BY SpanAssumption DEF WrapOffset, Word
<1>2. 0 \in 0 .. WriterSpan - 1
  BY SpanAssumption
<1> QED
  BY <1>1, <1>2, SetField DEF AddOffset

\* No operation on the writers field leaves the word's type or touches a flag,
\* not even when it carries into or borrows from the offset.
LEMMA WriterOps ==
  ASSUME NEW w \in Word
  PROVE  /\ AddWriter(w) \in Word /\ AddWriter(w).flushing = w.flushing
         /\ SubWriter(w) \in Word /\ SubWriter(w).flushing = w.flushing
<1> USE SpanAssumption
<1>1. w.writers \in 0 .. WriterSpan - 1 /\ 0 \in 0 .. OffsetSpan - 1
  BY DEF Word
<1>2. AddWriter(w) \in Word /\ AddWriter(w).flushing = w.flushing
  <2>1. CASE w.writers + 1 < WriterSpan
    <3>1. w.writers + 1 \in 0 .. WriterSpan - 1
      BY <1>1, <2>1
    <3> QED
      BY <1>1, <2>1, <3>1, SetField DEF AddWriter
  <2>2. CASE ~(w.writers + 1 < WriterSpan)
    <3> DEFINE v == AddOffset(w, 1)
    <3>1. v \in Word /\ v.flushing = w.flushing
      <4>1. 1 \in 0 .. OffsetSpan
        OBVIOUS
      <4> QED
        BY <4>1, AddOffsetOps
    <3>2. AddWriter(w) = [v EXCEPT !.writers = 0]
      BY <2>2 DEF AddWriter
    <3>3. 0 \in 0 .. WriterSpan - 1
      OBVIOUS
    <3> HIDE DEF v
    <3>4. /\ [v EXCEPT !.writers = 0] \in Word
          /\ [v EXCEPT !.writers = 0].flushing = v.flushing
      BY <1>1, <3>1, <3>3, SetField
    <3> QED
      BY <3>1, <3>2, <3>4
  <2> QED
    BY <2>1, <2>2
<1>3. SubWriter(w) \in Word /\ SubWriter(w).flushing = w.flushing
  <2>1. CASE w.writers > 0
    <3>1. w.writers - 1 \in 0 .. WriterSpan - 1
      BY <1>1, <2>1
    <3> QED
      BY <1>1, <2>1, <3>1, SetField DEF SubWriter
  <2>2. CASE ~(w.writers > 0)
    <3> DEFINE v == AddOffset(w, OffsetSpan - 1)
    <3>1. v \in Word /\ v.flushing = w.flushing
      <4>1. OffsetSpan - 1 \in 0 .. OffsetSpan
        OBVIOUS
      <4> QED
        BY <4>1, AddOffsetOps
    <3>2. SubWriter(w) = [v EXCEPT !.writers = WriterSpan - 1]
      BY <2>2 DEF SubWriter
    <3>3. WriterSpan - 1 \in 0 .. WriterSpan - 1
      OBVIOUS
    <3> HIDE DEF v
    <3>4. /\ [v EXCEPT !.writers = WriterSpan - 1] \in Word
          /\ [v EXCEPT !.writers = WriterSpan - 1].flushing = v.flushing
      BY <1>1, <3>1, <3>3, SetField
    <3> QED
      BY <3>1, <3>2, <3>4
  <2> QED
    BY <2>1, <2>2
<1> QED
  BY <1>2, <1>3

\* A reservation within the block leaves the flag bits alone.
LEMMA ReservedOps ==
  ASSUME NEW w \in Word, NEW n \in Nat, w.offset + n <= Block
  PROVE  Reserved(w, n) \in Word /\ Reserved(w, n).flushing = w.flushing
<1> DEFINE v == AddOffset(w, n)
<1>1. n \in 0 .. OffsetSpan
  BY SpanAssumption, BufferRingAssumption DEF Word
<1>2. v \in Word /\ v.flushing = w.flushing
  BY <1>1, AddOffsetOps
<1>3. Reserved(w, n) = AddWriter(v)
  BY DEF Reserved
<1> HIDE DEF v
<1> QED
  BY <1>2, <1>3, WriterOps

\* The flag operations stay in the type and do what their names say.
LEMMA FlagOps ==
  ASSUME NEW w \in Word
  PROVE  /\ SetSealed(w) \in Word /\ SetSealed(w).flushing = w.flushing
         /\ SetFlushing(w) \in Word /\ SetFlushing(w).flushing
         /\ ZeroWord \in Word
         /\ w.offset \in Nat /\ w.flushing \in BOOLEAN
<1>1. SetSealed(w) \in Word /\ SetSealed(w).flushing = w.flushing
  BY DEF SetSealed, Word
<1>2. SetFlushing(w) \in Word /\ SetFlushing(w).flushing
  BY DEF SetFlushing, Word
<1>3. ZeroWord \in Word
  BY SpanAssumption DEF ZeroWord, Word
<1>4. w.offset \in Nat /\ w.flushing \in BOOLEAN
  BY SpanAssumption DEF Word
<1> QED
  BY <1>1, <1>2, <1>3, <1>4

\* Padding to a page gives a natural number.
LEMMA PaddedNat ==
  ASSUME NEW n \in Nat PROVE NextMultipleOf(n, Page) \in Nat
<1>1. Page \in Nat /\ Page > 0
  BY BufferRingAssumption
<1>2. (n + Page - 1) \div Page \in Nat
  BY <1>1
<1> QED
  BY <1>1, <1>2 DEF NextMultipleOf

\* The candidate index stays a position of the ring.
LEMMA IndexInRing ==
  /\ 0 \in Buffers /\ 1 % RingLen \in Buffers
  /\ \A n \in Buffers : NextIndex(n) \in Buffers
  BY BufferRingAssumption DEF Buffers, NextIndex

-----------------------------------------------------------------------------
(* Types *)

\* The type invariant and the two facts about locals hold initially.
LEMMA InitTInv == Init => TInv
<1> SUFFICES ASSUME Init PROVE TInv
  OBVIOUS
<1>1. ZeroWord \in Word
  BY SpanAssumption DEF ZeroWord, Word
<1>2. NoLocals \in Local
  BY <1>1, IndexInRing DEF NoLocals, Local
<1>3. ThreadOK
  BY <1>2 DEF Init, ThreadOK, Labels, SeenWasOpen, ScanBounded
<1>4. SharedOK
  BY <1>1, IndexInRing DEF Init, SharedOK
<1> QED
  BY <1>3, <1>4 DEF TInv

\* Assigning one local of the right type keeps a thread's locals typed.
LEMMA SetLocal ==
  ASSUME NEW l \in Local
  PROVE  /\ l.buf \in Buffers /\ l.cand \in Buffers /\ l.seen \in Word
         /\ l.off \in Nat /\ l.size \in Nat /\ l.at \in Nat /\ l.len \in Nat
         /\ l.tries \in Nat /\ l.mode \in {"writer", "sealer", "poller"}
         /\ \A b \in Buffers : [l EXCEPT !.buf = b] \in Local
         /\ \A b \in Buffers, n \in Nat : [l EXCEPT !.cand = b, !.tries = n] \in Local
         /\ \A w \in Word : [l EXCEPT !.seen = w] \in Local
         /\ \A n \in Nat : /\ [l EXCEPT !.off = n] \in Local
                           /\ [l EXCEPT !.size = n] \in Local
                           /\ [l EXCEPT !.at = n] \in Local
                           /\ [l EXCEPT !.len = n] \in Local
                           /\ \A k \in Nat : [l EXCEPT !.len = n, !.tries = k] \in Local
         /\ \A m \in {"writer", "sealer", "poller"} : [l EXCEPT !.mode = m] \in Local
  BY DEF Local

\* The locals a call leaves behind when it returns.
LEMMA ReturnLocals ==
  /\ NoLocals \in Local
  /\ \A n \in Nat : [NoLocals EXCEPT !.size = n] \in Local
<1>1. ZeroWord \in Word
  BY SpanAssumption DEF ZeroWord, Word
<1>2. NoLocals \in Local
  BY <1>1, IndexInRing DEF NoLocals, Local
<1> QED
  BY <1>2, SetLocal

\* A step that moves one thread to a label with typed locals, neither of the
\* two labels that promise something about them.
LEMMA ThreadStep ==
  ASSUME ThreadOK, NEW t \in Threads, NEW label \in Labels \ {"cas", "scan"},
         NEW l \in Local,
         pc' = [pc EXCEPT ![t] = label], loc' = [loc EXCEPT ![t] = l]
  PROVE  ThreadOK'
<1>1. pc' \in [Threads -> Labels] /\ loc' \in [Threads -> Local]
  BY DEF ThreadOK
<1>2. SeenWasOpen' /\ ScanBounded'
  BY DEF ThreadOK, SeenWasOpen, ScanBounded
<1> QED
  BY <1>1, <1>2 DEF ThreadOK

\* The same for a step that leaves the locals alone.
LEMMA ThreadMove ==
  ASSUME ThreadOK, NEW t \in Threads, NEW label \in Labels \ {"cas", "scan"},
         pc' = [pc EXCEPT ![t] = label], loc' = loc
  PROVE  ThreadOK'
<1>1. loc[t] \in Local /\ loc' = [loc EXCEPT ![t] = loc[t]]
  BY DEF ThreadOK
<1> QED
  BY <1>1, ThreadStep

\* A step inside a call keeps the thread's part of the type invariant.
LEMMA StepThreadOK ==
  ASSUME TInv, NEW t \in Threads, StartMessage(t) \/ StartPoll(t) \/ Step(t)
  PROVE  ThreadOK'
<1> DEFINE l == loc[t]
<1>0. /\ ThreadOK /\ SharedOK
      /\ l \in Local /\ l.buf \in Buffers /\ l.cand \in Buffers
      /\ l.seen \in Word /\ l.size \in Nat /\ l.len \in Nat /\ l.tries \in Nat
      /\ \A b \in Buffers : word[b] \in Word /\ word[b].offset \in Nat
      /\ \A b \in Buffers : address[b] \in Nat
  <2>1. l \in Local
    BY DEF TInv, ThreadOK
  <2>2. \A b \in Buffers : word[b] \in Word /\ address[b] \in Nat
    BY DEF TInv, SharedOK
  <2> QED
    BY <2>1, <2>2, SetLocal, FlagOps DEF TInv
<1>1. CASE StartMessage(t)
  <2>1. PICK n \in Sizes : loc' = [loc EXCEPT ![t] = [l EXCEPT !.size = n]]
    BY <1>1 DEF StartMessage
  <2>2. [l EXCEPT !.size = n] \in Local
    <3>1. n \in Nat
      BY BufferRingAssumption
    <3> QED
      BY <1>0, <3>1, SetLocal
  <2> QED
    BY <1>0, <1>1, <2>1, <2>2, ThreadStep DEF StartMessage, Goto, Labels
<1>2. CASE StartPoll(t)
  BY <1>0, <1>2, ThreadMove DEF StartPoll, Goto, At, Labels
<1>3. CASE LoadCurrent(t)
  <2>1. [l EXCEPT !.buf = current] \in Local
    BY <1>0, SetLocal DEF SharedOK
  <2>2. loc' = [loc EXCEPT ![t] = [l EXCEPT !.buf = current]]
    BY <1>3 DEF LoadCurrent
  <2> QED
    BY <1>0, <1>3, <2>1, <2>2, ThreadStep DEF LoadCurrent, Goto, At, Labels
<1>4. CASE ReserveLoad(t)
  <2>1. CASE UNCHANGED loc /\ (Goto(t, "poll") \/ Goto(t, "load") \/ Goto(t, "seal"))
    BY <1>0, <2>1, ThreadMove DEF Goto, Labels
  <2>2. CASE /\ IsOpen(word[l.buf]) /\ word[l.buf].offset + l.size <= Block
             /\ loc' = [loc EXCEPT ![t].seen = word[l.buf]]
             /\ Goto(t, "cas")
    <3> DEFINE k == [l EXCEPT !.seen = word[l.buf]]
    <3>1. k \in Local /\ k.seen = word[l.buf] /\ k.size = l.size
      BY <1>0, SetLocal DEF Local
    <3>2. loc' = [loc EXCEPT ![t] = k] /\ pc' = [pc EXCEPT ![t] = "cas"]
      BY <2>2 DEF Goto
    <3> HIDE DEF k
    <3>3. pc' \in [Threads -> Labels] /\ loc' \in [Threads -> Local]
      BY <1>0, <3>1, <3>2 DEF ThreadOK, Labels
    <3>4. SeenWasOpen' /\ ScanBounded'
      BY <1>0, <2>2, <3>1, <3>2 DEF ThreadOK, SeenWasOpen, ScanBounded
    <3> QED
      BY <3>3, <3>4 DEF ThreadOK
  <2> QED
    BY <1>4, <2>1, <2>2 DEF ReserveLoad
<1>5. CASE ReserveCas(t)
  <2>1. CASE UNCHANGED loc /\ Goto(t, "load")
    BY <1>0, <2>1, ThreadMove DEF Goto, Labels
  <2>2. CASE loc' = [loc EXCEPT ![t].off = l.seen.offset] /\ Goto(t, "copy")
    <3>1. [l EXCEPT !.off = l.seen.offset] \in Local
      BY <1>0, SetLocal, FlagOps
    <3>2. loc' = [loc EXCEPT ![t] = [l EXCEPT !.off = l.seen.offset]]
      BY <2>2
    <3> QED
      BY <1>0, <2>2, <3>1, <3>2, ThreadStep DEF Goto, Labels
  <2> QED
    BY <1>5, <2>1, <2>2 DEF ReserveCas
<1>6. CASE Write(t)
  BY <1>0, <1>6, ThreadMove DEF Write, Goto, At, Labels
<1>7. CASE DecrementWriters(t)
  <2>1. CASE ReturnOk(t)
    BY <1>0, <2>1, ReturnLocals, ThreadStep DEF ReturnOk, Goto, Labels
  <2>2. CASE loc' = [loc EXCEPT ![t].mode = "writer"] /\ Goto(t, "claim")
    <3>1. [l EXCEPT !.mode = "writer"] \in Local
      BY <1>0, SetLocal
    <3>2. loc' = [loc EXCEPT ![t] = [l EXCEPT !.mode = "writer"]]
      BY <2>2
    <3> QED
      BY <1>0, <2>2, <3>1, <3>2, ThreadStep DEF Goto, Labels
  <2> QED
    BY <1>7, <2>1, <2>2 DEF DecrementWriters
<1>8. CASE ClaimFlush(t)
  <2>1. CASE ReturnOk(t)
    BY <1>0, <2>1, ReturnLocals, ThreadStep DEF ReturnOk, Goto, Labels
  <2>2. CASE UNCHANGED loc /\ (Goto(t, "flush") \/ Goto(t, "reset"))
    BY <1>0, <2>2, ThreadMove DEF Goto, Labels
  <2>9. CASE ReturnSealed(t)
    <3>1. [NoLocals EXCEPT !.size = l.size] \in Local
      BY <1>0, ReturnLocals
    <3> QED
      BY <1>0, <2>9, <3>1, ThreadStep DEF ReturnSealed, Goto, Labels
  <2> QED
    BY <1>8, <2>1, <2>2, <2>9 DEF ClaimFlush
<1>9. CASE Seal(t)
  <2>1. CASE loc' = [loc EXCEPT ![t].mode = "sealer"] /\ Goto(t, "size")
    <3>1. [l EXCEPT !.mode = "sealer"] \in Local
      BY <1>0, SetLocal
    <3>2. loc' = [loc EXCEPT ![t] = [l EXCEPT !.mode = "sealer"]]
      BY <2>1
    <3> QED
      BY <1>0, <2>1, <3>1, <3>2, ThreadStep DEF Goto, Labels
  <2>9. CASE ReturnSealed(t)
    <3>1. [NoLocals EXCEPT !.size = l.size] \in Local
      BY <1>0, ReturnLocals
    <3> QED
      BY <1>0, <2>9, <3>1, ThreadStep DEF ReturnSealed, Goto, Labels
  <2> QED
    BY <1>9, <2>1, <2>9 DEF Seal
<1>10. CASE SealSize(t)
  <2>1. [l EXCEPT !.len = NextMultipleOf(word[l.buf].offset, Page)] \in Local
    BY <1>0, SetLocal, PaddedNat DEF SharedOK
  <2>2. loc' = [loc EXCEPT ![t] = [l EXCEPT !.len = NextMultipleOf(word[l.buf].offset, Page)]]
    BY <1>10 DEF SealSize
  <2> QED
    BY <1>0, <1>10, <2>1, <2>2, ThreadStep DEF SealSize, Goto, At, Labels
<1>11. CASE ClaimSlot(t)
  <2>1. [l EXCEPT !.at = next_address] \in Local
    BY <1>0, SetLocal DEF SharedOK
  <2>2. loc' = [loc EXCEPT ![t] = [l EXCEPT !.at = next_address]]
    BY <1>11 DEF ClaimSlot
  <2> QED
    BY <1>0, <1>11, <2>1, <2>2, ThreadStep DEF ClaimSlot, Goto, At, Labels
<1>12. CASE StoreAddress(t)
  BY <1>0, <1>12, ThreadMove DEF StoreAddress, Goto, At, Labels
<1>13. CASE RotateLoad(t)
  BY <1>0, <1>13, ThreadMove DEF RotateLoad, Goto, At, Labels
<1>14. CASE RotateSize(t)
  <2> DEFINE k == [l EXCEPT !.len = word[l.buf].offset, !.tries = RingLen]
  <2>0. RingLen \in Nat /\ RingLen > 0
    BY BufferRingAssumption
  <2>1. k \in Local /\ k.tries = RingLen
    <3>1. k \in Local
      BY <1>0, <2>0, SetLocal
    <3> QED
      BY <1>0, <3>1 DEF Local
  <2>2. loc' = [loc EXCEPT ![t] = k] /\ pc' = [pc EXCEPT ![t] = "scan"]
    BY <1>14 DEF RotateSize, Goto
  <2> HIDE DEF k
  <2>3. pc' \in [Threads -> Labels] /\ loc' \in [Threads -> Local]
    BY <1>0, <2>1, <2>2 DEF ThreadOK, Labels
  <2>4. SeenWasOpen' /\ ScanBounded'
    BY <1>0, <2>0, <2>1, <2>2 DEF ThreadOK, SeenWasOpen, ScanBounded
  <2> QED
    BY <2>3, <2>4 DEF ThreadOK
<1>15. CASE RotateScan(t)
  <2>1. l.tries - 1 \in Nat
    BY <1>0, <1>15 DEF ThreadOK, ScanBounded, RotateScan, At
  <2>2. [l EXCEPT !.cand = next_index, !.tries = l.tries - 1] \in Local
    BY <1>0, <2>1, SetLocal DEF SharedOK
  <2>3. loc' = [loc EXCEPT ![t] = [l EXCEPT !.cand = next_index, !.tries = l.tries - 1]]
    BY <1>15 DEF RotateScan
  <2> QED
    BY <1>0, <1>15, <2>2, <2>3, ThreadStep DEF RotateScan, Goto, Labels
<1>16. CASE RotateCheck(t)
  <2>1. CASE Goto(t, "swap") \/ Goto(t, "drain")
    BY <1>0, <1>16, <2>1, ThreadMove DEF RotateCheck, Goto, Labels
  <2>2. CASE Goto(t, "scan") /\ l.tries > 0
    BY <1>0, <1>16, <2>2 DEF RotateCheck, Goto, Labels, ThreadOK, SeenWasOpen, ScanBounded
  <2> QED
    BY <1>16, <2>1, <2>2 DEF RotateCheck
<1>17. CASE RotateSwap(t)
  BY <1>0, <1>17, ThreadMove DEF RotateSwap, Goto, At, Labels
<1>18. CASE RotateReserve(t)
  <2>1. [l EXCEPT !.at = next_address] \in Local
    BY <1>0, SetLocal DEF SharedOK
  <2>2. loc' = [loc EXCEPT ![t] = [l EXCEPT !.at = next_address]]
    BY <1>18 DEF RotateReserve
  <2> QED
    BY <1>0, <1>18, <2>1, <2>2, ThreadStep DEF RotateReserve, Goto, At, Labels
<1>19. CASE RotateAddress(t)
  BY <1>0, <1>19, ThreadMove DEF RotateAddress, Goto, At, Labels
<1>20. CASE DrainCheck(t)
  <2>1. CASE UNCHANGED loc /\ Goto(t, "claim")
    BY <1>0, <2>1, ThreadMove DEF Goto, Labels
  <2>9. CASE ReturnSealed(t)
    <3>1. [NoLocals EXCEPT !.size = l.size] \in Local
      BY <1>0, ReturnLocals
    <3> QED
      BY <1>0, <2>9, <3>1, ThreadStep DEF ReturnSealed, Goto, Labels
  <2> QED
    BY <1>20, <2>1, <2>9 DEF DrainCheck
<1>21. CASE FlushMark(t)
  BY <1>0, <1>21, ThreadMove DEF FlushMark, Goto, At, Labels
<1>22. CASE FlushLen(t)
  <2>1. [l EXCEPT !.len = NextMultipleOf(word[l.buf].offset, Page)] \in Local
    BY <1>0, SetLocal, PaddedNat DEF SharedOK
  <2>2. loc' = [loc EXCEPT ![t] = [l EXCEPT !.len = NextMultipleOf(word[l.buf].offset, Page)]]
    BY <1>22 DEF FlushLen
  <2> QED
    BY <1>0, <1>22, <2>1, <2>2, ThreadStep DEF FlushLen, Goto, At, Labels
<1>23. CASE FlushAt(t)
  <2>1. [l EXCEPT !.at = address[l.buf]] \in Local
    BY <1>0, SetLocal DEF SharedOK
  <2>2. loc' = [loc EXCEPT ![t] = [l EXCEPT !.at = address[l.buf]]]
    BY <1>23 DEF FlushAt
  <2> QED
    BY <1>0, <1>23, <2>1, <2>2, ThreadStep DEF FlushAt, Goto, At, Labels
<1>24. CASE Submit(t)
  <2>1. CASE ReturnOk(t)
    BY <1>0, <2>1, ReturnLocals, ThreadStep DEF ReturnOk, Goto, Labels
  <2> QED
    BY <1>24, <2>1 DEF Submit
<1>25. CASE ResetState(t)
  BY <1>0, <1>25, ThreadMove DEF ResetState, Goto, At, Labels
<1>26. CASE ResetAddress(t)
  <2>1. CASE ReturnOk(t)
    BY <1>0, <2>1, ReturnLocals, ThreadStep DEF ReturnOk, Goto, Labels
  <2>2. CASE UNCHANGED loc /\ Goto(t, "reap")
    BY <1>0, <2>2, ThreadMove DEF Goto, Labels
  <2> QED
    BY <1>26, <2>1, <2>2 DEF ResetAddress
<1>27. CASE PollDrain(t)
  <2>1. CASE loc' = [loc EXCEPT ![t].mode = "poller"] /\ Goto(t, "reap")
    <3>1. [l EXCEPT !.mode = "poller"] \in Local
      BY <1>0, SetLocal
    <3>2. loc' = [loc EXCEPT ![t] = [l EXCEPT !.mode = "poller"]]
      BY <2>1
    <3> QED
      BY <1>0, <2>1, <3>1, <3>2, ThreadStep DEF Goto, Labels
  <2>2. CASE /\ loc' = [loc EXCEPT ![t] = [NoLocals EXCEPT !.size = l.size]]
             /\ Goto(t, "idle") \/ Goto(t, "load")
    <3>1. [NoLocals EXCEPT !.size = l.size] \in Local
      BY <1>0, ReturnLocals
    <3> QED
      BY <1>0, <2>2, <3>1, ThreadStep DEF Goto, Labels
  <2> QED
    BY <1>27, <2>1, <2>2 DEF PollDrain
<1>28. CASE Reap(t)
  <2>1. CASE UNCHANGED loc /\ Goto(t, "poll")
    BY <1>0, <2>1, ThreadMove DEF Goto, Labels
  <2>2. ASSUME NEW c \in got[t], loc' = [loc EXCEPT ![t].buf = c.buf],
               Goto(t, "retry") \/ Goto(t, "sendAt") \/ Goto(t, "reset")
        PROVE  ThreadOK'
    <3>1. c.buf \in Buffers
      BY <1>0 DEF SharedOK, Cqe
    <3>2. [l EXCEPT !.buf = c.buf] \in Local
      BY <1>0, <3>1, SetLocal
    <3>3. loc' = [loc EXCEPT ![t] = [l EXCEPT !.buf = c.buf]]
      BY <2>2
    <3> QED
      BY <1>0, <2>2, <3>2, <3>3, ThreadStep DEF Goto, Labels
  <2> QED
    BY <1>28, <2>1, <2>2 DEF Reap
<1>29. CASE Retry(t)
  BY <1>0, <1>29, ThreadMove DEF Retry, Goto, At, Labels
<1>30. CASE SendAddress(t)
  <2>1. [l EXCEPT !.at = address[l.buf]] \in Local
    BY <1>0, SetLocal DEF SharedOK
  <2>2. loc' = [loc EXCEPT ![t] = [l EXCEPT !.at = address[l.buf]]]
    BY <1>30 DEF SendAddress
  <2> QED
    BY <1>0, <1>30, <2>1, <2>2, ThreadStep DEF SendAddress, Goto, At, Labels
<1>31. CASE SendReport(t)
  BY <1>0, <1>31, ThreadMove DEF SendReport, Goto, At, Labels
<1> QED
  BY <1>1, <1>2, <1>3, <1>4, <1>5, <1>6, <1>7, <1>8, <1>9, <1>10, <1>11,
     <1>12, <1>13, <1>14, <1>15, <1>16, <1>17, <1>18, <1>19, <1>20, <1>21,
     <1>22, <1>23, <1>24, <1>25, <1>26, <1>27, <1>28, <1>29, <1>30, <1>31
     DEF Step

\* A step that leaves the variables of the shared part alone.
LEMMA SharedSame ==
  ASSUME SharedOK,
         UNCHANGED <<word, address, sqe, current, next_index, next_address, sq,
                     kernel, cq, got, serial>>
  PROVE  SharedOK'
  BY DEF SharedOK

\* A step that assigns one state word of the right type and nothing else.
LEMMA SharedWord ==
  ASSUME SharedOK, NEW b \in Buffers, NEW w \in Word,
         word' = [word EXCEPT ![b] = w],
         UNCHANGED <<address, sqe, current, next_index, next_address, sq, kernel,
                     cq, got, serial>>
  PROVE  SharedOK'
  BY DEF SharedOK

\* io_uring_enter moves typed requests around, or fails.
LEMMA EnterTypes ==
  ASSUME sq \subseteq Request, kernel \subseteq Request,
         NEW S \in SUBSET Request, Enter(S)
  PROVE  sq' \subseteq Request /\ kernel' \subseteq Request
  BY DEF Enter

\* A step of a thread keeps the shared part of the type invariant.
LEMMA StepSharedOK ==
  ASSUME TInv, NEW t \in Threads, StartMessage(t) \/ StartPoll(t) \/ Step(t)
  PROVE  SharedOK'
<1> DEFINE l == loc[t]
<1> USE DEF bufVars, ringVars, uringVars, clientVars
<1>0. /\ SharedOK
      /\ l.buf \in Buffers /\ l.cand \in Buffers /\ l.seen \in Word
      /\ l.size \in Nat /\ l.at \in Nat /\ l.len \in Nat
      /\ word[l.buf] \in Word
  <2>1. l \in Local
    BY DEF TInv, ThreadOK
  <2> QED
    BY <2>1, SetLocal DEF TInv, SharedOK
<1>1. CASE \/ StartMessage(t) \/ StartPoll(t)  \/ LoadCurrent(t) \/ ReserveLoad(t)
           \/ Write(t)        \/ SealSize(t)   \/ RotateLoad(t)  \/ RotateSize(t)
           \/ RotateCheck(t)  \/ DrainCheck(t) \/ FlushLen(t)    \/ FlushAt(t)
           \/ SendAddress(t)  \/ SendReport(t)
  BY <1>0, <1>1, SharedSame DEF StartMessage, StartPoll, LoadCurrent, ReserveLoad,
     Write, SealSize, RotateLoad, RotateSize, RotateCheck, DrainCheck, FlushLen,
     FlushAt, SendAddress, SendReport
<1>2. CASE ReserveCas(t)
  <2>1. l.seen.offset + l.size <= Block
    BY <1>2 DEF ReserveCas, At, TInv, ThreadOK, SeenWasOpen
  <2>2. Reserved(l.seen, l.size) \in Word
    BY <1>0, <2>1, ReservedOps
  <2> QED
    BY <1>0, <1>2, <2>2, SharedWord, SharedSame DEF ReserveCas
<1>3. CASE DecrementWriters(t)
  <2>1. SubWriter(word[l.buf]) \in Word
    BY <1>0, WriterOps
  <2> QED
    BY <1>0, <1>3, <2>1, SharedWord DEF DecrementWriters
<1>4. CASE Seal(t) \/ ClaimFlush(t) \/ FlushMark(t) \/ ResetState(t)
  <2>1. /\ SetSealed(word[l.buf]) \in Word /\ SetFlushing(word[l.buf]) \in Word
        /\ ZeroWord \in Word
    BY <1>0, FlagOps
  <2> QED
    BY <1>0, <1>4, <2>1, SharedWord DEF Seal, ClaimFlush, FlushMark, ResetState
<1>5. CASE ClaimSlot(t) \/ RotateReserve(t)
  BY <1>0, <1>5 DEF ClaimSlot, RotateReserve, SharedOK
<1>6. CASE StoreAddress(t) \/ RotateAddress(t) \/ ResetAddress(t)
  BY <1>0, <1>6 DEF StoreAddress, RotateAddress, ResetAddress, SharedOK
<1>7. CASE RotateScan(t)
  BY <1>0, <1>7, IndexInRing DEF RotateScan, SharedOK
<1>8. CASE RotateSwap(t)
  BY <1>0, <1>8 DEF RotateSwap, SharedOK
<1>9. CASE Submit(t)
  <2> DEFINE e == [at |-> l.at, len |-> l.len]
  <2>1. e \in Sqe /\ NewRequest(l.buf, e) \in Request
    BY <1>0 DEF Sqe, Request, NewRequest, SharedOK
  <2>2. sq \cup {NewRequest(l.buf, e)} \in SUBSET Request
    BY <1>0, <2>1 DEF SharedOK
  <2>3. CASE /\ sqe' = [sqe EXCEPT ![l.buf] = {e}] /\ serial' = serial + 1
             /\ Enter(sq \cup {NewRequest(l.buf, e)})
    <3>1. sq' \subseteq Request /\ kernel' \subseteq Request
      BY <1>0, <2>2, <2>3, EnterTypes DEF SharedOK
    <3>2. sqe' \in [Buffers -> SUBSET Sqe]
      BY <1>0, <2>1, <2>3 DEF SharedOK
    <3> QED
      BY <1>0, <1>9, <2>3, <3>1, <3>2 DEF Submit, SharedOK
  <2>4. CASE UNCHANGED <<sqe, serial, sq, kernel, submitFaults>>
    BY <1>0, <1>9, <2>4, SharedSame DEF Submit
  <2> QED
    BY <1>9, <2>3, <2>4 DEF Submit, PushEntry
<1>10. CASE PollDrain(t)
  BY <1>0, <1>10 DEF PollDrain, SharedOK
<1>11. CASE Reap(t)
  BY <1>0, <1>11 DEF Reap, SharedOK
<1>12. CASE Retry(t)
  <2>1. CASE UNCHANGED <<serial, sq, kernel, submitFaults>>
    BY <1>0, <1>12, <2>1, SharedSame DEF Retry
  <2>2. ASSUME NEW e \in sqe[l.buf], serial' = serial + 1,
               Enter(sq \cup {NewRequest(l.buf, e)})
        PROVE  SharedOK'
    <3>1. e \in Sqe
      BY <1>0 DEF SharedOK
    <3>2. NewRequest(l.buf, e) \in Request
      BY <1>0, <3>1 DEF Sqe, Request, NewRequest, SharedOK
    <3>3. sq \cup {NewRequest(l.buf, e)} \in SUBSET Request
      BY <1>0, <3>2 DEF SharedOK
    <3>4. sq' \subseteq Request /\ kernel' \subseteq Request
      BY <1>0, <2>2, <3>3, EnterTypes DEF SharedOK
    <3> QED
      BY <1>0, <1>12, <2>2, <3>4 DEF Retry, SharedOK
  <2>3. CASE Enter(sq) /\ UNCHANGED serial
    <3>1. sq' \subseteq Request /\ kernel' \subseteq Request
      BY <1>0, <2>3, EnterTypes DEF SharedOK
    <3> QED
      BY <1>0, <1>12, <2>3, <3>1 DEF Retry, SharedOK
  <2> QED
    BY <1>12, <2>1, <2>2, <2>3 DEF Retry
<1> QED
  BY <1>1, <1>2, <1>3, <1>4, <1>5, <1>6, <1>7, <1>8, <1>9, <1>10, <1>11, <1>12
     DEF Step

\* The kernel keeps the shared part of the type invariant.
LEMMA KernelSharedOK ==
  ASSUME SharedOK, KernelComplete \/ KernelFail
  PROVE  SharedOK'
<1>1. PICK r \in kernel, ok \in BOOLEAN :
        /\ kernel' = kernel \ {r}
        /\ cq' = cq \cup {[id |-> r.id, buf |-> r.buf, ok |-> ok]}
  BY DEF KernelComplete, KernelFail
<1>2. [id |-> r.id, buf |-> r.buf, ok |-> ok] \in Cqe
  BY DEF SharedOK, Request, Cqe
<1>3. UNCHANGED <<word, address, sqe, current, next_index, next_address, sq, got,
                  serial>>
  BY DEF KernelComplete, KernelFail, bufVars, ringVars
<1> QED
  BY <1>1, <1>2, <1>3 DEF SharedOK

\* Every step keeps the type invariant.
LEMMA NextTInv == TInv /\ [Next]_vars => TInv'
<1> SUFFICES ASSUME TInv, [Next]_vars PROVE TInv'
  OBVIOUS
<1>1. ASSUME NEW t \in Threads, StartMessage(t) \/ StartPoll(t) \/ Step(t)
      PROVE  TInv'
  BY <1>1, StepThreadOK, StepSharedOK DEF TInv
<1>2. CASE KernelComplete \/ KernelFail
  <2>1. SharedOK'
    BY <1>2, KernelSharedOK DEF TInv
  <2>2. pc' = pc /\ loc' = loc
    BY <1>2 DEF KernelComplete, KernelFail
  <2> QED
    BY <2>1, <2>2 DEF TInv, ThreadOK, SeenWasOpen, ScanBounded
<1>3. CASE UNCHANGED vars
  BY <1>3 DEF vars, bufVars, ringVars, uringVars, TInv, ThreadOK, SharedOK,
     SeenWasOpen, ScanBounded
<1> QED
  BY <1>1, <1>2, <1>3 DEF Next

\* Everything the ring, the threads and the io_uring queues keep stays in its
\* type: no index leaves the ring and no word leaves its 64 bits, even when the
\* writer count under- or overflows.
THEOREM TypeCorrect == Spec => []TypeOK
<1>1. TInv /\ opt \in Options => TypeOK
  BY DEF TInv, ThreadOK, SharedOK, TypeOK
<1>2. Init => opt \in Options
  BY DEF Init
<1>3. opt \in Options /\ [Next]_vars => (opt \in Options)'
  BY DEF Next, vars
<1> QED
  BY <1>1, <1>2, <1>3, InitTInv, NextTInv, PTL DEF Spec

-----------------------------------------------------------------------------
(* Flush ownership *)

\* FlushOwnership pair by pair: who may exist beside an owner, beside a request
\* and beside a completion, and that each of them implies the flushing bit.
Owner(t) == pc[t] \in OwnerLabels

OwnerAlone ==
  \A t \in Threads : Owner(t) =>
    /\ \A u \in Threads : Owner(u) /\ loc[u].buf = loc[t].buf => u = t
    /\ \A r \in sq \cup kernel : r.buf # loc[t].buf
    /\ \A c \in cq : c.buf # loc[t].buf
    /\ \A u \in Threads : \A c \in got[u] : c.buf # loc[t].buf

RequestAlone ==
  /\ \A r \in sq : r \notin kernel
  /\ \A r \in sq \cup kernel :
       /\ \A s \in sq \cup kernel : s.buf = r.buf => s = r
       /\ \A c \in cq : c.buf # r.buf
       /\ \A u \in Threads : \A c \in got[u] : c.buf # r.buf

CompletionAlone ==
  /\ \A c \in cq : /\ \A d \in cq : d.buf = c.buf => d = c
                   /\ \A u \in Threads : \A d \in got[u] : d.buf # c.buf
  /\ \A t, u \in Threads : \A c \in got[t] : \A d \in got[u] :
       d.buf = c.buf => u = t /\ d = c

Marked ==
  /\ \A t \in Threads : Owner(t) => word[loc[t].buf].flushing
  /\ \A r \in sq \cup kernel : word[r.buf].flushing
  /\ \A c \in cq : word[c.buf].flushing
  /\ \A t \in Threads : \A c \in got[t] : word[c.buf].flushing

OInv == OwnerAlone /\ RequestAlone /\ CompletionAlone /\ Marked

\* Nobody owns anything in a new ring.
LEMMA InitOInv == Init => OInv
  BY DEF Init, OInv, OwnerAlone, RequestAlone, CompletionAlone, Marked, Owner,
     OwnerLabels

\* A step that creates no owner and touches no queue, and in which no word loses
\* the flushing bit.
LEMMA QuietStep ==
  ASSUME OInv, UNCHANGED <<sq, kernel, cq, got>>,
         \A u \in Threads : Owner(u)' => Owner(u) /\ loc'[u].buf = loc[u].buf,
         \A b \in Buffers : word[b].flushing => word'[b].flushing,
         TInv
  PROVE  OInv'
<1>1. /\ \A u \in Threads : loc[u].buf \in Buffers
      /\ \A r \in sq \cup kernel : r.buf \in Buffers
      /\ \A c \in cq : c.buf \in Buffers
      /\ \A u \in Threads : \A c \in got[u] : c.buf \in Buffers
  BY DEF TInv, ThreadOK, SharedOK, Local, Request, Cqe
<1>2. OwnerAlone' /\ RequestAlone' /\ CompletionAlone'
  BY DEF OInv, OwnerAlone, RequestAlone, CompletionAlone
<1>3. Marked'
  BY <1>1 DEF OInv, Marked
<1> QED
  BY <1>2, <1>3 DEF OInv

\* The thread steps that leave every flush with the holder it has.
LEMMA QuietActions ==
  ASSUME TInv, OInv, NEW t \in Threads,
         \/ StartMessage(t)  \/ StartPoll(t)   \/ LoadCurrent(t)  \/ ReserveLoad(t)
         \/ ReserveCas(t)    \/ Write(t)       \/ DecrementWriters(t)
         \/ Seal(t)          \/ SealSize(t)    \/ ClaimSlot(t)    \/ StoreAddress(t)
         \/ RotateLoad(t)    \/ RotateSize(t)  \/ RotateScan(t)   \/ RotateCheck(t)
         \/ RotateSwap(t)    \/ RotateReserve(t) \/ RotateAddress(t)
         \/ DrainCheck(t)    \/ FlushMark(t)   \/ FlushLen(t)     \/ FlushAt(t)
         \/ ResetAddress(t)  \/ SendAddress(t) \/ SendReport(t)
  PROVE  OInv'
<1> DEFINE b == loc[t].buf
<1> USE DEF bufVars, ringVars, uringVars, clientVars
<1>0. /\ pc \in [Threads -> Labels] /\ loc \in [Threads -> Local]
      /\ b \in Buffers /\ loc[t].seen \in Word /\ loc[t].size \in Nat
      /\ word \in [Buffers -> Word] /\ word[b] \in Word
  <2>1. loc[t] \in Local
    BY DEF TInv, ThreadOK
  <2> QED
    BY <2>1, SetLocal DEF TInv, ThreadOK, SharedOK
<1>1. UNCHANGED <<sq, kernel, cq, got>>
  BY DEF StartMessage, StartPoll, LoadCurrent, ReserveLoad, ReserveCas, Write,
     DecrementWriters, Seal, SealSize, ClaimSlot, StoreAddress, RotateLoad,
     RotateSize, RotateScan, RotateCheck, RotateSwap, RotateReserve,
     RotateAddress, DrainCheck, FlushMark, FlushLen, FlushAt, ResetAddress,
     SendAddress, SendReport
<1>2. \A u \in Threads : Owner(u)' => Owner(u) /\ loc'[u].buf = loc[u].buf
  <2> USE DEF Goto, At, Owner, OwnerLabels
  <2>1. CASE FlushMark(t) \/ FlushLen(t) \/ FlushAt(t) \/ SendAddress(t) \/ SendReport(t)
    <3>1. pc[t] \in OwnerLabels /\ \A u \in Threads : loc'[u].buf = loc[u].buf
      BY <1>0, <2>1 DEF FlushMark, FlushLen, FlushAt, SendAddress, SendReport, Local
    <3> QED
      BY <1>0, <2>1, <3>1 DEF FlushMark, FlushLen, FlushAt, SendAddress, SendReport
  <2>2. ASSUME ~(FlushMark(t) \/ FlushLen(t) \/ FlushAt(t) \/ SendAddress(t) \/ SendReport(t))
        PROVE  /\ pc'[t] \notin OwnerLabels
               /\ \A u \in Threads \ {t} : pc'[u] = pc[u] /\ loc'[u] = loc[u]
    <3>1. CASE \/ StartMessage(t) \/ StartPoll(t) \/ LoadCurrent(t) \/ ReserveLoad(t)
               \/ ReserveCas(t) \/ Write(t)
      BY <1>0, <3>1 DEF StartMessage, StartPoll, LoadCurrent, ReserveLoad,
         ReserveCas, Write
    <3>2. CASE DecrementWriters(t) \/ Seal(t) \/ DrainCheck(t) \/ ResetAddress(t)
      BY <1>0, <3>2 DEF DecrementWriters, Seal, DrainCheck, ResetAddress, ReturnOk,
         ReturnSealed
    <3>3. CASE \/ SealSize(t) \/ ClaimSlot(t) \/ StoreAddress(t) \/ RotateLoad(t)
               \/ RotateSize(t) \/ RotateScan(t) \/ RotateCheck(t) \/ RotateSwap(t)
               \/ RotateReserve(t) \/ RotateAddress(t)
      BY <1>0, <3>3 DEF SealSize, ClaimSlot, StoreAddress, RotateLoad, RotateSize,
         RotateScan, RotateCheck, RotateSwap, RotateReserve, RotateAddress
    <3> QED
      BY <2>2, <3>1, <3>2, <3>3
  <2> QED
    BY <2>1, <2>2
<1>3. \A c \in Buffers : word[c].flushing => word'[c].flushing
  <2>1. CASE ReserveCas(t)
    <3>1. loc[t].seen.offset + loc[t].size <= Block
      BY <2>1 DEF ReserveCas, At, TInv, ThreadOK, SeenWasOpen
    <3>2. Reserved(loc[t].seen, loc[t].size).flushing = loc[t].seen.flushing
      BY <1>0, <3>1, ReservedOps
    <3>3. \/ word' = word
          \/ /\ word[b] = loc[t].seen
             /\ word' = [word EXCEPT ![b] = Reserved(loc[t].seen, loc[t].size)]
      BY <2>1 DEF ReserveCas
    <3> QED
      BY <1>0, <3>2, <3>3
  <2>2. CASE DecrementWriters(t)
    <3>1. SubWriter(word[b]).flushing = word[b].flushing
      BY <1>0, WriterOps
    <3>2. word' = [word EXCEPT ![b] = SubWriter(word[b])]
      BY <2>2 DEF DecrementWriters
    <3> QED
      BY <1>0, <3>1, <3>2
  <2>3. CASE Seal(t) \/ FlushMark(t)
    <3>1. SetSealed(word[b]).flushing = word[b].flushing /\ SetFlushing(word[b]).flushing
      BY <1>0, FlagOps
    <3>2. \/ word' = [word EXCEPT ![b] = SetSealed(word[b])]
          \/ word' = [word EXCEPT ![b] = SetFlushing(word[b])]
      BY <2>3 DEF Seal, FlushMark
    <3> QED
      BY <1>0, <3>1, <3>2
  <2>4. ASSUME ~(ReserveCas(t) \/ DecrementWriters(t) \/ Seal(t) \/ FlushMark(t))
        PROVE  word' = word
    BY <2>4 DEF StartMessage, StartPoll, LoadCurrent, ReserveLoad, Write, SealSize,
       ClaimSlot, StoreAddress, RotateLoad, RotateSize, RotateScan, RotateCheck,
       RotateSwap, RotateReserve, RotateAddress, DrainCheck, FlushLen, FlushAt,
       ResetAddress, SendAddress, SendReport
  <2> QED
    BY <2>1, <2>2, <2>3, <2>4
<1> QED
  BY <1>1, <1>2, <1>3, QuietStep

\* Winning the bit: it was clear, so no flush of the buffer existed, and the
\* winner becomes the only owner.  Losing changes nothing.
LEMMA ClaimStep ==
  ASSUME TInv, OInv, NEW t \in Threads, ClaimFlush(t)
  PROVE  OInv'
<1> DEFINE b == loc[t].buf
<1> USE DEF bufVars, ringVars, uringVars, clientVars
<1>0. /\ pc \in [Threads -> Labels] /\ loc \in [Threads -> Local]
      /\ b \in Buffers /\ word \in [Buffers -> Word] /\ word[b] \in Word
  <2>1. loc[t] \in Local
    BY DEF TInv, ThreadOK
  <2> QED
    BY <2>1, SetLocal DEF TInv, ThreadOK, SharedOK
<1>1. /\ UNCHANGED <<sq, kernel, cq, got>>
      /\ word' = [word EXCEPT ![b] = SetFlushing(word[b])]
  BY DEF ClaimFlush
<1>2. \A c \in Buffers : word[c].flushing => word'[c].flushing
  BY <1>0, <1>1, FlagOps
<1>3. word'[b].flushing
  BY <1>0, <1>1, FlagOps
<1>4. CASE word[b].flushing
  <2>1. \A u \in Threads : Owner(u)' => Owner(u) /\ loc'[u].buf = loc[u].buf
    BY <1>0, <1>4 DEF ClaimFlush, ReturnOk, ReturnSealed, Goto, At, Owner, OwnerLabels
  <2> QED
    BY <1>1, <1>2, <2>1, QuietStep
<1>5. CASE ~word[b].flushing
  <2>1. /\ loc' = loc /\ pc' = [pc EXCEPT ![t] = pc'[t]] /\ Owner(t)' /\ ~Owner(t)
    BY <1>0, <1>5 DEF ClaimFlush, Goto, At, Owner, OwnerLabels
  <2>2. \A u \in Threads : u # t => (Owner(u)' <=> Owner(u))
    BY <1>0, <2>1 DEF Owner
  <2>3. /\ \A u \in Threads : Owner(u) => loc[u].buf # b
        /\ \A r \in sq \cup kernel : r.buf # b
        /\ \A c \in cq : c.buf # b
        /\ \A u \in Threads : \A c \in got[u] : c.buf # b
    BY <1>5 DEF OInv, Marked
  <2>4. OwnerAlone'
    BY <1>1, <2>1, <2>2, <2>3 DEF OInv, OwnerAlone
  <2>5. RequestAlone' /\ CompletionAlone'
    BY <1>1 DEF OInv, RequestAlone, CompletionAlone
  <2>6. /\ \A u \in Threads : loc[u].buf \in Buffers
        /\ \A r \in sq \cup kernel : r.buf \in Buffers
        /\ \A c \in cq : c.buf \in Buffers
        /\ \A u \in Threads : \A c \in got[u] : c.buf \in Buffers
    BY DEF TInv, ThreadOK, SharedOK, Local, Request, Cqe
  <2>7. Marked'
    BY <1>1, <1>2, <1>3, <2>1, <2>2, <2>6 DEF OInv, Marked
  <2> QED
    BY <2>4, <2>5, <2>7 DEF OInv
<1> QED
  BY <1>4, <1>5

\* The buffers that threads, requests and completions name are in the ring.
LEMMA NamedBuffers ==
  ASSUME TInv
  PROVE  /\ pc \in [Threads -> Labels] /\ word \in [Buffers -> Word]
         /\ \A u \in Threads : loc[u].buf \in Buffers
         /\ \A r \in sq \cup kernel : r.buf \in Buffers
         /\ \A c \in cq : c.buf \in Buffers
         /\ \A u \in Threads : \A c \in got[u] : c.buf \in Buffers
  BY DEF TInv, ThreadOK, SharedOK, Local, Request, Cqe

\* The store that clears the word is the owner's, so no other flush of the
\* buffer loses its bit.
LEMMA ResetStep ==
  ASSUME TInv, OInv, NEW t \in Threads, ResetState(t)
  PROVE  OInv'
<1> DEFINE b == loc[t].buf
<1>1. /\ UNCHANGED <<sq, kernel, cq, got, loc>> /\ Owner(t)
      /\ word' = [word EXCEPT ![b] = ZeroWord] /\ ~Owner(t)'
      /\ \A u \in Threads : Owner(u)' => Owner(u) /\ u # t
  BY NamedBuffers DEF ResetState, Goto, At, Owner, OwnerLabels, uringVars
<1>2. OwnerAlone' /\ RequestAlone' /\ CompletionAlone'
  BY <1>1 DEF OInv, OwnerAlone, RequestAlone, CompletionAlone
<1>3. \A c \in Buffers : c # b => word'[c] = word[c]
  BY <1>1, NamedBuffers
<1>4. /\ \A u \in Threads : Owner(u)' => loc[u].buf # b
      /\ \A r \in sq \cup kernel : r.buf # b
      /\ \A c \in cq : c.buf # b
      /\ \A u \in Threads : \A c \in got[u] : c.buf # b
  BY <1>1 DEF OInv, OwnerAlone
<1>5. Marked'
  BY <1>1, <1>3, <1>4, NamedBuffers DEF OInv, Marked
<1> QED
  BY <1>2, <1>5 DEF OInv

\* An owner hands its flush to a request of the same buffer, or drops it.
LEMMA HandOver ==
  ASSUME TInv, OInv, NEW t \in Threads, Owner(t), ~Owner(t)',
         \A u \in Threads : u # t => pc'[u] = pc[u] /\ loc'[u] = loc[u],
         UNCHANGED <<word, cq, got>>,
         NEW R, \A r \in R : r.buf = loc[t].buf,
         \A r, s \in R : r = s,
         \/ kernel' = kernel \cup (sq \cup R) /\ sq' = {}
         \/ kernel' = kernel /\ sq' = sq \cup R
  PROVE  OInv'
<1>1. \A u \in Threads : Owner(u)' => Owner(u) /\ u # t /\ loc'[u] = loc[u]
  BY DEF Owner
<1>2. sq' \cup kernel' = (sq \cup kernel) \cup R
  OBVIOUS
<1>3. \A r \in R : r \notin sq /\ r \notin kernel
  BY DEF OInv, OwnerAlone
<1>4. \A r \in sq' : r \notin kernel'
  BY <1>3 DEF OInv, RequestAlone
<1>5. OwnerAlone'
  BY <1>1, <1>2 DEF OInv, OwnerAlone
<1>6. RequestAlone'
  BY <1>2, <1>4 DEF OInv, OwnerAlone, RequestAlone
<1>7. CompletionAlone'
  BY DEF OInv, CompletionAlone
<1>8. Marked'
  BY <1>1, <1>2 DEF OInv, Marked
<1> QED
  BY <1>5, <1>6, <1>7, <1>8 DEF OInv

\* submit_buffer, and the retry of a failed write.
LEMMA SubmitStep ==
  ASSUME TInv, OInv, NEW t \in Threads, Submit(t) \/ Retry(t)
  PROVE  OInv'
<1> DEFINE b == loc[t].buf
<1>1. /\ Owner(t) /\ ~Owner(t)'
      /\ \A u \in Threads : u # t => pc'[u] = pc[u] /\ loc'[u] = loc[u]
      /\ UNCHANGED <<word, cq, got>>
  BY NamedBuffers DEF Submit, Retry, ReturnOk, Goto, At, Owner, OwnerLabels,
     TInv, ThreadOK, bufVars
<1>2. \A e : NewRequest(b, e).buf = b
  BY DEF NewRequest
<1>3. ASSUME NEW e, Enter(sq \cup {NewRequest(b, e)}) PROVE OInv'
  <2> DEFINE R == {NewRequest(b, e)}
  <2>1. (\A r \in R : r.buf = b) /\ (\A r, s \in R : r = s)
    BY <1>2
  <2>2. \/ kernel' = kernel \cup (sq \cup R) /\ sq' = {}
        \/ kernel' = kernel /\ sq' = sq \cup R
    BY <1>3 DEF Enter
  <2> HIDE DEF R
  <2> QED
    BY <1>1, <2>1, <2>2, HandOver
<1>4. CASE Enter(sq) \/ UNCHANGED <<sq, kernel>>
  <2> DEFINE R == {}
  <2>1. (\A r \in R : r.buf = b) /\ (\A r, s \in R : r = s)
    OBVIOUS
  <2>2. \/ kernel' = kernel \cup (sq \cup R) /\ sq' = {}
        \/ kernel' = kernel /\ sq' = sq \cup R
    BY <1>4 DEF Enter
  <2> HIDE DEF R
  <2> QED
    BY <1>1, <2>1, <2>2, HandOver
<1> QED
  BY <1>3, <1>4 DEF Submit, PushEntry, Retry

\* cqe() moves all completions into the hands of one thread.
LEMMA DrainStep ==
  ASSUME TInv, OInv, NEW t \in Threads, PollDrain(t)
  PROVE  OInv'
<1>0. got \in [Threads -> SUBSET Cqe]
  BY DEF TInv, SharedOK
<1>1. /\ UNCHANGED <<word, sq, kernel>>
      /\ \A u \in Threads : Owner(u)' => Owner(u) /\ loc'[u] = loc[u]
  BY NamedBuffers DEF PollDrain, Goto, At, Owner, OwnerLabels, TInv, ThreadOK,
     bufVars
<1>2. CASE UNCHANGED <<got, cq>>
  BY <1>1, <1>2, QuietStep
<1>3. CASE got' = [got EXCEPT ![t] = cq] /\ cq' = {}
  <2>1. /\ got'[t] = cq
        /\ \A u \in Threads : u # t => got'[u] = got[u]
    BY <1>0, <1>3
  <2>2. OwnerAlone'
    BY <1>1, <1>3, <2>1 DEF OInv, OwnerAlone
  <2>3. RequestAlone'
    BY <1>1, <1>3, <2>1 DEF OInv, RequestAlone
  <2>4. CompletionAlone'
    BY <1>3, <2>1 DEF OInv, CompletionAlone
  <2>5. Marked'
    BY <1>1, <1>3, <2>1 DEF OInv, Marked
  <2> QED
    BY <2>2, <2>3, <2>4, <2>5 DEF OInv
<1> QED
  BY <1>2, <1>3 DEF PollDrain

\* Handling a completion makes the thread the owner in the completion's place.
LEMMA ReapStep ==
  ASSUME TInv, OInv, NEW t \in Threads, Reap(t)
  PROVE  OInv'
<1>0. got \in [Threads -> SUBSET Cqe] /\ loc \in [Threads -> Local]
  BY DEF TInv, SharedOK, ThreadOK
<1>1. UNCHANGED <<word, sq, kernel, cq>>
  BY DEF Reap, bufVars, uringVars
<1>2. CASE UNCHANGED <<got, loc>> /\ Goto(t, "poll")
  <2>1. \A u \in Threads : Owner(u)' => Owner(u)
    BY <1>2, NamedBuffers DEF Goto, Owner, OwnerLabels
  <2> QED
    BY <1>1, <1>2, <2>1, QuietStep
<1>3. ASSUME NEW c \in got[t], got' = [got EXCEPT ![t] = got[t] \ {c}],
             loc' = [loc EXCEPT ![t].buf = c.buf],
             Goto(t, "retry") \/ Goto(t, "sendAt") \/ Goto(t, "reset")
      PROVE  OInv'
  <2>1. /\ loc'[t].buf = c.buf
        /\ \A u \in Threads : u # t => loc'[u] = loc[u] /\ (Owner(u)' <=> Owner(u))
    BY <1>0, <1>3, NamedBuffers DEF Goto, Owner, Local
  <2>2. /\ got'[t] = got[t] \ {c}
        /\ \A u \in Threads : u # t => got'[u] = got[u]
    BY <1>0, <1>3
  <2>3. /\ \A u \in Threads : \A d \in got'[u] : d \in got[u] /\ d.buf # c.buf
        /\ \A d \in cq : d.buf # c.buf
        /\ \A r \in sq \cup kernel : r.buf # c.buf
        /\ \A u \in Threads : Owner(u) => loc[u].buf # c.buf
    <3>1. \A u \in Threads : \A d \in got'[u] : d \in got[u]
      BY <2>2
    <3>2. \A u \in Threads : \A d \in got'[u] : d.buf # c.buf
      BY <2>2 DEF OInv, CompletionAlone
    <3> QED
      BY <3>1, <3>2 DEF OInv, OwnerAlone, RequestAlone, CompletionAlone
  <2>4. OwnerAlone'
    BY <1>1, <2>1, <2>3 DEF OInv, OwnerAlone
  <2>5. RequestAlone'
    BY <1>1, <2>3 DEF OInv, RequestAlone
  <2>6. CompletionAlone'
    BY <1>1, <2>3 DEF OInv, CompletionAlone
  <2>7. Marked'
    BY <1>1, <2>1, <2>3 DEF OInv, Marked
  <2> QED
    BY <2>4, <2>5, <2>6, <2>7 DEF OInv
<1> QED
  BY <1>2, <1>3 DEF Reap

\* The kernel turns a request into its completion.
LEMMA KernelStep ==
  ASSUME TInv, OInv, KernelComplete \/ KernelFail
  PROVE  OInv'
<1>1. PICK r \in kernel, ok \in BOOLEAN :
        /\ kernel' = kernel \ {r}
        /\ cq' = cq \cup {[id |-> r.id, buf |-> r.buf, ok |-> ok]}
  BY DEF KernelComplete, KernelFail
<1>2. UNCHANGED <<word, sq, got, pc, loc>>
  BY DEF KernelComplete, KernelFail, bufVars
<1>3. PICK c : c.buf = r.buf /\ cq' = cq \cup {c}
  BY <1>1
<1>4. /\ \A s \in sq' \cup kernel' : s \in sq \cup kernel /\ s.buf # r.buf
      /\ \A d \in cq : d.buf # r.buf
      /\ \A u \in Threads : \A d \in got[u] : d.buf # r.buf
      /\ \A u \in Threads : Owner(u) => loc[u].buf # r.buf
  BY <1>1, <1>2 DEF OInv, OwnerAlone, RequestAlone
<1>5. OwnerAlone'
  BY <1>2, <1>3, <1>4 DEF OInv, OwnerAlone, Owner
<1>6. RequestAlone'
  BY <1>1, <1>2, <1>3, <1>4 DEF OInv, RequestAlone
<1>7. CompletionAlone'
  BY <1>2, <1>3, <1>4 DEF OInv, CompletionAlone
<1>8. Marked'
  BY <1>1, <1>2, <1>3, <1>4 DEF OInv, Marked, Owner
<1> QED
  BY <1>5, <1>6, <1>7, <1>8 DEF OInv

\* Every step keeps the ownership invariant.
LEMMA NextOInv == TInv /\ OInv /\ [Next]_vars => OInv'
<1> SUFFICES ASSUME TInv, OInv, [Next]_vars PROVE OInv'
  OBVIOUS
<1>1. ASSUME NEW t \in Threads, StartMessage(t) \/ StartPoll(t) \/ Step(t)
      PROVE  OInv'
  BY <1>1, QuietActions, ClaimStep, ResetStep, SubmitStep, DrainStep, ReapStep
     DEF Step
<1>2. CASE KernelComplete \/ KernelFail
  BY <1>2, KernelStep
<1>3. CASE UNCHANGED vars
  BY <1>3, QuietStep DEF vars, bufVars, uringVars, Owner
<1> QED
  BY <1>1, <1>2, <1>3 DEF Next

\* Both invariants hold throughout.
LEMMA Invariance == Spec => [](TInv /\ OInv)
  BY InitTInv, InitOInv, NextTInv, NextOInv, PTL DEF Spec

-----------------------------------------------------------------------------
(* What the invariants give *)

\* The tokens of a buffer, one kind at a time.
LEMMA TokenKinds ==
  ASSUME NEW b \in Buffers, NEW x \in Tokens(b)
  PROVE  \/ \E t \in Threads : Owns(t, b) /\ x = <<"owner", t>>
         \/ \E r \in sq : r.buf = b /\ x = <<"sq", r>>
         \/ \E r \in kernel : r.buf = b /\ x = <<"kernel", r>>
         \/ \E c \in cq : c.buf = b /\ x = <<"cq", c>>
         \/ \E t \in Threads : \E c \in got[t] : c.buf = b /\ x = <<"got", t, c>>
  BY DEF Tokens

\* The pairwise invariant says that two tokens of a buffer are the same one.
LEMMA OneToken ==
  ASSUME OInv, NEW b \in Buffers
  PROVE  /\ \A x, y \in Tokens(b) : x = y
         /\ Tokens(b) # {} => word[b].flushing
<1> USE DEF Owns, Owner
<1>1. Tokens(b) # {} => word[b].flushing
  <2> SUFFICES ASSUME NEW x \in Tokens(b) PROVE word[b].flushing
    OBVIOUS
  <2> QED
    BY TokenKinds DEF OInv, Marked
<1>2. ASSUME NEW x \in Tokens(b), NEW y \in Tokens(b) PROVE x = y
  <2>1. CASE \E t \in Threads : Owns(t, b) /\ x = <<"owner", t>>
    <3> PICK t \in Threads : Owns(t, b) /\ x = <<"owner", t>>
      BY <2>1
    <3> QED
      BY TokenKinds DEF OInv, OwnerAlone
  <2>2. CASE \E r \in sq : r.buf = b /\ x = <<"sq", r>>
    <3> PICK r \in sq : r.buf = b /\ x = <<"sq", r>>
      BY <2>2
    <3> QED
      BY TokenKinds DEF OInv, OwnerAlone, RequestAlone
  <2>3. CASE \E r \in kernel : r.buf = b /\ x = <<"kernel", r>>
    <3> PICK r \in kernel : r.buf = b /\ x = <<"kernel", r>>
      BY <2>3
    <3> QED
      BY TokenKinds DEF OInv, OwnerAlone, RequestAlone
  <2>4. CASE \E c \in cq : c.buf = b /\ x = <<"cq", c>>
    <3> PICK c \in cq : c.buf = b /\ x = <<"cq", c>>
      BY <2>4
    <3> QED
      BY TokenKinds DEF OInv, OwnerAlone, RequestAlone, CompletionAlone
  <2>5. CASE \E t \in Threads : \E c \in got[t] : c.buf = b /\ x = <<"got", t, c>>
    <3> PICK t \in Threads : \E c \in got[t] : c.buf = b /\ x = <<"got", t, c>>
      BY <2>5
    <3> PICK c \in got[t] : c.buf = b /\ x = <<"got", t, c>>
      OBVIOUS
    <3> QED
      BY TokenKinds DEF OInv, OwnerAlone, RequestAlone, CompletionAlone
  <2> QED
    BY <2>1, <2>2, <2>3, <2>4, <2>5, TokenKinds
<1> QED
  BY <1>1, <1>2

\* At most one flush of a buffer exists anywhere, from the fetch_or that wins
\* the bit to the store that clears it, through failures, retries and failed
\* submissions; it is what guards FlushBuffer::sqe.
THEOREM FlushOwned == Spec => []FlushOwnership
<1>1. OInv => FlushOwnership
  BY OneToken DEF FlushOwnership
<1> QED
  BY <1>1, Invariance, PTL

\* reserve_space never succeeds on a buffer whose flush is under way, although
\* its compare_exchange uses a word it loaded earlier.
THEOREM GrantsExcludeFlush == Spec => NoGrantDuringFlush
<1>1. TInv /\ OInv /\ [Next]_vars =>
        \A t \in Threads :
          pc[t] = "cas" /\ pc'[t] = "copy" => Tokens(loc[t].buf) = {}
  <2> SUFFICES ASSUME TInv, OInv, [Next]_vars, NEW t \in Threads,
                      pc[t] = "cas", pc'[t] = "copy"
               PROVE  Tokens(loc[t].buf) = {}
    OBVIOUS
  <2>1. loc[t].buf \in Buffers
    BY NamedBuffers
  <2>2. word[loc[t].buf] = loc[t].seen
    <3>1. pc' # pc /\ pc \in [Threads -> Labels]
      BY NamedBuffers
    <3>2. PICK u \in Threads : StartMessage(u) \/ StartPoll(u) \/ Step(u)
      BY <3>1 DEF Next, vars, KernelComplete, KernelFail
    <3>3. PICK label : pc' = [pc EXCEPT ![u] = label]
      BY <3>2 DEF Step, StartMessage, StartPoll, LoadCurrent, ReserveLoad,
         ReserveCas, Write, DecrementWriters, ClaimFlush, Seal, SealSize, ClaimSlot,
         StoreAddress, RotateLoad, RotateSize, RotateScan, RotateCheck, RotateSwap,
         RotateReserve, RotateAddress, DrainCheck, FlushMark, FlushLen, FlushAt,
         Submit, ResetState, ResetAddress, PollDrain, Reap, Retry, SendAddress,
         SendReport, Goto, ReturnOk, ReturnSealed
    <3>4. u = t
      BY <3>1, <3>3
    <3>5. ReserveCas(t)
      BY <3>2, <3>4 DEF Step, StartMessage, StartPoll, LoadCurrent, ReserveLoad,
         Write, DecrementWriters, ClaimFlush, Seal, SealSize, ClaimSlot,
         StoreAddress, RotateLoad, RotateSize, RotateScan, RotateCheck, RotateSwap,
         RotateReserve, RotateAddress, DrainCheck, FlushMark, FlushLen, FlushAt,
         Submit, ResetState, ResetAddress, PollDrain, Reap, Retry, SendAddress,
         SendReport, At
    <3> QED
      BY <3>1, <3>5 DEF ReserveCas, Goto
  <2>3. ~word[loc[t].buf].flushing
    BY <2>2 DEF TInv, ThreadOK, SeenWasOpen, IsOpen
  <2> QED
    BY <2>1, <2>3, OneToken
<1> QED
  BY <1>1, Invariance, PTL DEF Spec, NoGrantDuringFlush
-----------------------------------------------------------------------------
(* A sealed buffer has somebody to flush it *)

\* Sealed, without writers, and its flush not claimed yet.
Unclaimed(b) == word[b].sealed /\ ~word[b].flushing /\ word[b].writers = 0

Claimant(t, b) == loc[t].buf = b /\ pc[t] \in ClaimantLabels

\* What the word operations do to the sealed bit and to the writer count.
LEMMA SealedOps ==
  ASSUME NEW w \in Word
  PROVE  /\ SubWriter(w).sealed = w.sealed
         /\ SubWriter(w).writers = 0 => w.writers \in {0, 1}
         /\ \A n : Reserved(w, n).sealed = w.sealed
<1>1. w.writers \in Nat
  BY SpanAssumption DEF Word
<1>2. SubWriter(w).sealed = w.sealed
  BY DEF SubWriter, AddOffset, Word
<1>3. SubWriter(w).writers = 0 => w.writers \in {0, 1}
  BY <1>1 DEF SubWriter, AddOffset, Word
<1>4. ASSUME NEW n PROVE Reserved(w, n).sealed = w.sealed
  BY DEF Reserved, AddWriter, AddOffset, Word
<1> QED
  BY <1>2, <1>3, <1>4

\* A step of one thread: the buffers it leaves unclaimed were so before, or it
\* now is a claimant; and a claimant gives up only a buffer that is claimed.
LEMMA ClaimantStep ==
  ASSUME SealedHasClaimant, NEW t \in Threads,
         \A u \in Threads \ {t} : pc'[u] = pc[u] /\ loc'[u] = loc[u],
         \A b \in Buffers : Unclaimed(b)' => Unclaimed(b) \/ Claimant(t, b)',
         \A b \in Buffers : Unclaimed(b)' /\ Claimant(t, b) => Claimant(t, b)'
  PROVE  SealedHasClaimant'
<1> SUFFICES ASSUME NEW b \in Buffers, Unclaimed(b)'
             PROVE  \E u \in Threads : Claimant(u, b)'
  BY DEF SealedHasClaimant, Unclaimed, Claimant
<1>1. CASE Claimant(t, b)'
  BY <1>1
<1>2. CASE ~Claimant(t, b)'
  <2>1. PICK u \in Threads : Claimant(u, b)
    BY <1>2 DEF SealedHasClaimant, Unclaimed, Claimant
  <2>2. u # t
    BY <1>2, <2>1
  <2> QED
    BY <2>1, <2>2 DEF Claimant
<1> QED
  BY <1>1, <1>2

\* Every step of a thread keeps a claimant for every unclaimed buffer.
LEMMA StepClaimant ==
  ASSUME TInv, SealedHasClaimant, NEW t \in Threads,
         StartMessage(t) \/ StartPoll(t) \/ Step(t)
  PROVE  SealedHasClaimant'
<1>0. /\ pc \in [Threads -> Labels] /\ loc \in [Threads -> Local]
      /\ word \in [Buffers -> Word]
      /\ loc[t] \in Local /\ loc[t].buf \in Buffers
  <2>1. pc \in [Threads -> Labels] /\ loc \in [Threads -> Local]
    BY DEF TInv, ThreadOK
  <2>2. loc[t] \in Local
    BY <2>1
  <2> QED
    BY <2>1, <2>2, SetLocal DEF TInv, SharedOK
<1>1. CASE \/ StartMessage(t) \/ StartPoll(t) \/ LoadCurrent(t) \/ ReserveLoad(t)
           \/ Write(t) \/ FlushLen(t) \/ FlushAt(t) \/ Submit(t)
           \/ ResetAddress(t) \/ PollDrain(t) \/ Reap(t) \/ Retry(t)
           \/ SendAddress(t) \/ SendReport(t)
  <2>1. word' = word /\ pc[t] \notin ClaimantLabels
    BY <1>1 DEF StartMessage, StartPoll, LoadCurrent, ReserveLoad, Write, FlushLen,
       FlushAt, Submit, ResetAddress, PollDrain, Reap, Retry, SendAddress,
       SendReport, At, bufVars, ClaimantLabels
  <2>2. \A u \in Threads \ {t} : pc'[u] = pc[u] /\ loc'[u] = loc[u]
    BY <1>0, <1>1 DEF StartMessage, StartPoll, LoadCurrent, ReserveLoad, Write,
       FlushLen, FlushAt, Submit, ResetAddress, PollDrain, Reap, Retry,
       SendAddress, SendReport, Goto, ReturnOk
  <2> QED
    BY <2>1, <2>2, ClaimantStep DEF Unclaimed, Claimant
<1>2. CASE \/ SealSize(t) \/ ClaimSlot(t) \/ StoreAddress(t) \/ RotateLoad(t)
           \/ RotateSize(t) \/ RotateScan(t) \/ RotateCheck(t) \/ RotateSwap(t)
           \/ RotateReserve(t) \/ RotateAddress(t)
  <2>1. word' = word
    BY <1>2 DEF SealSize, ClaimSlot, StoreAddress, RotateLoad, RotateSize,
       RotateScan, RotateCheck, RotateSwap, RotateReserve, RotateAddress, bufVars
  <2>2. \A u \in Threads \ {t} : pc'[u] = pc[u] /\ loc'[u] = loc[u]
    BY <1>0, <1>2 DEF SealSize, ClaimSlot, StoreAddress, RotateLoad, RotateSize,
       RotateScan, RotateCheck, RotateSwap, RotateReserve, RotateAddress, Goto
  <2>3. loc'[t].buf = loc[t].buf
    BY <1>0, <1>2 DEF SealSize, ClaimSlot, StoreAddress, RotateLoad, RotateSize,
       RotateScan, RotateCheck, RotateSwap, RotateReserve, RotateAddress, Local
  <2>4. pc'[t] \in ClaimantLabels
    BY <1>0, <1>2 DEF SealSize, ClaimSlot, StoreAddress, RotateLoad, RotateSize,
       RotateScan, RotateCheck, RotateSwap, RotateReserve, RotateAddress, Goto,
       ClaimantLabels
  <2> QED
    BY <2>1, <2>2, <2>3, <2>4, ClaimantStep DEF Unclaimed, Claimant
<1>3. CASE DrainCheck(t)
  <2>1. word' = word
    BY <1>3 DEF DrainCheck, bufVars
  <2>2. \A u \in Threads \ {t} : pc'[u] = pc[u] /\ loc'[u] = loc[u]
    BY <1>0, <1>3 DEF DrainCheck, Goto, ReturnSealed
  <2>3. \/ word[loc[t].buf].writers # 0
        \/ loc'[t] = loc[t] /\ pc'[t] = "claim"
    BY <1>0, <1>3 DEF DrainCheck, Goto
  <2> QED
    BY <2>1, <2>2, <2>3, ClaimantStep DEF Unclaimed, Claimant, ClaimantLabels
<1>4. CASE ReserveCas(t)
  <2>1. \A u \in Threads \ {t} : pc'[u] = pc[u] /\ loc'[u] = loc[u]
    BY <1>0, <1>4 DEF ReserveCas, Goto
  <2>2. pc[t] = "cas" /\ ~loc[t].seen.sealed
    BY <1>4 DEF ReserveCas, At, TInv, ThreadOK, SeenWasOpen, IsOpen
  <2>3. loc[t].seen \in Word
    BY <1>0, SetLocal
  <2>4. \/ word' = word
        \/ word' = [word EXCEPT ![loc[t].buf] = Reserved(loc[t].seen, loc[t].size)]
    BY <1>4 DEF ReserveCas
  <2>5. \A b \in Buffers : Unclaimed(b)' => Unclaimed(b)
    BY <1>0, <2>2, <2>3, <2>4, SealedOps DEF Unclaimed
  <2> QED
    BY <2>1, <2>2, <2>5, ClaimantStep DEF Claimant, ClaimantLabels
<1>5. CASE DecrementWriters(t)
  <2> DEFINE w == word[loc[t].buf]
  <2>1. \A u \in Threads \ {t} : pc'[u] = pc[u] /\ loc'[u] = loc[u]
    BY <1>0, <1>5 DEF DecrementWriters, Goto, ReturnOk
  <2>2. pc[t] = "dec" /\ word' = [word EXCEPT ![loc[t].buf] = SubWriter(w)]
    BY <1>5 DEF DecrementWriters, At
  <2>3. w.writers = 1 /\ w.sealed =>
          loc'[t].buf = loc[t].buf /\ pc'[t] \in ClaimantLabels
    BY <1>0, <1>5 DEF DecrementWriters, Goto, ClaimantLabels, Local
  <2>4. w \in Word
    BY <1>0
  <2>5. ASSUME NEW b \in Buffers, Unclaimed(b)'
        PROVE  Unclaimed(b) \/ Claimant(t, b)'
    <3>1. CASE b # loc[t].buf
      BY <1>0, <2>2, <2>5, <3>1 DEF Unclaimed
    <3>2. CASE b = loc[t].buf
      <4>1. word'[b] = SubWriter(w)
        BY <1>0, <2>2, <3>2
      <4> HIDE DEF w
      <4>2. w.sealed /\ ~w.flushing /\ w.writers \in {0, 1}
        BY <2>4, <2>5, <4>1, SealedOps, WriterOps DEF Unclaimed
      <4> QED
        BY <2>3, <3>2, <4>2 DEF Unclaimed, Claimant, w
    <3> QED
      BY <3>1, <3>2
  <2> QED
    BY <2>1, <2>2, <2>5, ClaimantStep DEF Claimant, ClaimantLabels
<1>6. CASE ClaimFlush(t) \/ FlushMark(t)
  <2>1. \A u \in Threads \ {t} : pc'[u] = pc[u] /\ loc'[u] = loc[u]
    BY <1>0, <1>6 DEF ClaimFlush, FlushMark, Goto, ReturnOk, ReturnSealed
  <2>2. word' = [word EXCEPT ![loc[t].buf] = SetFlushing(word[loc[t].buf])]
    BY <1>6 DEF ClaimFlush, FlushMark
  <2>3. word'[loc[t].buf].flushing
    BY <1>0, <2>2, FlagOps
  <2> QED
    BY <1>0, <2>1, <2>2, <2>3, ClaimantStep DEF Unclaimed, Claimant
<1>7. CASE Seal(t)
  <2>1. \A u \in Threads \ {t} : pc'[u] = pc[u] /\ loc'[u] = loc[u]
    BY <1>0, <1>7 DEF Seal, Goto, ReturnSealed
  <2>2. /\ pc[t] = "seal"
        /\ word' = [word EXCEPT ![loc[t].buf] = SetSealed(word[loc[t].buf])]
    BY <1>7 DEF Seal, At
  <2>3. ~word[loc[t].buf].sealed =>
          loc'[t].buf = loc[t].buf /\ pc'[t] \in ClaimantLabels
    BY <1>0, <1>7 DEF Seal, Goto, ClaimantLabels, Local
  <2>4. word[loc[t].buf].sealed => word' = word
    BY <1>0, <2>2 DEF SetSealed, Word
  <2>5. \A b \in Buffers : Unclaimed(b)' => Unclaimed(b) \/ Claimant(t, b)'
    BY <1>0, <2>2, <2>3, <2>4 DEF Unclaimed, Claimant
  <2> QED
    BY <2>1, <2>2, <2>5, ClaimantStep DEF Claimant, ClaimantLabels
<1>8. CASE ResetState(t)
  <2>1. \A u \in Threads \ {t} : pc'[u] = pc[u] /\ loc'[u] = loc[u]
    BY <1>0, <1>8 DEF ResetState, Goto
  <2>2. word' = [word EXCEPT ![loc[t].buf] = ZeroWord]
    BY <1>8 DEF ResetState
  <2> QED
    BY <1>0, <2>1, <2>2, ClaimantStep DEF Unclaimed, Claimant, ZeroWord
<1> QED
  BY <1>1, <1>2, <1>3, <1>4, <1>5, <1>6, <1>7, <1>8 DEF Step

\* The hand-over between the sealer and the last writer never loses a sealed
\* buffer: with no writer left and the flush bit clear, one of them is still on
\* its way to the fetch_or, for any number of producers.
THEOREM SealNotForgotten == Spec => []SealedHasClaimant
<1>1. Init => SealedHasClaimant
  BY DEF Init, SealedHasClaimant, ZeroWord
<1>2. TInv /\ SealedHasClaimant /\ [Next]_vars => SealedHasClaimant'
  <2> SUFFICES ASSUME TInv, SealedHasClaimant, [Next]_vars
               PROVE  SealedHasClaimant'
    OBVIOUS
  <2>1. ASSUME NEW t \in Threads, StartMessage(t) \/ StartPoll(t) \/ Step(t)
        PROVE  SealedHasClaimant'
    BY <2>1, StepClaimant
  <2>2. CASE KernelComplete \/ KernelFail \/ UNCHANGED vars
    <3>1. UNCHANGED <<word, pc, loc>>
      BY <2>2 DEF KernelComplete, KernelFail, vars, bufVars
    <3> QED
      BY <3>1 DEF SealedHasClaimant
  <2> QED
    BY <2>1, <2>2 DEF Next
<1> QED
  BY <1>1, <1>2, Invariance, PTL DEF Spec
=============================================================================
