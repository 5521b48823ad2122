-------------------------- MODULE RingWriterProofs --------------------------
(***************************************************************************)
(* Proofs about RingWriter, for any number of writers, any ring length,    *)
(* any slot and payload sizes and any number of failures.                  *)
(***************************************************************************)
EXTENDS RingWriter, FiniteSetTheorems, TLAPS

USE RingWriterAssumption

(***************************************************************************)
(* The inductive invariant, writer by writer.                              *)
(***************************************************************************)

Slot == [state : {"Open", "InFlight"}, disk_offset : Nat, sealed_len : Nat]
Entry == [idx : Slots, at : Nat, len : 1 .. Batch]
Completion == [idx : Slots, len : 1 .. Batch, ok : BOOLEAN]
Locals == [len : 0 .. Batch, valid_len : 0 .. Batch,
           then : {"idle", "append", "drain", "done"}]
Labels == {"idle", "seal", "advance", "wait", "drain", "done", "failed"}

\* TypeOK, with the types of the variables it leaves open.
Typed ==
  /\ file_offset \in Nat
  /\ slots \in [Writers -> [Slots -> Slot]]
  /\ mem \in [Writers -> [Slots -> [0 .. Batch - 1 -> Nat \cup {-1}]]]
  /\ head \in [Writers -> Slots]
  /\ cursor \in [Writers -> 0 .. 2 * Batch]
  /\ pending \in [Writers -> Nat]
  /\ completed \in [Writers -> SUBSET CompletedRange]
  /\ sq \in [Writers -> SUBSET Entry]
  /\ kernel \in [Writers -> SUBSET Entry]
  /\ cq \in [Writers -> SUBSET Completion]
  /\ pc \in [Writers -> Labels]
  /\ loc \in [Writers -> Locals]
  /\ total \in [Writers -> Nat]

Entries(w) == sq[w] \cup kernel[w]

\* What the program counter says of the cursor and of the locals.
LocalsOK(w) ==
  /\ pc[w] = "idle" => cursor[w] <= Batch
  /\ pc[w] = "seal" => loc[w].valid_len > 0
  /\ pc[w] \in {"seal", "advance"} => loc[w].then # "done"
  /\ pc[w] \in {"seal", "advance", "wait"} /\ loc[w].then \in {"idle", "drain"} =>
       loc[w].len = 0

\* The slot that append writes to is not in flight.
HeadFree(w) == pc[w] \in {"idle", "seal"} => slots[w][head[w]].state = "Open"

\* What the io_uring works on is a slot in flight, at the position and with the
\* length the slot records.
EntriesMatch(w) ==
  /\ \A e \in Entries(w) :
       slots[w][e.idx] = [state |-> "InFlight", disk_offset |-> e.at,
                          sealed_len |-> e.len]
  /\ \A c \in cq[w] : /\ slots[w][c.idx].state = "InFlight"
                      /\ slots[w][c.idx].sealed_len = c.len

\* No slot has two entries in its writer's io_uring.
OneEntry(w) ==
  /\ sq[w] \cap kernel[w] = {}
  /\ \A e \in Entries(w), c \in cq[w] : e.idx # c.idx
  /\ \A c, d \in cq[w] : c.idx = d.idx => c = d

\* Unless the thread failed, every slot in flight has its entry and is counted.
Counted(w) == pc[w] # "failed" =>
  /\ \A i \in InFlight(w) : \/ \E e \in Entries(w) : e.idx = i
                            \/ \E c \in cq[w] : c.idx = i
  /\ pending[w] = Cardinality(InFlight(w))

\* finish returns with nothing in flight.
AllDone(w) == pc[w] = "done" => InFlight(w) = {}

WriterInv(w) ==
  /\ LocalsOK(w)
  /\ HeadFree(w)
  /\ EntriesMatch(w)
  /\ OneEntry(w)
  /\ Counted(w)
  /\ AllDone(w)

-----------------------------------------------------------------------------
(* Facts about the operators *)

LEMMA SlotsFinite == IsFiniteSet(Slots)
<1>1. 0 \in Int /\ RingLen - 1 \in Int
  OBVIOUS
<1> QED BY <1>1, FS_Interval DEF Slots

LEMMA InFlightFinite ==
  \A w : IsFiniteSet(InFlight(w)) /\ Cardinality(InFlight(w)) \in Nat
<1> TAKE w
<1>1. InFlight(w) \in SUBSET Slots
  BY DEF InFlight
<1>2. IsFiniteSet(InFlight(w))
  BY <1>1, SlotsFinite, FS_Subset
<1> QED BY <1>2, FS_CardinalityType

LEMMA NextSlotType == Typed => \A w \in Writers : NextSlot(w) \in Slots
<1> SUFFICES ASSUME Typed, NEW w \in Writers PROVE NextSlot(w) \in Slots
    OBVIOUS
<1>1. head[w] \in 0 .. RingLen - 1
  BY DEF Typed, Slots
<1>2. (head[w] + 1) % RingLen \in 0 .. RingLen - 1
  BY <1>1
<1> QED BY <1>2 DEF NextSlot, Slots

\* Records told apart by their idx are as many as their indices.
LEMMA IdxCardinality ==
  ASSUME NEW S, NEW T, IsFiniteSet(T),
         \A x \in S : x.idx \in T,
         \A t \in T : \E x \in S : x.idx = t,
         \A x, y \in S : x.idx = y.idx => x = y
  PROVE  IsFiniteSet(S) /\ Cardinality(S) = Cardinality(T)
<1> DEFINE f == [x \in S |-> x.idx]
<1>1. f \in [S -> T] /\ \A x \in S : f[x] = x.idx
  OBVIOUS
<1> HIDE DEF f
<1>2. f \in Injection(S, T)
  BY <1>1 DEF Injection, IsInjective
<1>3. f \in Surjection(S, T)
  BY <1>1 DEF Surjection
<1> QED BY <1>2, <1>3, FS_Injection

\* Entries of one writer with the same slot are the same entry.
LEMMA SameEntry ==
  ASSUME Typed, NEW w \in Writers, EntriesMatch(w),
         NEW d \in Entries(w), NEW e \in Entries(w), d.idx = e.idx
  PROVE  d = e
<1>1. d \in Entry /\ e \in Entry
  BY DEF Typed, Entries
<1>2. \A x \in Entries(w) : /\ slots[w][x.idx].disk_offset = x.at
                            /\ slots[w][x.idx].sealed_len = x.len
  <2> TAKE x \in Entries(w)
  <2>1. slots[w][x.idx] = [state |-> "InFlight", disk_offset |-> x.at,
                           sealed_len |-> x.len]
    BY DEF EntriesMatch
  <2> QED BY <2>1
<1>3. d.at = e.at /\ d.len = e.len
  BY <1>2
<1> QED BY <1>1, <1>3 DEF Entry

-----------------------------------------------------------------------------
(* What a step of one writer leaves alone *)

\* Nothing that belongs to writer v changes.
Same(v) ==
  /\ slots'[v] = slots[v] /\ mem'[v] = mem[v]
  /\ head'[v] = head[v] /\ cursor'[v] = cursor[v]
  /\ pending'[v] = pending[v] /\ completed'[v] = completed[v]
  /\ sq'[v] = sq[v] /\ kernel'[v] = kernel[v] /\ cq'[v] = cq[v]
  /\ pc'[v] = pc[v] /\ loc'[v] = loc[v] /\ total'[v] = total[v]

StepOf(w) ==
  \/ Append(w) \/ Flush(w) \/ Finish(w) \/ Step(w)
  \/ KernelComplete(w) \/ KernelFail(w)

LEMMA OthersSame ==
  ASSUME Typed, NEW w \in Writers, NEW v \in Writers, v # w, StepOf(w)
  PROVE  Same(v)
<1>1. CASE Append(w)
  BY <1>1 DEF Append, AppendFits, AppendOverflows, Write, Goto, Same, Typed
<1>2. CASE Flush(w) \/ Finish(w)
  BY <1>2 DEF Flush, Finish, SealRest, Goto, Same, Typed, writerVars, clientVars
<1>3. CASE SubmitSlot(w)
  BY <1>3 DEF SubmitSlot, EnterFails, Goto, Same, Typed, clientVars
<1>4. CASE Advance(w)
  BY <1>4 DEF Advance, Write, Goto, Same, Typed
<1>5. CASE SubmitAndWait(w)
  BY <1>5 DEF SubmitAndWait, Enter, EnterFails, Goto, Same, Typed, writerVars, clientVars
<1>6. CASE Reap(w)
  BY <1>6 DEF Reap, Goto, Same, Typed, clientVars
<1>7. CASE NothingPending(w)
  BY <1>7 DEF NothingPending, Goto, Same, Typed, writerVars, clientVars
<1>8. CASE KernelComplete(w) \/ KernelFail(w)
  BY <1>8 DEF KernelComplete, KernelFail, KernelTakes, Same, Typed, writerVars, clientVars
<1> QED BY <1>1, <1>2, <1>3, <1>4, <1>5, <1>6, <1>7, <1>8 DEF StepOf, Step

LEMMA SameWriterInv == ASSUME NEW v, Same(v), WriterInv(v) PROVE WriterInv(v)'
<1>1. InFlight(v)' = InFlight(v) /\ Entries(v)' = Entries(v)
  BY DEF Same, InFlight, Entries
<1>2. LocalsOK(v)' /\ HeadFree(v)'
  BY DEF WriterInv, Same, LocalsOK, HeadFree
<1>3. EntriesMatch(v)' /\ OneEntry(v)'
  BY <1>1 DEF WriterInv, Same, EntriesMatch, OneEntry
<1>4. Counted(v)' /\ AllDone(v)'
  BY <1>1 DEF WriterInv, Same, Counted, AllDone
<1> QED BY <1>2, <1>3, <1>4 DEF WriterInv

-----------------------------------------------------------------------------
(* The types *)

LEMMA AppendTyped ==
  ASSUME Typed, NEW w \in Writers, LocalsOK(w), Append(w)
  PROVE  Typed'
<1>1. PICK n \in Sizes : AppendFits(w, n) \/ AppendOverflows(w, n)
  BY DEF Append
<1>2. n \in 1 .. Batch /\ cursor[w] \in 0 .. Batch /\ total[w] \in Nat
  BY DEF Append, LocalsOK, Typed
<1>3. UNCHANGED <<file_offset, slots, head, pending, completed, sq, kernel, cq>>
  BY DEF Append
<1>4. cursor' \in [Writers -> 0 .. 2 * Batch]
  <2>1. cursor[w] + n \in 0 .. 2 * Batch
    BY <1>2
  <2>2. cursor' = [cursor EXCEPT ![w] = cursor[w] + n]
    BY <1>1 DEF AppendFits, AppendOverflows
  <2> QED BY <2>1, <2>2 DEF Typed
<1>5. CASE AppendFits(w, n)
  <2>1. \A b \in 0 .. Batch - 1 :
          b \in cursor[w] .. cursor[w] + n - 1 => total[w] + (b - cursor[w]) \in Nat
    BY <1>2
  <2>2. mem' \in [Writers -> [Slots -> [0 .. Batch - 1 -> Nat \cup {-1}]]]
    BY <1>5, <2>1 DEF AppendFits, Write, Typed
  <2>3. total' \in [Writers -> Nat]
    BY <1>5, <1>2 DEF AppendFits, Write, Typed
  <2>4. UNCHANGED <<pc, loc>>
    BY <1>5 DEF AppendFits
  <2> QED BY <1>3, <1>4, <2>2, <2>3, <2>4 DEF Typed
<1>6. CASE AppendOverflows(w, n)
  <2>1. [len |-> n, valid_len |-> cursor[w], then |-> "append"] \in Locals
    BY <1>2 DEF Locals
  <2>2. loc' \in [Writers -> Locals]
    BY <1>6, <2>1 DEF AppendOverflows, Typed
  <2>3. pc' \in [Writers -> Labels] /\ UNCHANGED <<mem, total>>
    BY <1>6 DEF AppendOverflows, Goto, Typed, Labels
  <2> QED BY <1>3, <1>4, <2>2, <2>3 DEF Typed
<1> QED BY <1>1, <1>5, <1>6

LEMMA SealRestTyped ==
  ASSUME Typed, NEW w \in Writers, LocalsOK(w),
         NEW then \in {"idle", "drain"}, SealRest(w, then)
  PROVE  Typed'
<1>1. pc[w] = "idle" /\ cursor[w] \in 0 .. Batch
  BY DEF SealRest, LocalsOK, Typed
<1>2. [len |-> 0, valid_len |-> cursor[w], then |-> then] \in Locals
  BY <1>1 DEF Locals
<1>3. loc' \in [Writers -> Locals] /\ pc' \in [Writers -> Labels]
  BY <1>2 DEF SealRest, Goto, Typed, Labels
<1> QED BY <1>3 DEF SealRest, Typed, writerVars, clientVars

LEMMA SubmitSlotTyped ==
  ASSUME Typed, NEW w \in Writers, LocalsOK(w), SubmitSlot(w)
  PROVE  Typed'
<1> DEFINE r == [idx |-> head[w], at |-> file_offset, len |-> loc[w].valid_len]
           new == [state |-> "InFlight", disk_offset |-> file_offset,
                   sealed_len |-> loc[w].valid_len]
<1>1. loc[w].valid_len \in 1 .. Batch /\ head[w] \in Slots /\ file_offset \in Nat
  BY DEF SubmitSlot, LocalsOK, Typed, Locals
<1>2. r \in Entry /\ new \in Slot
  BY <1>1 DEF Entry, Slot
<1>3. file_offset' \in Nat
  BY <1>1 DEF SubmitSlot, ClaimRange
<1>4. slots' \in [Writers -> [Slots -> Slot]]
  BY <1>2 DEF SubmitSlot, Typed
<1> HIDE DEF new
<1>5. \/ UNCHANGED sq
      \/ sq' = [sq EXCEPT ![w] = sq[w] \cup {r}]
      \/ sq' = [sq EXCEPT ![w] = {r}]
  BY DEF SubmitSlot
<1>6. \/ UNCHANGED kernel
      \/ kernel' = [kernel EXCEPT ![w] = kernel[w] \cup sq[w]]
  BY DEF SubmitSlot
<1> HIDE DEF r
<1>7. sq' \in [Writers -> SUBSET Entry]
  <2>1. CASE UNCHANGED sq
    BY <2>1 DEF Typed
  <2>2. CASE sq' = [sq EXCEPT ![w] = sq[w] \cup {r}]
    BY <2>2, <1>2 DEF Typed
  <2>3. CASE sq' = [sq EXCEPT ![w] = {r}]
    BY <2>3, <1>2 DEF Typed
  <2> QED BY <1>5, <2>1, <2>2, <2>3
<1>8. kernel' \in [Writers -> SUBSET Entry]
  BY <1>6 DEF Typed
<1>9. \/ UNCHANGED pending
      \/ pending' = [pending EXCEPT ![w] = pending[w] + 1]
  BY DEF SubmitSlot
<1>10. pending' \in [Writers -> Nat]
  <2>1. pending \in [Writers -> Nat] /\ pending[w] + 1 \in Nat
    BY DEF Typed
  <2> QED BY <2>1, <1>9
<1>11. \/ pc' = [pc EXCEPT ![w] = "advance"]
       \/ pc' = [pc EXCEPT ![w] = "failed"]
  BY DEF SubmitSlot, EnterFails, Goto
<1>12. pc' \in [Writers -> Labels]
  BY <1>11 DEF Typed, Labels
<1> QED BY <1>3, <1>4, <1>7, <1>8, <1>10, <1>12 DEF SubmitSlot, Typed, clientVars

LEMMA AdvanceTyped ==
  ASSUME Typed, NEW w \in Writers, LocalsOK(w), Advance(w)
  PROVE  Typed'
<1>1. loc[w].len \in 0 .. Batch /\ NextSlot(w) \in Slots /\ total[w] \in Nat
  BY NextSlotType DEF Typed, Locals
<1>2. head' \in [Writers -> Slots] /\ cursor' \in [Writers -> 0 .. 2 * Batch]
  BY <1>1 DEF Advance, Typed
<1>3. NoLocals \in Locals
  BY DEF NoLocals, Locals
<1>4. loc' \in [Writers -> Locals]
  BY <1>3 DEF Advance, Typed
<1>5. pc' \in [Writers -> Labels]
  BY DEF Advance, Goto, Typed, Labels, Locals
<1>6. \A b \in 0 .. Batch - 1 :
        b \in 0 .. 0 + loc[w].len - 1 => total[w] + (b - 0) \in Nat
  BY <1>1
<1>7. mem' \in [Writers -> [Slots -> [0 .. Batch - 1 -> Nat \cup {-1}]]]
  <2>1. CASE UNCHANGED mem
    BY <2>1 DEF Typed
  <2>2. CASE Write(w, NextSlot(w), 0, loc[w].len)
    BY <2>2, <1>1, <1>6 DEF Write, Typed
  <2> QED BY <2>1, <2>2 DEF Advance
<1>8. total' \in [Writers -> Nat]
  BY <1>1 DEF Advance, Write, Typed
<1> QED BY <1>2, <1>4, <1>5, <1>7, <1>8 DEF Advance, Typed

LEMMA SubmitAndWaitTyped ==
  ASSUME Typed, NEW w \in Writers, SubmitAndWait(w)
  PROVE  Typed'
<1>1. loc' \in [Writers -> Locals]
  BY DEF SubmitAndWait, Typed, Locals
<1>2. /\ sq' \in [Writers -> SUBSET Entry] /\ kernel' \in [Writers -> SUBSET Entry]
      /\ pc' \in [Writers -> Labels]
  <2>1. CASE /\ kernel' = [kernel EXCEPT ![w] = kernel[w] \cup sq[w]]
             /\ sq' = [sq EXCEPT ![w] = {}]
             /\ Goto(w, "wait")
    BY <2>1 DEF Goto, Typed, Labels
  <2>2. CASE EnterFails(w) /\ UNCHANGED <<sq, kernel>>
    BY <2>2 DEF EnterFails, Goto, Typed, Labels
  <2> QED BY <2>1, <2>2 DEF SubmitAndWait, Enter
<1> QED BY <1>1, <1>2 DEF SubmitAndWait, Typed, writerVars, clientVars

LEMMA KernelTakesTyped ==
  ASSUME Typed, NEW w \in Writers, NEW r \in kernel[w], NEW ok \in BOOLEAN,
         KernelTakes(w, r, ok)
  PROVE  Typed'
<1>1. r \in Entry
  BY DEF Typed
<1>2. [idx |-> r.idx, len |-> r.len, ok |-> ok] \in Completion
  BY <1>1 DEF Entry, Completion
<1>3. kernel' \in [Writers -> SUBSET Entry] /\ cq' \in [Writers -> SUBSET Completion]
  BY <1>2 DEF KernelTakes, Typed
<1> QED BY <1>3 DEF KernelTakes, Typed, writerVars, clientVars

-----------------------------------------------------------------------------
(* Counting the entries *)

Idx(S) == {x.idx : x \in S}

LEMMA DisjointUnion ==
  ASSUME NEW A, NEW B, IsFiniteSet(A), IsFiniteSet(B), A \cap B = {}
  PROVE  /\ IsFiniteSet(A \cup B)
         /\ Cardinality(A \cup B) = Cardinality(A) + Cardinality(B)
<1>1. /\ IsFiniteSet(A \cup B)
      /\ Cardinality(A \cup B) =
           Cardinality(A) + Cardinality(B) - Cardinality(A \cap B)
  BY FS_Union
<1>2. Cardinality(A) \in Nat /\ Cardinality(B) \in Nat /\ Cardinality(A \cap B) = 0
  BY FS_CardinalityType, FS_EmptySet
<1> QED BY <1>1, <1>2

\* The slot of a reaped completion.
LEMMA ReapedSlot ==
  ASSUME NEW s \in Slot
  PROVE  /\ [s EXCEPT !.state = "Open", !.sealed_len = 0] \in Slot
         /\ [s EXCEPT !.state = "Open", !.sealed_len = 0].state = "Open"
<1>1. [s EXCEPT !.state = "Open", !.sealed_len = 0] \in Slot
  BY DEF Slot
<1>2. [s EXCEPT !.state = "Open", !.sealed_len = 0].state = "Open"
  BY DEF Slot
<1> QED BY <1>1, <1>2

LEMMA CqCount ==
  ASSUME Typed, NEW w \in Writers, EntriesMatch(w), OneEntry(w)
  PROVE  /\ Idx(cq[w]) \subseteq InFlight(w)
         /\ IsFiniteSet(cq[w]) /\ IsFiniteSet(Idx(cq[w]))
         /\ Cardinality(cq[w]) \in Nat
         /\ Cardinality(cq[w]) = Cardinality(Idx(cq[w]))
<1>1. \A c \in cq[w] : c.idx \in Slots
  BY DEF Typed, Completion
<1>2. Idx(cq[w]) \in SUBSET InFlight(w)
  BY <1>1 DEF Idx, InFlight, EntriesMatch
<1>3. IsFiniteSet(Idx(cq[w]))
  BY <1>2, InFlightFinite, FS_Subset
<1>4. \A c, d \in cq[w] : c.idx = d.idx => c = d
  BY DEF OneEntry
<1>5. /\ \A c \in cq[w] : c.idx \in Idx(cq[w])
      /\ \A t \in Idx(cq[w]) : \E c \in cq[w] : c.idx = t
  BY DEF Idx
<1>6. IsFiniteSet(cq[w]) /\ Cardinality(cq[w]) = Cardinality(Idx(cq[w]))
  BY <1>3, <1>4, <1>5, IdxCardinality
<1> QED BY <1>2, <1>3, <1>6, FS_CardinalityType

LEMMA QueueCount ==
  ASSUME Typed, NEW w \in Writers, EntriesMatch(w),
         NEW S \in SUBSET Entries(w)
  PROVE  /\ Idx(S) \subseteq InFlight(w)
         /\ IsFiniteSet(S) /\ IsFiniteSet(Idx(S))
         /\ Cardinality(S) \in Nat
         /\ Cardinality(S) = Cardinality(Idx(S))
<1>1. \A e \in S : e.idx \in Slots
  BY DEF Typed, Entries, Entry
<1>2. \A e \in S : slots[w][e.idx].state = "InFlight"
  <2> TAKE e \in S
  <2>1. slots[w][e.idx] = [state |-> "InFlight", disk_offset |-> e.at,
                           sealed_len |-> e.len]
    BY DEF EntriesMatch
  <2> QED BY <2>1
<1>3. Idx(S) \in SUBSET InFlight(w)
  BY <1>1, <1>2 DEF Idx, InFlight
<1>4. IsFiniteSet(Idx(S))
  BY <1>3, InFlightFinite, FS_Subset
<1>5. \A d, e \in S : d.idx = e.idx => d = e
  BY SameEntry
<1>6. /\ \A e \in S : e.idx \in Idx(S)
      /\ \A t \in Idx(S) : \E e \in S : e.idx = t
  BY DEF Idx
<1>7. IsFiniteSet(S) /\ Cardinality(S) = Cardinality(Idx(S))
  BY <1>4, <1>5, <1>6, IdxCardinality
<1> QED BY <1>3, <1>4, <1>7, FS_CardinalityType

\* Every slot in flight has exactly one entry, in one of the three places.
LEMMA EntriesCount ==
  ASSUME Typed, NEW w \in Writers, WriterInv(w), pc[w] # "failed"
  PROVE  Cardinality(InFlight(w)) =
           Cardinality(sq[w]) + Cardinality(kernel[w]) + Cardinality(cq[w])
<1> DEFINE a == Idx(sq[w])
           b == Idx(kernel[w])
           c == Idx(cq[w])
<1> USE DEF WriterInv
<1>1. /\ a \subseteq InFlight(w) /\ IsFiniteSet(a)
      /\ Cardinality(sq[w]) = Cardinality(a)
  BY QueueCount DEF Entries
<1>2. /\ b \subseteq InFlight(w) /\ IsFiniteSet(b)
      /\ Cardinality(kernel[w]) = Cardinality(b)
  BY QueueCount DEF Entries
<1>3. /\ c \subseteq InFlight(w) /\ IsFiniteSet(c)
      /\ Cardinality(cq[w]) = Cardinality(c)
  BY CqCount
<1>4. a \cap b = {}
  <2> SUFFICES ASSUME NEW d \in sq[w], NEW e \in kernel[w], d.idx = e.idx
               PROVE  FALSE
      BY DEF Idx
  <2>1. d = e
    BY SameEntry DEF Entries
  <2> QED BY <2>1 DEF OneEntry
<1>5. (a \cup b) \cap c = {}
  BY DEF Idx, OneEntry, Entries
<1>6. InFlight(w) = (a \cup b) \cup c
  BY <1>1, <1>2, <1>3 DEF Idx, Counted, Entries
<1> HIDE DEF a, b, c
<1>7. /\ IsFiniteSet(a \cup b)
      /\ Cardinality(a \cup b) = Cardinality(a) + Cardinality(b)
  BY <1>1, <1>2, <1>4, DisjointUnion
<1>8. Cardinality((a \cup b) \cup c) = Cardinality(a \cup b) + Cardinality(c)
  BY <1>3, <1>5, <1>7, DisjointUnion
<1> QED BY <1>1, <1>2, <1>3, <1>6, <1>7, <1>8

\* reap_all takes from the slots in flight as many as it subtracts from pending.
LEMMA ReapCount ==
  ASSUME Typed, NEW w \in Writers, WriterInv(w), Reap(w)
  PROVE  /\ InFlight(w)' = InFlight(w) \ Idx(cq[w])
         /\ pending[w] - Cardinality(cq[w]) = Cardinality(InFlight(w) \ Idx(cq[w]))
<1> USE DEF WriterInv
<1>1. pc[w] = "wait" /\ pending[w] = Cardinality(InFlight(w))
  BY DEF Reap, Counted
<1>2. slots'[w] = [i \in Slots |->
         IF i \in Idx(cq[w])
         THEN [slots[w][i] EXCEPT !.state = "Open", !.sealed_len = 0]
         ELSE slots[w][i]]
  BY DEF Reap, Idx, Typed
<1>3. \A i \in Slots : i \in Idx(cq[w]) => slots'[w][i].state = "Open"
  <2> SUFFICES ASSUME NEW i \in Slots, i \in Idx(cq[w])
               PROVE  slots'[w][i].state = "Open"
      OBVIOUS
  <2>1. slots'[w][i] = [slots[w][i] EXCEPT !.state = "Open", !.sealed_len = 0]
    BY <1>2
  <2>2. slots[w][i] \in Slot
    BY DEF Typed
  <2> QED BY <2>1, <2>2, ReapedSlot
<1>4. \A i \in Slots : i \notin Idx(cq[w]) => slots'[w][i] = slots[w][i]
  BY <1>2
<1>5. InFlight(w)' = InFlight(w) \ Idx(cq[w])
  BY <1>3, <1>4 DEF InFlight
<1>6. /\ Idx(cq[w]) \subseteq InFlight(w) /\ IsFiniteSet(Idx(cq[w]))
      /\ Cardinality(cq[w]) = Cardinality(Idx(cq[w]))
  BY CqCount
<1> DEFINE A == InFlight(w)
           B == Idx(cq[w])
<1>7. IsFiniteSet(A) /\ IsFiniteSet(A \ B) /\ IsFiniteSet(B)
  BY <1>6, InFlightFinite, FS_Difference
<1>8. A = (A \ B) \cup B /\ (A \ B) \cap B = {}
  BY <1>6
<1>9. /\ Cardinality(A) \in Nat /\ Cardinality(B) \in Nat
      /\ Cardinality(A \ B) \in Nat
  BY <1>7, FS_CardinalityType
<1> HIDE DEF A, B
<1>10. Cardinality(A) = Cardinality(A \ B) + Cardinality(B) - 0
  BY <1>7, <1>8, <1>9, FS_Union, FS_EmptySet
<1>11. Cardinality(A) - Cardinality(B) = Cardinality(A \ B)
  BY <1>9, <1>10
<1> QED BY <1>1, <1>5, <1>6, <1>11 DEF A, B

LEMMA ReapTyped ==
  ASSUME Typed, NEW w \in Writers, WriterInv(w), Reap(w)
  PROVE  Typed'
<1>1. Cardinality(InFlight(w) \ Idx(cq[w])) \in Nat
  BY InFlightFinite, FS_Difference, FS_CardinalityType
<1>2. pending[w] - Cardinality(cq[w]) \in Nat
  BY <1>1, ReapCount
<1>3. pending' \in [Writers -> Nat]
  BY <1>2 DEF Reap, PendingAfter, Typed
<1>4. \A c \in cq[w] : RangeOf(w, c) \in CompletedRange
  BY DEF RangeOf, CompletedRange, Typed, Completion, Slot
<1>5. completed' \in [Writers -> SUBSET CompletedRange]
  <2>1. completed[w] \cup {RangeOf(w, c) : c \in cq[w]} \in SUBSET CompletedRange
    BY <1>4 DEF Typed
  <2> QED BY <2>1 DEF Reap, Typed
<1>6. \A i \in Slots :
        [slots[w][i] EXCEPT !.state = "Open", !.sealed_len = 0] \in Slot
  <2> TAKE i \in Slots
  <2>1. slots[w][i] \in Slot
    BY DEF Typed
  <2> QED BY <2>1, ReapedSlot
<1>7. slots' \in [Writers -> [Slots -> Slot]]
  BY <1>6 DEF Reap, Typed
<1>8. cq' \in [Writers -> SUBSET Completion] /\ pc' \in [Writers -> Labels]
  BY DEF Reap, Goto, Typed, Labels
<1> QED BY <1>3, <1>5, <1>7, <1>8 DEF Reap, Typed, clientVars

LEMMA TypedStep ==
  ASSUME Typed, NEW w \in Writers, WriterInv(w), StepOf(w)
  PROVE  Typed'
<1> USE DEF WriterInv
<1>1. CASE Append(w)
  BY <1>1, AppendTyped
<1>2. CASE Flush(w) \/ Finish(w)
  BY <1>2, SealRestTyped DEF Flush, Finish
<1>3. CASE SubmitSlot(w)
  BY <1>3, SubmitSlotTyped
<1>4. CASE Advance(w)
  BY <1>4, AdvanceTyped
<1>5. CASE SubmitAndWait(w)
  BY <1>5, SubmitAndWaitTyped
<1>6. CASE Reap(w)
  BY <1>6, ReapTyped
<1>7. CASE NothingPending(w)
  BY <1>7 DEF NothingPending, Goto, Typed, Labels, writerVars, clientVars
<1>8. CASE KernelComplete(w) \/ KernelFail(w)
  BY <1>8, KernelTakesTyped DEF KernelComplete, KernelFail
<1> QED BY <1>1, <1>2, <1>3, <1>4, <1>5, <1>6, <1>7, <1>8 DEF StepOf, Step

-----------------------------------------------------------------------------
(* The invariant of the writer that takes the step *)

LEMMA AppendInv ==
  ASSUME Typed, NEW w \in Writers, WriterInv(w), Append(w)
  PROVE  WriterInv(w)'
<1> USE DEF WriterInv
<1>1. PICK n \in Sizes : AppendFits(w, n) \/ AppendOverflows(w, n)
  BY DEF Append
<1>2. n \in 1 .. Batch /\ pc[w] = "idle" /\ cursor[w] \in 0 .. Batch
  BY DEF Append, LocalsOK, Typed
<1>3. UNCHANGED <<slots, head, pending, sq, kernel, cq>>
  BY DEF Append
<1>4. LocalsOK(w)' /\ pc'[w] \in {"idle", "seal"}
  <2>1. CASE AppendFits(w, n)
    BY <2>1, <1>2 DEF AppendFits, LocalsOK, Typed
  <2>2. CASE AppendOverflows(w, n)
    BY <2>2, <1>2 DEF AppendOverflows, Goto, LocalsOK, Typed
  <2> QED BY <1>1, <2>1, <2>2
<1>5. HeadFree(w)'
  BY <1>2, <1>3 DEF HeadFree
<1>6. EntriesMatch(w)' /\ OneEntry(w)'
  BY <1>3 DEF EntriesMatch, OneEntry, Entries
<1>7. Counted(w)' /\ AllDone(w)'
  BY <1>2, <1>3, <1>4 DEF Counted, AllDone, InFlight, Entries
<1> QED BY <1>4, <1>5, <1>6, <1>7

LEMMA SealRestInv ==
  ASSUME Typed, NEW w \in Writers, WriterInv(w),
         NEW then \in {"idle", "drain"}, SealRest(w, then)
  PROVE  WriterInv(w)'
<1> USE DEF WriterInv
<1>1. pc[w] = "idle" /\ cursor[w] \in 0 .. Batch
  BY DEF SealRest, LocalsOK, Typed
<1>2. UNCHANGED <<slots, head, cursor, pending, sq, kernel, cq>>
  BY DEF SealRest, writerVars
<1>3. LocalsOK(w)' /\ pc'[w] \in {"idle", "seal", "drain"}
  BY <1>1, <1>2 DEF SealRest, HasData, Goto, LocalsOK, Typed
<1>4. HeadFree(w)'
  BY <1>1, <1>2 DEF HeadFree
<1>5. EntriesMatch(w)' /\ OneEntry(w)'
  BY <1>2 DEF EntriesMatch, OneEntry, Entries
<1>6. Counted(w)' /\ AllDone(w)'
  BY <1>1, <1>2, <1>3 DEF Counted, AllDone, InFlight, Entries
<1> QED BY <1>3, <1>4, <1>5, <1>6

LEMMA AdvanceInv ==
  ASSUME Typed, NEW w \in Writers, WriterInv(w), Advance(w)
  PROVE  WriterInv(w)'
<1> USE DEF WriterInv
<1>1. pc[w] = "advance" /\ UNCHANGED <<slots, pending, sq, kernel, cq>>
  BY DEF Advance
<1>2. pc'[w] \in {"idle", "drain"} /\ cursor'[w] <= Batch
  BY <1>1 DEF Advance, Goto, LocalsOK, Typed, Locals
<1>3. LocalsOK(w)'
  BY <1>2 DEF LocalsOK
<1>4. HeadFree(w)'
  BY <1>1 DEF Advance, SlotIsFree, HeadFree, Typed
<1>5. EntriesMatch(w)' /\ OneEntry(w)'
  BY <1>1 DEF EntriesMatch, OneEntry, Entries
<1>6. Counted(w)' /\ AllDone(w)'
  BY <1>1, <1>2 DEF Counted, AllDone, InFlight, Entries
<1> QED BY <1>3, <1>4, <1>5, <1>6

LEMMA SubmitAndWaitInv ==
  ASSUME Typed, NEW w \in Writers, WriterInv(w), SubmitAndWait(w)
  PROVE  WriterInv(w)'
<1> USE DEF WriterInv
<1>1. pc[w] \in {"advance", "drain"} /\ UNCHANGED <<slots, head, cursor, pending, cq>>
  BY DEF SubmitAndWait, writerVars
<1>2. pc'[w] \in {"wait", "failed"}
  BY DEF SubmitAndWait, Enter, EnterFails, Goto, Typed
<1>3. loc'[w] = [loc[w] EXCEPT !.then = IF pc[w] = "drain" THEN "done" ELSE loc[w].then]
  BY DEF SubmitAndWait, Typed
<1>4. LocalsOK(w)'
  <2>1. loc'[w].len = loc[w].len /\ loc'[w].then \in {"done", loc[w].then}
    BY <1>3 DEF Typed, Locals
  <2>2. pc[w] = "drain" => loc'[w].then = "done"
    BY <1>3 DEF Typed, Locals
  <2> QED BY <1>1, <1>2, <2>1, <2>2 DEF LocalsOK
<1>5. HeadFree(w)'
  BY <1>2 DEF HeadFree
<1>6. /\ Entries(w)' = Entries(w)
      /\ sq'[w] \cap kernel'[w] = {}
  BY DEF SubmitAndWait, Enter, EnterFails, Entries, Typed, OneEntry
<1>7. EntriesMatch(w)' /\ OneEntry(w)'
  BY <1>1, <1>6 DEF EntriesMatch, OneEntry
<1>8. Counted(w)' /\ AllDone(w)'
  BY <1>1, <1>2, <1>6 DEF Counted, AllDone, InFlight
<1> QED BY <1>4, <1>5, <1>7, <1>8

LEMMA NothingPendingInv ==
  ASSUME Typed, NEW w \in Writers, WriterInv(w), NothingPending(w)
  PROVE  WriterInv(w)'
<1> USE DEF WriterInv
<1>1. /\ pc[w] = "drain" /\ pc'[w] = "done" /\ pending[w] = 0
      /\ UNCHANGED <<slots, head, cursor, pending, sq, kernel, cq, loc>>
  BY DEF NothingPending, Goto, writerVars, Typed
<1>2. InFlight(w) = {}
  BY <1>1, InFlightFinite, FS_EmptySet DEF Counted
<1>3. LocalsOK(w)' /\ HeadFree(w)'
  BY <1>1 DEF LocalsOK, HeadFree
<1>4. EntriesMatch(w)' /\ OneEntry(w)'
  BY <1>1 DEF EntriesMatch, OneEntry, Entries
<1>5. Counted(w)' /\ AllDone(w)'
  BY <1>1, <1>2 DEF Counted, AllDone, InFlight, Entries
<1> QED BY <1>3, <1>4, <1>5

\* What submit_slot does to its writer.
LEMMA SubmitSlotEffect ==
  ASSUME Typed, NEW w \in Writers, WriterInv(w), SubmitSlot(w)
  PROVE  LET r == [idx |-> head[w], at |-> file_offset, len |-> loc[w].valid_len]
         IN
         /\ pc[w] = "seal" /\ head[w] \in Slots /\ loc[w].valid_len \in 1 .. Batch
         /\ slots[w][head[w]].state = "Open"
         /\ slots'[w][head[w]] = [state |-> "InFlight", disk_offset |-> file_offset,
                                  sealed_len |-> loc[w].valid_len]
         /\ \A i \in Slots : i # head[w] => slots'[w][i] = slots[w][i]
         /\ file_offset' = file_offset + loc[w].valid_len
         /\ UNCHANGED <<head, cursor, cq, loc, completed, mem, total, disk, bad>>
         /\ \/ /\ sq'[w] = sq[w] \cup {r} /\ kernel'[w] = kernel[w]
               /\ pending'[w] = pending[w] + 1 /\ pc'[w] = "advance"
            \/ /\ sq'[w] = {r} /\ kernel'[w] = kernel[w] \cup sq[w]
               /\ pending'[w] = pending[w] + 1 /\ pc'[w] = "advance"
            \/ sq'[w] = sq[w] /\ kernel'[w] = kernel[w] /\ pc'[w] = "failed"
<1> DEFINE r == [idx |-> head[w], at |-> file_offset, len |-> loc[w].valid_len]
<1>1. /\ pc[w] = "seal" /\ head[w] \in Slots /\ loc[w].valid_len \in 1 .. Batch
      /\ slots[w][head[w]].state = "Open"
  BY DEF SubmitSlot, WriterInv, LocalsOK, HeadFree, Typed, Locals
<1>2. /\ slots'[w][head[w]] = [state |-> "InFlight", disk_offset |-> file_offset,
                               sealed_len |-> loc[w].valid_len]
      /\ \A i \in Slots : i # head[w] => slots'[w][i] = slots[w][i]
  BY <1>1 DEF SubmitSlot, Typed
<1>3. file_offset' = file_offset + loc[w].valid_len
  BY DEF SubmitSlot, ClaimRange
<1>4. UNCHANGED <<head, cursor, cq, loc, completed, mem, total, disk, bad>>
  BY DEF SubmitSlot, clientVars
<1>5. \/ /\ sq'[w] = sq[w] \cup {r} /\ kernel'[w] = kernel[w]
         /\ pending'[w] = pending[w] + 1 /\ pc'[w] = "advance"
      \/ /\ sq'[w] = {r} /\ kernel'[w] = kernel[w] \cup sq[w]
         /\ pending'[w] = pending[w] + 1 /\ pc'[w] = "advance"
      \/ sq'[w] = sq[w] /\ kernel'[w] = kernel[w] /\ pc'[w] = "failed"
  BY DEF SubmitSlot, EnterFails, Goto, Typed
<1> QED BY <1>1, <1>2, <1>3, <1>4, <1>5

\* The slots and the queues name no slot that is Open.
LEMMA EntriesInFlight ==
  ASSUME Typed, NEW w \in Writers, EntriesMatch(w)
  PROVE  /\ \A e \in Entries(w) : /\ e \in Entry /\ e.idx \in InFlight(w)
                                  /\ slots[w][e.idx].disk_offset = e.at
                                  /\ slots[w][e.idx].sealed_len = e.len
         /\ \A c \in cq[w] : /\ c \in Completion /\ c.idx \in InFlight(w)
                             /\ slots[w][c.idx].sealed_len = c.len
<1>1. ASSUME NEW e \in Entries(w)
      PROVE  /\ e \in Entry /\ e.idx \in InFlight(w)
             /\ slots[w][e.idx].disk_offset = e.at
             /\ slots[w][e.idx].sealed_len = e.len
  <2>1. slots[w][e.idx] = [state |-> "InFlight", disk_offset |-> e.at,
                           sealed_len |-> e.len]
    BY DEF EntriesMatch
  <2>2. e \in Entry /\ e.idx \in Slots
    BY DEF Typed, Entries, Entry
  <2> QED BY <2>1, <2>2 DEF InFlight
<1>2. \A c \in cq[w] : c \in Completion /\ c.idx \in Slots
  BY DEF Typed, Completion
<1> QED BY <1>1, <1>2 DEF InFlight, EntriesMatch

LEMMA SubmitSlotInv ==
  ASSUME Typed, NEW w \in Writers, WriterInv(w), SubmitSlot(w)
  PROVE  WriterInv(w)'
<1> USE DEF WriterInv
<1> DEFINE r == [idx |-> head[w], at |-> file_offset, len |-> loc[w].valid_len]
<1>1. /\ pc[w] = "seal" /\ head[w] \in Slots
      /\ slots[w][head[w]].state = "Open"
      /\ slots'[w][head[w]] = [state |-> "InFlight", disk_offset |-> r.at,
                               sealed_len |-> r.len]
      /\ \A i \in Slots : i # head[w] => slots'[w][i] = slots[w][i]
      /\ cq'[w] = cq[w] /\ loc'[w] = loc[w] /\ head'[w] = head[w]
  BY SubmitSlotEffect
<1>2. \/ /\ sq'[w] = sq[w] \cup {r} /\ kernel'[w] = kernel[w]
         /\ pending'[w] = pending[w] + 1 /\ pc'[w] = "advance"
      \/ /\ sq'[w] = {r} /\ kernel'[w] = kernel[w] \cup sq[w]
         /\ pending'[w] = pending[w] + 1 /\ pc'[w] = "advance"
      \/ sq'[w] = sq[w] /\ kernel'[w] = kernel[w] /\ pc'[w] = "failed"
  BY SubmitSlotEffect
<1>3. r.idx = head[w]
  OBVIOUS
<1> HIDE DEF r
<1>4. LocalsOK(w)' /\ HeadFree(w)' /\ AllDone(w)'
  BY <1>1, <1>2 DEF LocalsOK, HeadFree, AllDone
<1>5. /\ \A e \in Entries(w) : e.idx \in Slots /\ e.idx # head[w]
      /\ \A c \in cq[w] : c.idx \in Slots /\ c.idx # head[w]
  BY <1>1, EntriesInFlight DEF InFlight
<1>6. Entries(w)' \subseteq Entries(w) \cup {r}
  BY <1>2 DEF Entries
<1>7. EntriesMatch(w)'
  <2>1. ASSUME NEW e \in Entries(w)'
        PROVE  slots'[w][e.idx] = [state |-> "InFlight", disk_offset |-> e.at,
                                   sealed_len |-> e.len]
    <3>1. CASE e = r
      BY <3>1, <1>1, <1>3
    <3>2. CASE e \in Entries(w)
      BY <3>2, <1>1, <1>5 DEF EntriesMatch
    <3> QED BY <3>1, <3>2, <1>6
  <2>2. \A c \in cq'[w] : /\ slots'[w][c.idx].state = "InFlight"
                          /\ slots'[w][c.idx].sealed_len = c.len
    BY <1>1, <1>5 DEF EntriesMatch
  <2> QED BY <2>1, <2>2 DEF EntriesMatch
<1>8. OneEntry(w)'
  <2>1. sq'[w] \cap kernel'[w] = {}
    BY <1>2, <1>3, <1>5 DEF OneEntry, Entries
  <2>2. \A e \in Entries(w)', c \in cq'[w] : e.idx # c.idx
    BY <1>1, <1>3, <1>5, <1>6 DEF OneEntry
  <2> QED BY <2>1, <2>2, <1>1 DEF OneEntry
<1>9. Counted(w)'
  <2> SUFFICES ASSUME pc'[w] # "failed" PROVE Counted(w)'
      BY DEF Counted
  <2>1. Entries(w)' = Entries(w) \cup {r} /\ pending'[w] = pending[w] + 1
    BY <1>2 DEF Entries
  <2>2. InFlight(w)' = InFlight(w) \cup {head[w]} /\ head[w] \notin InFlight(w)
    BY <1>1 DEF InFlight
  <2>3. Cardinality(InFlight(w)') = Cardinality(InFlight(w)) + 1
    BY <2>2, InFlightFinite, FS_AddElement
  <2>4. ASSUME NEW i \in InFlight(w)'
        PROVE  \/ \E e \in Entries(w)' : e.idx = i
               \/ \E c \in cq'[w] : c.idx = i
    BY <2>1, <2>2, <1>1, <1>3 DEF Counted
  <2> QED BY <2>1, <2>3, <2>4, <1>1 DEF Counted
<1> QED BY <1>4, <1>7, <1>8, <1>9

LEMMA ReapInv ==
  ASSUME Typed, NEW w \in Writers, WriterInv(w), Reap(w)
  PROVE  WriterInv(w)'
<1> USE DEF WriterInv
<1>1. /\ pc[w] = "wait" /\ cq'[w] = {}
      /\ UNCHANGED <<head, cursor, loc, sq, kernel>>
      /\ Cardinality(cq[w]) >= Wanted(w)
      /\ pc'[w] = IF loc[w].then = "done" THEN "done" ELSE "advance"
      /\ pending'[w] = pending[w] - Cardinality(cq[w])
  BY DEF Reap, Goto, PendingAfter, Typed
<1>2. \A i \in Slots : i \notin Idx(cq[w]) => slots'[w][i] = slots[w][i]
  BY DEF Reap, Idx, Typed
<1>3. /\ InFlight(w)' = InFlight(w) \ Idx(cq[w])
      /\ pending'[w] = Cardinality(InFlight(w)')
  BY <1>1, ReapCount
<1>4. LocalsOK(w)' /\ HeadFree(w)'
  BY <1>1 DEF LocalsOK, HeadFree
<1>5. \A e \in Entries(w) : e.idx \in Slots /\ e.idx \notin Idx(cq[w])
  BY EntriesInFlight DEF OneEntry, Idx, InFlight
<1>6. Entries(w)' = Entries(w)
  BY <1>1 DEF Entries
<1>7. EntriesMatch(w)' /\ OneEntry(w)'
  BY <1>1, <1>2, <1>5, <1>6 DEF EntriesMatch, OneEntry
<1>8. Counted(w)'
  BY <1>1, <1>3, <1>6 DEF Counted, Idx
<1>9. AllDone(w)'
  <2> SUFFICES ASSUME pc'[w] = "done" PROVE InFlight(w)' = {}
      BY DEF AllDone
  <2>1. Cardinality(cq[w]) >= pending[w]
    BY <1>1 DEF Wanted
  <2>2. /\ IsFiniteSet(InFlight(w) \ Idx(cq[w]))
        /\ Cardinality(InFlight(w) \ Idx(cq[w])) \in Nat
    BY InFlightFinite, FS_Difference, FS_CardinalityType
  <2>3. Cardinality(cq[w]) \in Nat /\ pending[w] \in Nat
    BY CqCount DEF Typed
  <2>4. Cardinality(InFlight(w) \ Idx(cq[w])) = 0
    BY <2>1, <2>2, <2>3, ReapCount
  <2> QED BY <2>2, <2>4, <1>3, FS_EmptySet
<1> QED BY <1>4, <1>7, <1>8, <1>9

LEMMA KernelTakesInv ==
  ASSUME Typed, NEW w \in Writers, WriterInv(w), NEW r \in kernel[w],
         NEW ok \in BOOLEAN, KernelTakes(w, r, ok)
  PROVE  WriterInv(w)'
<1> USE DEF WriterInv
<1> DEFINE c0 == [idx |-> r.idx, len |-> r.len, ok |-> ok]
<1>1. /\ kernel'[w] = kernel[w] \ {r} /\ cq'[w] = cq[w] \cup {c0}
      /\ UNCHANGED <<slots, head, cursor, pending, sq, pc, loc>>
  BY DEF KernelTakes, writerVars, Typed
<1>2. c0.idx = r.idx /\ c0.len = r.len
  OBVIOUS
<1> HIDE DEF c0
<1>3. LocalsOK(w)' /\ HeadFree(w)' /\ AllDone(w)'
  BY <1>1 DEF LocalsOK, HeadFree, AllDone, InFlight
<1>4. r \in Entries(w) /\ InFlight(w)' = InFlight(w)
  BY <1>1 DEF Entries, InFlight
<1>5. \A e \in Entries(w) : e # r => e.idx # r.idx
  BY <1>4, SameEntry
<1>6. Entries(w)' = Entries(w) \ {r}
  BY <1>1 DEF Entries, OneEntry
<1>7. EntriesMatch(w)'
  <2>1. slots[w][r.idx].state = "InFlight" /\ slots[w][r.idx].sealed_len = r.len
    BY <1>4, EntriesInFlight DEF InFlight
  <2> QED BY <2>1, <1>1, <1>2, <1>6 DEF EntriesMatch
<1>8. OneEntry(w)'
  <2>1. sq'[w] \cap kernel'[w] = {}
    BY <1>1 DEF OneEntry
  <2>2. \A e \in Entries(w)', c \in cq'[w] : e.idx # c.idx
    BY <1>1, <1>2, <1>5, <1>6 DEF OneEntry
  <2>3. \A c, d \in cq'[w] : c.idx = d.idx => c = d
    BY <1>1, <1>2, <1>4 DEF OneEntry
  <2> QED BY <2>1, <2>2, <2>3 DEF OneEntry
<1>9. Counted(w)'
  <2> SUFFICES ASSUME pc[w] # "failed" PROVE Counted(w)'
      BY <1>1 DEF Counted
  <2>1. \A i \in InFlight(w) : \/ \E e \in Entries(w) : e # r /\ e.idx = i
                               \/ \E c \in cq[w] \cup {c0} : c.idx = i
    BY <1>2 DEF Counted
  <2> QED BY <2>1, <1>1, <1>4, <1>6 DEF Counted
<1> QED BY <1>3, <1>7, <1>8, <1>9

LEMMA WriterInvStep ==
  ASSUME Typed, NEW w \in Writers, WriterInv(w), StepOf(w)
  PROVE  WriterInv(w)'
<1>1. CASE Append(w)
  BY <1>1, AppendInv
<1>2. CASE Flush(w) \/ Finish(w)
  BY <1>2, SealRestInv DEF Flush, Finish
<1>3. CASE SubmitSlot(w)
  BY <1>3, SubmitSlotInv
<1>4. CASE Advance(w)
  BY <1>4, AdvanceInv
<1>5. CASE SubmitAndWait(w)
  BY <1>5, SubmitAndWaitInv
<1>6. CASE Reap(w)
  BY <1>6, ReapInv
<1>7. CASE NothingPending(w)
  BY <1>7, NothingPendingInv
<1>8. CASE KernelComplete(w) \/ KernelFail(w)
  BY <1>8, KernelTakesInv DEF KernelComplete, KernelFail
<1> QED BY <1>1, <1>2, <1>3, <1>4, <1>5, <1>6, <1>7, <1>8 DEF StepOf, Step

-----------------------------------------------------------------------------
(* The invariant holds *)

Inv == Typed /\ \A w \in Writers : WriterInv(w)

LEMMA InitInv == Init => Inv
<1> SUFFICES ASSUME Init PROVE Inv
    OBVIOUS
<1>1. OpenSlot \in Slot /\ OpenSlot.state = "Open" /\ NoLocals \in Locals
  BY DEF OpenSlot, Slot, NoLocals, Locals
<1>2. Typed
  <2>1. slots \in [Writers -> [Slots -> Slot]]
    BY <1>1 DEF Init
  <2>2. mem \in [Writers -> [Slots -> [0 .. Batch - 1 -> Nat \cup {-1}]]]
    BY DEF Init
  <2>3. 0 \in Slots
    BY DEF Slots
  <2> QED BY <1>1, <2>1, <2>2, <2>3 DEF Init, Typed, Labels
<1>3. ASSUME NEW w \in Writers PROVE WriterInv(w)
  <2>1. InFlight(w) = {}
    BY <1>1 DEF Init, InFlight
  <2>2. Cardinality(InFlight(w)) = 0
    BY <2>1, FS_EmptySet
  <2>3. LocalsOK(w) /\ EntriesMatch(w) /\ OneEntry(w)
    BY DEF Init, LocalsOK, EntriesMatch, OneEntry, Entries
  <2>4. HeadFree(w)
    BY <1>1 DEF Init, HeadFree, Slots
  <2>5. Counted(w) /\ AllDone(w)
    BY <2>1, <2>2 DEF Init, Counted, AllDone
  <2> QED BY <2>3, <2>4, <2>5 DEF WriterInv
<1> QED BY <1>2, <1>3 DEF Inv

LEMMA InvStep == Inv /\ [Next]_vars => Inv'
<1> SUFFICES ASSUME Inv, [Next]_vars PROVE Inv'
    OBVIOUS
<1>1. CASE UNCHANGED vars
  <2>1. Typed'
    BY <1>1 DEF Inv, Typed, vars, writerVars, clientVars
  <2>2. \A w \in Writers : Same(w)
    BY <1>1 DEF Same, vars, writerVars, clientVars
  <2> QED BY <2>1, <2>2, SameWriterInv DEF Inv
<1>2. ASSUME NEW w \in Writers, StepOf(w) PROVE Inv'
  <2>1. Typed'
    BY <1>2, TypedStep DEF Inv
  <2>2. ASSUME NEW v \in Writers PROVE WriterInv(v)'
    <3>1. CASE v = w
      BY <1>2, <3>1, WriterInvStep DEF Inv
    <3>2. CASE v # w
      BY <1>2, <3>2, OthersSame, SameWriterInv DEF Inv
    <3> QED BY <3>1, <3>2
  <2> QED BY <2>1, <2>2 DEF Inv
<1> QED BY <1>1, <1>2 DEF Next, StepOf

\* The inductive invariant: every writer's slots, its entries in the io_uring and
\* its count of them agree, whatever the other writers do.
THEOREM InvCorrect == Spec => []Inv
BY InitInv, InvStep, PTL DEF Spec

\* Every variable keeps its type; no write that submit_slot queues is empty or
\* longer than a slot, and reap_all never takes pending below zero.
THEOREM TypeCorrect == Spec => []TypeOK
<1>1. Inv => TypeOK
  BY DEF Inv, Typed, TypeOK, Slot, Entry, Completion, Labels
<1> QED BY <1>1, InvCorrect, PTL

\* The count that finish blocks for is the number of slots in flight and the
\* number of entries in the io_uring: submit_and_wait(pending) waits for all of
\* them and for no more.
THEOREM PendingCorrect == Spec => []PendingIsInFlight
<1>1. Inv => PendingIsInFlight
  <2> SUFFICES ASSUME Inv, NEW w \in Writers, pc[w] # "failed"
               PROVE  /\ pending[w] = Cardinality(InFlight(w))
                      /\ pending[w] = Cardinality(sq[w]) + Cardinality(kernel[w])
                                        + Cardinality(cq[w])
      BY DEF PendingIsInFlight
  <2>1. pending[w] = Cardinality(InFlight(w))
    BY DEF Inv, WriterInv, Counted
  <2> QED BY <2>1, EntriesCount DEF Inv
<1> QED BY <1>1, InvCorrect, PTL

LEMMA UntouchedStep ==
  ASSUME Inv, Next, NEW v \in Writers, NEW i \in InFlight(v)
  PROVE  mem'[v][i] = mem[v][i]
<1>1. PICK w \in Writers : StepOf(w)
  BY DEF Next, StepOf
<1>2. CASE v # w
  BY <1>1, <1>2, OthersSame DEF Inv, Same
<1>3. CASE v = w
  <2>1. i \in Slots /\ slots[w][i].state = "InFlight" /\ Typed
    BY <1>3 DEF InFlight, Inv
  <2>2. CASE Append(w)
    <3>1. i # head[w]
      BY <2>1, <2>2 DEF Append, Inv, WriterInv, HeadFree
    <3> QED BY <1>3, <2>1, <2>2, <3>1
            DEF Append, AppendFits, AppendOverflows, Write, Typed
  <2>3. CASE Advance(w)
    <3>1. i # NextSlot(w)
      BY <2>1, <2>3 DEF Advance, SlotIsFree
    <3> QED BY <1>3, <2>1, <2>3, <3>1 DEF Advance, Write, Typed
  <2>4. CASE ~(Append(w) \/ Advance(w))
    BY <1>1, <1>3, <2>4
       DEF StepOf, Step, Flush, Finish, SealRest, SubmitSlot, SubmitAndWait, Reap,
           NothingPending, KernelComplete, KernelFail, KernelTakes, writerVars
  <2> QED BY <2>2, <2>3, <2>4
<1> QED BY <1>2, <1>3

\* append and the payload that seal_and_advance copies into the next slot never
\* touch the memory of a slot whose write is in flight.
THEOREM UntouchedCorrect == Spec => InFlightUntouched
<1>1. Inv /\ [Next]_vars =>
        [\A w \in Writers : \A i \in InFlight(w) : mem'[w][i] = mem[w][i]]_vars
  BY UntouchedStep
<1> QED BY <1>1, InvCorrect, PTL DEF Spec, InFlightUntouched

-----------------------------------------------------------------------------
(* Ranges of the file *)

Apart(r, s) == \/ r.disk_offset + r.sealed_len <= s.disk_offset
               \/ s.disk_offset + s.sealed_len <= r.disk_offset

Within(r) == r.sealed_len > 0 /\ r.disk_offset + r.sealed_len <= file_offset

\* The ranges in flight and the completed ones lie before file_offset; one in
\* flight lies apart from all others.
RangesApart ==
  /\ \A w \in Writers : \A i \in InFlight(w) : Within(slots[w][i])
  /\ \A w \in Writers : \A r \in completed[w] : Within(r)
  /\ \A w, v \in Writers : \A i \in InFlight(w), j \in InFlight(v) :
       (w = v /\ i = j) \/ Apart(slots[w][i], slots[v][j])
  /\ \A w, v \in Writers : \A i \in InFlight(w), r \in completed[v] :
       Apart(slots[w][i], r)

LEMMA RangeTypes ==
  ASSUME Typed
  PROVE  /\ file_offset \in Nat
         /\ \A w \in Writers : \A i \in InFlight(w) :
              slots[w][i].disk_offset \in Nat /\ slots[w][i].sealed_len \in Nat
         /\ \A w \in Writers : \A r \in completed[w] :
              r.disk_offset \in Nat /\ r.sealed_len \in Nat
<1>1. ASSUME NEW w \in Writers, NEW i \in InFlight(w)
      PROVE  slots[w][i].disk_offset \in Nat /\ slots[w][i].sealed_len \in Nat
  <2>1. slots[w][i] \in Slot
    BY DEF Typed, InFlight
  <2> QED BY <2>1 DEF Slot
<1>2. ASSUME NEW w \in Writers, NEW r \in completed[w]
      PROVE  r.disk_offset \in Nat /\ r.sealed_len \in Nat
  <2>1. r \in CompletedRange
    BY DEF Typed
  <2> QED BY <2>1 DEF CompletedRange
<1> QED BY <1>1, <1>2 DEF Typed

LEMMA RangesUnchanged ==
  ASSUME RangesApart, UNCHANGED <<file_offset, slots, completed>>
  PROVE  RangesApart'
BY DEF RangesApart, Within, Apart, InFlight

\* The slots in flight after submit_slot: those before and the head.
LEMMA SubmitSlotInFlight ==
  ASSUME Inv, NEW w \in Writers, SubmitSlot(w)
  PROVE  /\ \A v \in Writers : \A i \in InFlight(v) :
              i \in InFlight(v)' /\ slots'[v][i] = slots[v][i]
         /\ \A v \in Writers : \A i \in InFlight(v)' :
              (v = w /\ i = head[w]) \/ i \in InFlight(v)
         /\ head[w] \in InFlight(w)' /\ head[w] \notin InFlight(w)
<1>1. /\ head[w] \in Slots /\ slots[w][head[w]].state = "Open"
      /\ \A i \in Slots : i # head[w] => slots'[w][i] = slots[w][i]
      /\ slots'[w][head[w]] = [state |-> "InFlight", disk_offset |-> file_offset,
                               sealed_len |-> loc[w].valid_len]
  BY SubmitSlotEffect DEF Inv
<1>2. \A v \in Writers : v # w => slots'[v] = slots[v]
  BY OthersSame DEF Inv, StepOf, Step, Same
<1>3. \A v \in Writers : \A i \in Slots :
        ~(v = w /\ i = head[w]) => slots'[v][i] = slots[v][i]
  BY <1>1, <1>2
<1>4. \A v \in Writers : \A i \in InFlight(v) : ~(v = w /\ i = head[w])
  BY <1>1 DEF InFlight
<1> QED BY <1>1, <1>3, <1>4 DEF InFlight

LEMMA SubmitSlotRanges ==
  ASSUME Inv, RangesApart, NEW w \in Writers, SubmitSlot(w)
  PROVE  RangesApart'
<1> DEFINE h == head[w]
           L == loc[w].valid_len
<1>1. /\ slots'[w][h].disk_offset = file_offset /\ slots'[w][h].sealed_len = L
      /\ L \in Nat /\ L > 0 /\ file_offset' = file_offset + L
      /\ completed' = completed
  <2>1. /\ L \in 1 .. Batch /\ file_offset' = file_offset + L
        /\ completed' = completed
        /\ slots'[w][h] = [state |-> "InFlight", disk_offset |-> file_offset,
                           sealed_len |-> L]
    BY SubmitSlotEffect DEF Inv
  <2> QED BY <2>1
<1>2. /\ \A v \in Writers : \A i \in InFlight(v) : slots'[v][i] = slots[v][i]
      /\ \A v \in Writers : \A i \in InFlight(v)' :
           (v = w /\ i = h) \/ i \in InFlight(v)
  BY SubmitSlotInFlight
<1>3. /\ file_offset \in Nat
      /\ \A v \in Writers : \A i \in InFlight(v) :
           slots[v][i].disk_offset \in Nat /\ slots[v][i].sealed_len \in Nat
      /\ \A v \in Writers : \A r \in completed[v] :
           r.disk_offset \in Nat /\ r.sealed_len \in Nat
  BY RangeTypes DEF Inv
<1> HIDE DEF h, L
<1>4. \A v \in Writers : \A i \in InFlight(v)' : Within(slots[v][i])'
  BY <1>1, <1>2, <1>3 DEF RangesApart, Within
<1>5. \A v \in Writers : \A r \in completed'[v] :
        r.sealed_len > 0 /\ r.disk_offset + r.sealed_len <= file_offset'
  BY <1>1, <1>3 DEF RangesApart, Within
<1>6. ASSUME NEW u \in Writers, NEW v \in Writers,
             NEW i \in InFlight(u)', NEW j \in InFlight(v)', ~(u = v /\ i = j)
      PROVE  Apart(slots'[u][i], slots'[v][j])
  <2>1. CASE i \in InFlight(u) /\ j \in InFlight(v)
    BY <2>1, <1>2, <1>6 DEF RangesApart
  <2>2. CASE (u = w /\ i = h) /\ j \in InFlight(v)
    BY <2>2, <1>1, <1>2, <1>3 DEF RangesApart, Within, Apart
  <2>3. CASE i \in InFlight(u) /\ (v = w /\ j = h)
    BY <2>3, <1>1, <1>2, <1>3 DEF RangesApart, Within, Apart
  <2> QED BY <2>1, <2>2, <2>3, <1>2, <1>6
<1>7. ASSUME NEW u \in Writers, NEW v \in Writers,
             NEW i \in InFlight(u)', NEW r \in completed'[v]
      PROVE  Apart(slots'[u][i], r)
  <2>1. CASE i \in InFlight(u)
    BY <2>1, <1>1, <1>2 DEF RangesApart
  <2>2. CASE u = w /\ i = h
    BY <2>2, <1>1, <1>3 DEF RangesApart, Within, Apart
  <2> QED BY <2>1, <2>2, <1>2
<1> QED BY <1>4, <1>5, <1>6, <1>7 DEF RangesApart, Within, Apart

\* What reap_all does to slots and ranges.
LEMMA ReapEffect ==
  ASSUME Inv, NEW w \in Writers, Reap(w)
  PROVE  /\ \A v \in Writers : \A i \in InFlight(v)' :
              i \in InFlight(v) /\ slots'[v][i] = slots[v][i]
         /\ \A v \in Writers : \A i \in InFlight(v) :
              \/ i \in InFlight(v)'
              \/ v = w /\ \E c \in cq[w] : c.idx = i
         /\ \A i \in InFlight(w)' : \A c \in cq[w] : c.idx # i
         /\ \A c \in cq[w] :
              /\ c.idx \in InFlight(w)
              /\ RangeOf(w, c).disk_offset = slots[w][c.idx].disk_offset
              /\ RangeOf(w, c).sealed_len = slots[w][c.idx].sealed_len
         /\ completed'[w] = completed[w] \cup {RangeOf(w, c) : c \in cq[w]}
         /\ \A v \in Writers : v # w => Same(v)
<1>1. \A v \in Writers : v # w => Same(v)
  BY OthersSame DEF Inv, StepOf, Step
<1>2. InFlight(w)' = InFlight(w) \ Idx(cq[w])
  BY ReapCount DEF Inv
<1>3. \A i \in Slots : i \notin Idx(cq[w]) => slots'[w][i] = slots[w][i]
  BY DEF Reap, Idx, Inv, Typed
<1>4. \A v \in Writers : v # w => InFlight(v)' = InFlight(v)
  BY <1>1 DEF Same, InFlight
<1>5. \A v \in Writers : \A i \in InFlight(v)' :
        i \in InFlight(v) /\ slots'[v][i] = slots[v][i]
  <2> SUFFICES ASSUME NEW v \in Writers, NEW i \in InFlight(v)'
               PROVE  i \in InFlight(v) /\ slots'[v][i] = slots[v][i]
      OBVIOUS
  <2>1. CASE v = w
    BY <2>1, <1>2, <1>3 DEF InFlight
  <2>2. CASE v # w
    BY <2>2, <1>1, <1>4 DEF Same
  <2> QED BY <2>1, <2>2
<1>6. \A v \in Writers : \A i \in InFlight(v) :
        \/ i \in InFlight(v)'
        \/ v = w /\ \E c \in cq[w] : c.idx = i
  BY <1>2, <1>4 DEF Idx
<1>7. \A i \in InFlight(w)' : \A c \in cq[w] : c.idx # i
  BY <1>2 DEF Idx
<1>8. \A c \in cq[w] : c.idx \in InFlight(w) /\ slots[w][c.idx].sealed_len = c.len
  BY EntriesInFlight DEF Inv, WriterInv
<1>9. \A c \in cq[w] :
        /\ RangeOf(w, c).disk_offset = slots[w][c.idx].disk_offset
        /\ RangeOf(w, c).sealed_len = slots[w][c.idx].sealed_len
  BY <1>8 DEF RangeOf
<1>10. completed'[w] = completed[w] \cup {RangeOf(w, c) : c \in cq[w]}
  BY DEF Reap, Inv, Typed
<1> QED BY <1>1, <1>5, <1>6, <1>7, <1>8, <1>9, <1>10

LEMMA ReapRanges ==
  ASSUME Inv, RangesApart, NEW w \in Writers, Reap(w)
  PROVE  RangesApart'
<1>1. /\ \A v \in Writers : \A i \in InFlight(v)' :
           i \in InFlight(v) /\ slots'[v][i] = slots[v][i]
      /\ \A i \in InFlight(w)' : \A c \in cq[w] : c.idx # i
      /\ \A c \in cq[w] :
           /\ c.idx \in InFlight(w)
           /\ RangeOf(w, c).disk_offset = slots[w][c.idx].disk_offset
           /\ RangeOf(w, c).sealed_len = slots[w][c.idx].sealed_len
  BY ReapEffect
<1>2. \A v \in Writers : \A r \in completed'[v] :
        r \in completed[v] \/ (v = w /\ \E c \in cq[w] : r = RangeOf(w, c))
  BY ReapEffect DEF Same
<1>3. file_offset' = file_offset
  BY DEF Reap
<1>4. \A v \in Writers : \A i \in InFlight(v)' : Within(slots[v][i])'
  BY <1>1, <1>3 DEF RangesApart, Within
<1>5. \A v \in Writers : \A r \in completed'[v] :
        r.sealed_len > 0 /\ r.disk_offset + r.sealed_len <= file_offset'
  BY <1>1, <1>2, <1>3 DEF RangesApart, Within
<1>6. ASSUME NEW u \in Writers, NEW v \in Writers,
             NEW i \in InFlight(u)', NEW j \in InFlight(v)', ~(u = v /\ i = j)
      PROVE  Apart(slots'[u][i], slots'[v][j])
  BY <1>1, <1>6 DEF RangesApart
<1>7. ASSUME NEW u \in Writers, NEW v \in Writers,
             NEW i \in InFlight(u)', NEW r \in completed'[v]
      PROVE  Apart(slots'[u][i], r)
  <2>1. CASE r \in completed[v]
    BY <2>1, <1>1 DEF RangesApart
  <2>2. ASSUME v = w, NEW c \in cq[w], r = RangeOf(w, c)
        PROVE  Apart(slots'[u][i], r)
    <3>1. Apart(slots[u][i], slots[w][c.idx])
      BY <1>1 DEF RangesApart
    <3> QED BY <3>1, <2>2, <1>1 DEF Apart
  <2> QED BY <2>1, <2>2, <1>2
<1> QED BY <1>4, <1>5, <1>6, <1>7 DEF RangesApart, Within, Apart

LEMMA RangesStep == Inv /\ RangesApart /\ [Next]_vars => RangesApart'
<1> SUFFICES ASSUME Inv, RangesApart, [Next]_vars PROVE RangesApart'
    OBVIOUS
<1>1. CASE UNCHANGED vars
  BY <1>1, RangesUnchanged DEF vars, writerVars
<1>2. ASSUME NEW w \in Writers, StepOf(w) PROVE RangesApart'
  <2>1. CASE SubmitSlot(w)
    BY <2>1, SubmitSlotRanges
  <2>2. CASE Reap(w)
    BY <2>2, ReapRanges
  <2>3. CASE ~(SubmitSlot(w) \/ Reap(w))
    <3>1. UNCHANGED <<file_offset, slots, completed>>
      BY <1>2, <2>3
         DEF StepOf, Step, Append, Flush, Finish, SealRest, Advance, SubmitAndWait,
             NothingPending, KernelComplete, KernelFail, KernelTakes, writerVars
    <3> QED BY <3>1, RangesUnchanged
  <2> QED BY <2>1, <2>2, <2>3
<1> QED BY <1>1, <1>2 DEF Next, StepOf

LEMMA RangesCorrect == Spec => []RangesApart
<1>1. Init => RangesApart
  BY DEF Init, RangesApart, InFlight, OpenSlot
<1> QED BY <1>1, RangesStep, InvCorrect, PTL DEF Spec

-----------------------------------------------------------------------------
(* The writers implement the abstract log *)

Claimed == Reported \cup UNION {{AsRange(slots[w][i]) : i \in InFlight(w)} :
                                w \in Writers}
Finished == Reported \cup UNION {{AsRange(slots[w][c.idx]) : c \in cq[w]} :
                                 w \in Writers}

LEMMA InReported ==
  \A r : r \in Reported <=> \E w \in Writers : \E x \in completed[w] : r = AsRange(x)
BY DEF Reported

LEMMA InClaimed ==
  \A r : r \in Claimed <=>
    \/ r \in Reported
    \/ \E w \in Writers : \E i \in InFlight(w) : r = AsRange(slots[w][i])
BY DEF Claimed

LEMMA InFinished ==
  \A r : r \in Finished <=>
    \/ r \in Reported
    \/ \E w \in Writers : \E c \in cq[w] : r = AsRange(slots[w][c.idx])
BY DEF Finished

\* A range in flight is not reported, and no other slot has it.
LEMMA RangeIsOwn ==
  ASSUME Inv, RangesApart, NEW w \in Writers, NEW i \in InFlight(w)
  PROVE  /\ AsRange(slots[w][i]) \notin Reported
         /\ \A v \in Writers : \A j \in InFlight(v) :
              AsRange(slots[w][i]) = AsRange(slots[v][j]) => w = v /\ i = j
<1>1. /\ slots[w][i].disk_offset \in Nat /\ slots[w][i].sealed_len \in Nat
      /\ slots[w][i].sealed_len > 0
  BY RangeTypes DEF Inv, RangesApart, Within
<1>2. ASSUME NEW v \in Writers, NEW x \in completed[v],
             AsRange(slots[w][i]) = AsRange(x)
      PROVE  FALSE
  <2>1. x.disk_offset = slots[w][i].disk_offset /\ x.sealed_len = slots[w][i].sealed_len
    BY <1>2 DEF AsRange
  <2>2. Apart(slots[w][i], x)
    BY DEF RangesApart
  <2> QED BY <1>1, <2>1, <2>2 DEF Apart
<1>3. ASSUME NEW v \in Writers, NEW j \in InFlight(v),
             AsRange(slots[w][i]) = AsRange(slots[v][j]), ~(w = v /\ i = j)
      PROVE  FALSE
  <2>1. /\ slots[v][j].disk_offset = slots[w][i].disk_offset
        /\ slots[v][j].sealed_len = slots[w][i].sealed_len
    BY <1>3 DEF AsRange
  <2>2. Apart(slots[w][i], slots[v][j])
    BY <1>3 DEF RangesApart
  <2> QED BY <1>1, <2>1, <2>2 DEF Apart
<1> QED BY <1>2, <1>3, InReported

\* fetch_add in submit_slot claims the next range of the log.
LEMMA SubmitSlotClaims ==
  ASSUME Inv, NEW w \in Writers, SubmitSlot(w)
  PROVE  Log!Claim
<1> DEFINE L == loc[w].valid_len
           new == [at |-> file_offset, len |-> L]
<1>1. /\ L \in 1 .. Batch /\ file_offset' = file_offset + L
      /\ completed' = completed /\ cq' = cq
      /\ slots'[w][head[w]] = [state |-> "InFlight", disk_offset |-> file_offset,
                               sealed_len |-> L]
  BY SubmitSlotEffect DEF Inv
<1>2. AsRange(slots'[w][head[w]]) = new
  BY <1>1 DEF AsRange
<1>3. /\ \A v \in Writers : \A i \in InFlight(v) :
           i \in InFlight(v)' /\ slots'[v][i] = slots[v][i]
      /\ \A v \in Writers : \A i \in InFlight(v)' :
           (v = w /\ i = head[w]) \/ i \in InFlight(v)
      /\ head[w] \in InFlight(w)'
  BY SubmitSlotInFlight
<1>4. Reported' = Reported
  BY <1>1 DEF Reported
<1> HIDE DEF new
<1>5. Claimed' = Claimed \cup {new}
  <2>1. ASSUME NEW r PROVE r \in Claimed' <=> r \in Claimed \/ r = new
    <3>1. r \in Claimed' <=> \/ r \in Reported
                             \/ \E v \in Writers : \E i \in InFlight(v)' :
                                  r = AsRange(slots'[v][i])
      BY <1>4 DEF Claimed
    <3> QED BY <3>1, <1>2, <1>3, InClaimed
  <2> QED BY <2>1
<1>6. \A v \in Writers : \A c \in cq[v] : c.idx \in InFlight(v)
  BY EntriesInFlight DEF Inv, WriterInv
<1>7. Finished' = Finished
  <2>1. ASSUME NEW r PROVE r \in Finished' <=> r \in Finished
    <3>1. r \in Finished' <=> \/ r \in Reported
                              \/ \E v \in Writers : \E c \in cq[v] :
                                   r = AsRange(slots'[v][c.idx])
      BY <1>1, <1>4 DEF Finished
    <3> QED BY <3>1, <1>3, <1>6, InFinished
  <2> QED BY <2>1
<1>8. PICK e \in Nat : e = file_offset' /\ e > file_offset /\ e - file_offset = L
  BY <1>1 DEF Inv, Typed
<1>9. /\ file_offset' \in Nat /\ file_offset' > file_offset
      /\ new = [at |-> file_offset, len |-> file_offset' - file_offset]
  BY <1>8 DEF new
<1> QED BY <1>4, <1>5, <1>7, <1>9 DEF Log!Claim, Claimed, Finished

\* A completion of the kernel, with or without error, finishes a range.
LEMMA KernelFinishes ==
  ASSUME Inv, RangesApart, NEW w \in Writers, NEW r \in kernel[w],
         NEW ok \in BOOLEAN, KernelTakes(w, r, ok)
  PROVE  Log!Finish
<1> DEFINE c0 == [idx |-> r.idx, len |-> r.len, ok |-> ok]
           f == AsRange(slots[w][r.idx])
<1>1. /\ cq'[w] = cq[w] \cup {c0} /\ c0.idx = r.idx
      /\ \A v \in Writers : v # w => cq'[v] = cq[v]
      /\ UNCHANGED <<file_offset, slots, completed>>
  BY DEF KernelTakes, writerVars, Inv, Typed
<1>2. r \in Entries(w) /\ r.idx \in InFlight(w)
  BY EntriesInFlight DEF Entries, Inv, WriterInv
<1>3. f \in Claimed
  BY <1>2, InClaimed
<1>4. f \notin Finished
  <2>1. f \notin Reported
    BY <1>2, RangeIsOwn
  <2>2. ASSUME NEW v \in Writers, NEW c \in cq[v], f = AsRange(slots[v][c.idx])
        PROVE  FALSE
    <3>1. c.idx \in InFlight(v)
      BY EntriesInFlight DEF Inv, WriterInv
    <3>2. v = w /\ c.idx = r.idx
      BY <3>1, <2>2, <1>2, RangeIsOwn
    <3> QED BY <3>2, <1>2 DEF Inv, WriterInv, OneEntry
  <2> QED BY <2>1, <2>2, InFinished
<1>5. Reported' = Reported /\ Claimed' = Claimed
  BY <1>1 DEF Reported, Claimed, InFlight
<1> HIDE DEF c0, f
<1>6. Finished' = Finished \cup {f}
  <2>1. ASSUME NEW x PROVE x \in Finished' <=> x \in Finished \/ x = f
    <3>1. x \in Finished' <=> \/ x \in Reported
                              \/ \E v \in Writers : \E c \in cq'[v] :
                                   x = AsRange(slots[v][c.idx])
      BY <1>1, <1>5 DEF Finished
    <3>2. (\E v \in Writers : \E c \in cq'[v] : x = AsRange(slots[v][c.idx])) <=>
            \/ \E v \in Writers : \E c \in cq[v] : x = AsRange(slots[v][c.idx])
            \/ x = f
      BY <1>1 DEF f
    <3> QED BY <3>1, <3>2, InFinished
  <2> QED BY <2>1
<1> QED BY <1>1, <1>3, <1>4, <1>5, <1>6 DEF Log!Finish, Claimed, Finished

\* reap_all reports finished ranges, with the position and the length that
\* submit_slot claimed.
LEMMA ReapReports ==
  ASSUME Inv, NEW w \in Writers, Reap(w)
  PROVE  Log!Report
<1>1. /\ \A v \in Writers : \A i \in InFlight(v)' :
           i \in InFlight(v) /\ slots'[v][i] = slots[v][i]
      /\ \A v \in Writers : \A i \in InFlight(v) :
           \/ i \in InFlight(v)'
           \/ v = w /\ \E c \in cq[w] : c.idx = i
      /\ completed'[w] = completed[w] \cup {RangeOf(w, c) : c \in cq[w]}
  BY ReapEffect
<1>2. \A c \in cq[w] : /\ c.idx \in InFlight(w)
                       /\ AsRange(RangeOf(w, c)) = AsRange(slots[w][c.idx])
  BY ReapEffect DEF AsRange
<1>3. /\ file_offset' = file_offset /\ cq'[w] = {}
      /\ \A v \in Writers : v # w =>
           completed'[v] = completed[v] /\ cq'[v] = cq[v] /\ slots'[v] = slots[v]
  <2>1. file_offset' = file_offset /\ cq'[w] = {}
    BY DEF Reap, Inv, Typed
  <2>2. \A v \in Writers : v # w => Same(v)
    BY ReapEffect
  <2> QED BY <2>1, <2>2 DEF Same
<1>4. ASSUME NEW r
      PROVE  r \in Reported' <=>
               r \in Reported \/ \E c \in cq[w] : r = AsRange(slots[w][c.idx])
  <2>1. r \in Reported' <=> \E v \in Writers : \E x \in completed'[v] : r = AsRange(x)
    BY DEF Reported
  <2> QED BY <2>1, <1>1, <1>2, <1>3, InReported
<1>5. Reported \subseteq Reported' /\ Reported' \subseteq Finished
  BY <1>4, InFinished
<1>6. Claimed' = Claimed
  <2>1. ASSUME NEW r PROVE r \in Claimed' <=> r \in Claimed
    <3>1. r \in Claimed' <=> \/ r \in Reported'
                             \/ \E v \in Writers : \E i \in InFlight(v)' :
                                  r = AsRange(slots'[v][i])
      BY DEF Claimed
    <3>2. r \in Claimed' => r \in Claimed
      BY <3>1, <1>1, <1>2, <1>4, InClaimed
    <3>3. r \in Claimed => r \in Claimed'
      BY <3>1, <1>1, <1>4, InClaimed
    <3> QED BY <3>2, <3>3
  <2> QED BY <2>1
<1>7. Finished' = Finished
  <2>1. ASSUME NEW r PROVE r \in Finished' <=> r \in Finished
    <3>1. r \in Finished' <=> \/ r \in Reported'
                              \/ \E v \in Writers : \E c \in cq'[v] :
                                   r = AsRange(slots'[v][c.idx])
      BY DEF Finished
    <3>2. r \in Finished' => r \in Finished
      BY <3>1, <1>3, <1>4, InFinished
    <3>3. r \in Finished => r \in Finished'
      BY <3>1, <1>3, <1>4, InFinished
    <3> QED BY <3>2, <3>3
  <2> QED BY <2>1
<1> QED BY <1>3, <1>5, <1>6, <1>7 DEF Log!Report, Claimed, Finished

LEMMA LogStutters ==
  ASSUME UNCHANGED <<file_offset, slots, completed, cq>>
  PROVE  UNCHANGED Log!vars
<1>1. Reported' = Reported
  BY DEF Reported
<1>2. Claimed' = Claimed /\ Finished' = Finished
  BY <1>1 DEF Claimed, Finished, InFlight
<1> QED BY <1>1, <1>2 DEF Log!vars, Claimed, Finished

LEMMA LogStep == Inv /\ RangesApart /\ [Next]_vars => [Log!Next]_(Log!vars)
<1> SUFFICES ASSUME Inv, RangesApart, [Next]_vars PROVE [Log!Next]_(Log!vars)
    OBVIOUS
<1>1. CASE UNCHANGED vars
  BY <1>1, LogStutters DEF vars, writerVars
<1>2. ASSUME NEW w \in Writers, StepOf(w) PROVE [Log!Next]_(Log!vars)
  <2>1. CASE SubmitSlot(w)
    BY <2>1, SubmitSlotClaims DEF Log!Next
  <2>2. CASE KernelComplete(w) \/ KernelFail(w)
    BY <2>2, KernelFinishes DEF KernelComplete, KernelFail, Log!Next
  <2>3. CASE Reap(w)
    BY <2>3, ReapReports DEF Log!Next
  <2>4. CASE Append(w) \/ Flush(w) \/ Finish(w) \/ Advance(w) \/ SubmitAndWait(w)
               \/ NothingPending(w)
    <3>1. UNCHANGED <<file_offset, slots, completed, cq>>
      BY <2>4 DEF Append, Flush, Finish, SealRest, Advance, SubmitAndWait,
                  NothingPending, writerVars
    <3> QED BY <3>1, LogStutters
  <2> QED BY <1>2, <2>1, <2>2, <2>3, <2>4 DEF StepOf, Step
<1> QED BY <1>1, <1>2 DEF Next, StepOf

\* The writers' threads together behave as one abstract log: each range is
\* claimed where the last one ended, finished once, and reported by reap_all
\* only after the kernel is done with it, as it was claimed.
THEOREM LogCorrect == Spec => ImplementsRangeLog
<1>1. Init => Log!Init
  BY DEF Init, Log!Init, Reported, InFlight, OpenSlot
<1> QED BY <1>1, LogStep, InvCorrect, RangesCorrect, PTL
        DEF Spec, ImplementsRangeLog, Log!Spec

\* Positions handed to the threads lie apart and fill the file, whatever the
\* interleaving of their fetch_add calls and whatever fails.
THEOREM FileTiledCorrect == Spec => []FileTiled
BY LogCorrect, Log!TiledCorrect, PTL DEF ImplementsRangeLog, FileTiled

-----------------------------------------------------------------------------
(* What is in the file *)

\* Bytes in the head slot that no range has been claimed for.
Unsealed(w) == CASE pc[w] = "idle" -> cursor[w]
                 [] pc[w] = "seal" -> loc[w].valid_len
                 [] OTHER          -> 0

Sealed(w) == total[w] - Unsealed(w)

Bytes(r) == r.disk_offset .. r.disk_offset + r.sealed_len - 1

\* Position a of the file has byte p of w's stream, or its write failed.
Stored(w, p, a) == Failed(a) \/ (a \in DOMAIN disk /\ disk[a] = <<w, p>>)

\* Byte p of w's stream belongs at position a: that range is completed, or its
\* slot is in flight and has the byte.
Placed(w, p, a) ==
  \/ \E r \in completed[w] : a \in Bytes(r) /\ Stored(w, p, a)
  \/ \E i \in InFlight(w) :
       /\ a \in Bytes(slots[w][i])
       /\ mem[w][i][a - slots[w][i].disk_offset] = p
       /\ \A c \in cq[w] : c.idx = i => Stored(w, p, a)

\* The head slot has the last bytes of the stream.
HeadHolds(w) ==
  /\ Unsealed(w) \in 0 .. total[w]
  /\ \A a \in 0 .. Unsealed(w) - 1 : mem[w][head[w]][a] = Sealed(w) + a

\* The bytes before have their places, in order.
Laid(w) ==
  \E at \in [0 .. Sealed(w) - 1 -> 0 .. file_offset - 1] :
    /\ \A p, q \in 0 .. Sealed(w) - 1 : p < q => at[p] < at[q]
    /\ \A p \in 0 .. Sealed(w) - 1 : Placed(w, p, at[p])

StreamInv == \A w \in Writers : pc[w] # "failed" => HeadHolds(w) /\ Laid(w)

LEMMA FailedStays ==
  ASSUME Inv, NEW w \in Writers, StepOf(w), NEW v \in Writers, pc'[v] # "failed"
  PROVE  pc[v] # "failed"
<1>1. CASE v # w
  BY <1>1, OthersSame DEF Inv, Same
<1>2. CASE v = w
  BY <1>2 DEF StepOf, Step, Append, Flush, Finish, SealRest, SubmitSlot, Advance,
              SubmitAndWait, Reap, NothingPending, KernelComplete, KernelFail,
              KernelTakes
<1> QED BY <1>1, <1>2

\* Where a byte belongs does not change when slots, ranges and file do not.
LEMMA PlacedQuiet ==
  ASSUME NEW v \in Writers,
         UNCHANGED <<slots, completed, cq, disk, bad>>,
         \A i \in InFlight(v) : mem'[v][i] = mem[v][i],
         NEW p, NEW a, Placed(v, p, a)
  PROVE  Placed(v, p, a)'
<1>1. Stored(v, p, a)' <=> Stored(v, p, a)
  BY DEF Stored, Failed
<1>2. InFlight(v)' = InFlight(v)
  BY DEF InFlight
<1> QED BY <1>1, <1>2 DEF Placed, Bytes

LEMMA PlacedSubmitSlot ==
  ASSUME Inv, NEW w \in Writers, SubmitSlot(w), NEW v \in Writers,
         NEW p, NEW a, Placed(v, p, a)
  PROVE  Placed(v, p, a)'
<1>1. UNCHANGED <<completed, mem, cq, disk, bad>>
  BY SubmitSlotEffect DEF Inv
<1>2. \A i \in InFlight(v) : i \in InFlight(v)' /\ slots'[v][i] = slots[v][i]
  BY SubmitSlotInFlight
<1>3. Stored(v, p, a)' <=> Stored(v, p, a)
  BY <1>1 DEF Stored, Failed
<1> QED BY <1>1, <1>2, <1>3 DEF Placed, Bytes

LEMMA PlacedReap ==
  ASSUME Inv, NEW w \in Writers, Reap(w), NEW v \in Writers,
         NEW p, NEW a, Placed(v, p, a)
  PROVE  Placed(v, p, a)'
<1>1. UNCHANGED <<mem, disk, bad>>
  BY DEF Reap
<1>2. Stored(v, p, a)' <=> Stored(v, p, a)
  BY <1>1 DEF Stored, Failed
<1>3. CASE v # w
  <2>1. Same(v)
    BY <1>3, ReapEffect
  <2>2. InFlight(v)' = InFlight(v)
    BY <2>1 DEF Same, InFlight
  <2> QED BY <1>2, <2>1, <2>2 DEF Placed, Bytes, Same
<1>4. CASE v = w
  <2>1. /\ \A i \in InFlight(w)' : slots'[w][i] = slots[w][i]
        /\ \A i \in InFlight(w) : i \in InFlight(w)' \/ \E c \in cq[w] : c.idx = i
        /\ completed'[w] = completed[w] \cup {RangeOf(w, c) : c \in cq[w]}
    BY ReapEffect
  <2>2. \A c \in cq[w] :
          /\ RangeOf(w, c).disk_offset = slots[w][c.idx].disk_offset
          /\ RangeOf(w, c).sealed_len = slots[w][c.idx].sealed_len
    BY ReapEffect
  <2>3. cq'[w] = {}
    BY DEF Reap, Inv, Typed
  <2>4. ASSUME NEW r \in completed[w], a \in Bytes(r), Stored(w, p, a)
        PROVE  Placed(w, p, a)'
    BY <1>2, <1>4, <2>1, <2>4 DEF Placed, Bytes
  <2>5. ASSUME NEW i \in InFlight(w), a \in Bytes(slots[w][i]),
               mem[w][i][a - slots[w][i].disk_offset] = p,
               \A c \in cq[w] : c.idx = i => Stored(w, p, a)
        PROVE  Placed(w, p, a)'
    <3>1. CASE i \in InFlight(w)'
      BY <1>1, <2>1, <2>3, <2>5, <3>1 DEF Placed, Bytes
    <3>2. ASSUME NEW c \in cq[w], c.idx = i PROVE Placed(w, p, a)'
      <4>1. RangeOf(w, c) \in completed'[w]
        BY <2>1
      <4>2. a \in Bytes(RangeOf(w, c))
        BY <2>2, <2>5, <3>2 DEF Bytes
      <4>3. Stored(w, p, a)'
        BY <1>2, <1>4, <2>5, <3>2
      <4> QED BY <4>1, <4>2, <4>3 DEF Placed, Bytes
    <3> QED BY <2>1, <3>1, <3>2
  <2> QED BY <1>4, <2>4, <2>5 DEF Placed
<1> QED BY <1>3, <1>4

\* A completion touches the file only in its own range.
LEMMA PlacedKernel ==
  ASSUME Inv, RangesApart, NEW w \in Writers, NEW r \in kernel[w],
         NEW ok \in BOOLEAN, KernelTakes(w, r, ok),
         NEW v \in Writers, NEW p, NEW a \in Nat, Placed(v, p, a),
         (Stored(v, p, a) /\ a \notin r.at .. r.at + r.len - 1) => Stored(v, p, a)',
         (v = w /\ a \in r.at .. r.at + r.len - 1 /\ mem[w][r.idx][a - r.at] = p) =>
           Stored(v, p, a)'
  PROVE  Placed(v, p, a)'
<1> DEFINE c0 == [idx |-> r.idx, len |-> r.len, ok |-> ok]
<1>1. /\ cq'[w] = cq[w] \cup {c0} /\ c0.idx = r.idx
      /\ \A u \in Writers : u # w => cq'[u] = cq[u]
      /\ UNCHANGED <<slots, completed, mem>>
  BY DEF KernelTakes, writerVars, Inv, Typed
<1>2. /\ r \in Entry /\ r.idx \in InFlight(w)
      /\ slots[w][r.idx].disk_offset = r.at /\ slots[w][r.idx].sealed_len = r.len
  BY EntriesInFlight DEF Entries, Inv, WriterInv
<1> HIDE DEF c0
<1>3. InFlight(v)' = InFlight(v)
  BY <1>1 DEF InFlight
<1>4. r.at \in Nat /\ r.len \in Nat
  BY <1>2 DEF Entry
<1>5. ASSUME NEW x \in completed[v], a \in Bytes(x), Stored(v, p, a)
      PROVE  Placed(v, p, a)'
  <2>1. Apart(slots[w][r.idx], x)
    BY <1>2 DEF RangesApart
  <2>2. x.disk_offset \in Nat /\ x.sealed_len \in Nat
    BY RangeTypes DEF Inv
  <2>3. a \notin r.at .. r.at + r.len - 1
    BY <1>2, <1>4, <1>5, <2>1, <2>2 DEF Apart, Bytes
  <2> QED BY <1>1, <1>5, <2>3 DEF Placed, Bytes
<1>6. ASSUME NEW i \in InFlight(v), a \in Bytes(slots[v][i]),
             mem[v][i][a - slots[v][i].disk_offset] = p,
             \A c \in cq[v] : c.idx = i => Stored(v, p, a)
      PROVE  Placed(v, p, a)'
  <2>1. CASE v = w /\ i = r.idx
    <3>1. Stored(v, p, a)'
      BY <1>2, <1>6, <2>1 DEF Bytes
    <3> QED BY <1>1, <1>3, <1>6, <3>1 DEF Placed, Bytes
  <2>2. CASE ~(v = w /\ i = r.idx)
    <3>1. Apart(slots[w][r.idx], slots[v][i])
      BY <1>2, <2>2 DEF RangesApart
    <3>2. slots[v][i].disk_offset \in Nat /\ slots[v][i].sealed_len \in Nat
      BY RangeTypes DEF Inv
    <3>3. a \notin r.at .. r.at + r.len - 1
      BY <1>2, <1>4, <1>6, <3>1, <3>2 DEF Apart, Bytes
    <3>4. \A c \in cq'[v] : c.idx = i => Stored(v, p, a)'
      BY <1>1, <1>6, <2>2, <3>3
    <3> QED BY <1>1, <1>3, <1>6, <3>4 DEF Placed, Bytes
  <2> QED BY <2>1, <2>2
<1> QED BY <1>5, <1>6 DEF Placed

LEMMA PlacedKernelComplete ==
  ASSUME Inv, RangesApart, NEW w \in Writers, KernelComplete(w),
         NEW v \in Writers, pc[v] # "failed", NEW p, NEW a \in Nat, Placed(v, p, a)
  PROVE  Placed(v, p, a)'
<1>1. PICK r \in kernel[w] : \E m \in Found(w, r.idx) :
        LET range == r.at .. r.at + r.len - 1 IN
        /\ KernelTakes(w, r, TRUE)
        /\ disk' = [b \in DOMAIN disk \cup range |->
                      IF b \in range THEN <<w, m[b - r.at]>> ELSE disk[b]]
        /\ UNCHANGED <<bad, faults>>
  BY DEF KernelComplete
<1>2. PICK m \in Found(w, r.idx) :
        /\ KernelTakes(w, r, TRUE)
        /\ disk' = [b \in DOMAIN disk \cup (r.at .. r.at + r.len - 1) |->
                      IF b \in r.at .. r.at + r.len - 1
                      THEN <<w, m[b - r.at]>> ELSE disk[b]]
        /\ bad' = bad
  BY <1>1
<1>3. Failed(a)' <=> Failed(a)
  BY <1>2 DEF Failed
<1>4. ASSUME Stored(v, p, a), a \notin r.at .. r.at + r.len - 1
      PROVE  Stored(v, p, a)'
  BY <1>2, <1>3, <1>4 DEF Stored
<1>5. ASSUME v = w, a \in r.at .. r.at + r.len - 1, mem[w][r.idx][a - r.at] = p
      PROVE  Stored(v, p, a)'
  <2>1. m = mem[w][r.idx]
    BY <1>5 DEF Found
  <2>2. a \in DOMAIN disk' /\ disk'[a] = <<w, m[a - r.at]>>
    BY <1>2, <1>5
  <2> QED BY <1>5, <2>1, <2>2 DEF Stored
<1> QED BY <1>2, <1>4, <1>5, PlacedKernel

LEMMA PlacedKernelFail ==
  ASSUME Inv, RangesApart, NEW w \in Writers, KernelFail(w),
         NEW v \in Writers, NEW p, NEW a \in Nat, Placed(v, p, a)
  PROVE  Placed(v, p, a)'
<1>1. PICK r \in kernel[w] :
        /\ KernelTakes(w, r, FALSE)
        /\ bad' = bad \cup {[disk_offset |-> r.at, sealed_len |-> r.len]}
        /\ disk' = disk
  BY DEF KernelFail
<1>2. Failed(a) => Failed(a)'
  BY <1>1 DEF Failed
<1>3. ASSUME Stored(v, p, a) PROVE Stored(v, p, a)'
  BY <1>1, <1>2, <1>3 DEF Stored
<1>4. ASSUME a \in r.at .. r.at + r.len - 1 PROVE Stored(v, p, a)'
  <2> DEFINE b == [disk_offset |-> r.at, sealed_len |-> r.len]
  <2>1. b \in bad' /\ a \in b.disk_offset .. b.disk_offset + b.sealed_len - 1
    BY <1>1, <1>4
  <2> QED BY <2>1 DEF Stored, Failed
<1> QED BY <1>1, <1>3, <1>4, PlacedKernel

LEMMA PlacedStep ==
  ASSUME Inv, RangesApart, NEW w \in Writers, StepOf(w),
         NEW v \in Writers, pc[v] # "failed", NEW p, NEW a \in Nat, Placed(v, p, a)
  PROVE  Placed(v, p, a)'
<1>1. CASE SubmitSlot(w)
  BY <1>1, PlacedSubmitSlot
<1>2. CASE Reap(w)
  BY <1>2, PlacedReap
<1>3. CASE KernelComplete(w)
  BY <1>3, PlacedKernelComplete
<1>4. CASE KernelFail(w)
  BY <1>4, PlacedKernelFail
<1>5. CASE Append(w) \/ Flush(w) \/ Finish(w) \/ Advance(w) \/ SubmitAndWait(w)
             \/ NothingPending(w)
  <2>1. UNCHANGED <<slots, completed, cq, disk, bad>>
    BY <1>5 DEF Append, Flush, Finish, SealRest, Advance, SubmitAndWait,
                NothingPending, writerVars
  <2>2. \A i \in InFlight(v) : mem'[v][i] = mem[v][i]
    BY UntouchedStep DEF StepOf, Next
  <2> QED BY <2>1, <2>2, PlacedQuiet
<1> QED BY <1>1, <1>2, <1>3, <1>4, <1>5 DEF StepOf, Step

\* Places found stay when no byte is sealed.
LEMMA LaidKept ==
  ASSUME Inv, RangesApart, NEW w \in Writers, StepOf(w),
         NEW v \in Writers, pc[v] # "failed", Laid(v),
         Sealed(v)' = Sealed(v), file_offset' \in Nat, file_offset' >= file_offset
  PROVE  Laid(v)'
<1>1. PICK at \in [0 .. Sealed(v) - 1 -> 0 .. file_offset - 1] :
        /\ \A p, q \in 0 .. Sealed(v) - 1 : p < q => at[p] < at[q]
        /\ \A p \in 0 .. Sealed(v) - 1 : Placed(v, p, at[p])
  BY DEF Laid
<1>2. \A p \in 0 .. Sealed(v) - 1 : at[p] \in Nat /\ at[p] \in 0 .. file_offset' - 1
  <2>1. PICK e \in Nat : e = file_offset' /\ e >= file_offset /\ file_offset \in Nat
    BY DEF Inv, Typed
  <2> TAKE p \in 0 .. Sealed(v) - 1
  <2>2. at[p] \in 0 .. file_offset - 1
    OBVIOUS
  <2>3. at[p] \in Nat /\ at[p] \in 0 .. e - 1
    BY <2>1, <2>2
  <2> QED BY <2>1, <2>3
<1>3. \A p \in 0 .. Sealed(v) - 1 : Placed(v, p, at[p])'
  <2> TAKE p \in 0 .. Sealed(v) - 1
  <2> DEFINE a == at[p]
  <2>1. a \in Nat /\ Placed(v, p, a)
    BY <1>1, <1>2
  <2> HIDE DEF a
  <2>2. Placed(v, p, a)'
    BY <2>1, PlacedStep
  <2> QED BY <2>2 DEF a
<1>4. at \in [0 .. Sealed(v)' - 1 -> 0 .. file_offset' - 1]
  BY <1>2
<1> QED BY <1>1, <1>3, <1>4 DEF Laid

LEMMA StreamAppend ==
  ASSUME Inv, NEW w \in Writers, Append(w), HeadHolds(w)
  PROVE  HeadHolds(w)' /\ Sealed(w)' = Sealed(w)
<1>1. PICK n \in Sizes : AppendFits(w, n) \/ AppendOverflows(w, n)
  BY DEF Append
<1>2. /\ n \in 1 .. Batch /\ pc[w] = "idle" /\ cursor[w] \in 0 .. Batch
      /\ total[w] \in Nat /\ head[w] \in Slots /\ head'[w] = head[w]
      /\ pc \in [Writers -> Labels]
  BY DEF Append, Inv, WriterInv, LocalsOK, Typed
<1>3. /\ Unsealed(w) = cursor[w] /\ Sealed(w) = total[w] - cursor[w]
      /\ cursor[w] <= total[w]
      /\ \A a \in 0 .. cursor[w] - 1 : mem[w][head[w]][a] = total[w] - cursor[w] + a
  BY <1>2 DEF HeadHolds, Unsealed, Sealed
<1>4. CASE AppendFits(w, n)
  <2>1. /\ cursor[w] + n <= Batch /\ pc'[w] = "idle"
        /\ cursor'[w] = cursor[w] + n /\ total'[w] = total[w] + n
    BY <1>2, <1>4 DEF AppendFits, Write, Inv, Typed
  <2>2. Unsealed(w)' = cursor[w] + n /\ Sealed(w)' = (total[w] + n) - (cursor[w] + n)
    BY <2>1 DEF Unsealed, Sealed
  <2>3. Sealed(w)' = total[w] - cursor[w]
    BY <1>2, <2>2
  <2>4. \A b \in 0 .. Batch - 1 : mem'[w][head[w]][b] =
          IF b \in cursor[w] .. cursor[w] + n - 1 THEN total[w] + (b - cursor[w])
                                                  ELSE mem[w][head[w]][b]
    BY <1>2, <1>4 DEF AppendFits, Write, Inv, Typed
  <2>5. ASSUME NEW a \in 0 .. cursor[w] + n - 1
        PROVE  mem'[w][head[w]][a] = total[w] - cursor[w] + a
    BY <1>2, <1>3, <2>1, <2>4
  <2>6. Unsealed(w)' \in 0 .. total'[w]
    BY <1>2, <1>3, <2>1, <2>2
  <2>7. \A a \in 0 .. Unsealed(w)' - 1 : mem'[w][head'[w]][a] = Sealed(w)' + a
    BY <1>2, <2>2, <2>3, <2>5
  <2> QED BY <1>3, <2>3, <2>6, <2>7 DEF HeadHolds
<1>5. CASE AppendOverflows(w, n)
  <2>1. /\ pc'[w] = "seal" /\ loc'[w].valid_len = cursor[w]
        /\ total' = total /\ mem' = mem
    BY <1>5 DEF AppendOverflows, Goto, Inv, Typed
  <2>2. Unsealed(w)' = Unsealed(w)
    BY <1>3, <2>1 DEF Unsealed
  <2> QED BY <1>2, <2>1, <2>2 DEF HeadHolds, Sealed
<1> QED BY <1>1, <1>4, <1>5

LEMMA StreamSealRest ==
  ASSUME Inv, NEW w \in Writers, NEW then \in {"idle", "drain"}, SealRest(w, then),
         HeadHolds(w)
  PROVE  HeadHolds(w)' /\ Sealed(w)' = Sealed(w)
<1>1. /\ pc[w] = "idle" /\ cursor[w] \in Nat /\ Unsealed(w) = cursor[w]
      /\ UNCHANGED <<mem, total, head, cursor>>
  BY DEF SealRest, Unsealed, Inv, Typed, writerVars, clientVars
<1>2. \/ pc'[w] = "seal" /\ loc'[w].valid_len = cursor[w]
      \/ pc'[w] = then /\ cursor[w] = 0
  BY <1>1 DEF SealRest, HasData, Goto, Inv, Typed
<1>3. Unsealed(w)' = Unsealed(w)
  BY <1>1, <1>2 DEF Unsealed
<1> QED BY <1>1, <1>3 DEF HeadHolds, Sealed

LEMMA StreamAdvance ==
  ASSUME Inv, NEW w \in Writers, Advance(w), HeadHolds(w)
  PROVE  HeadHolds(w)' /\ Sealed(w)' = Sealed(w)
<1>1. /\ pc[w] = "advance" /\ Unsealed(w) = 0 /\ Sealed(w) = total[w]
      /\ total[w] \in Nat /\ loc[w].len \in 0 .. Batch /\ NextSlot(w) \in Slots
  <2>1. pc[w] = "advance" /\ total[w] \in Nat /\ loc[w].len \in 0 .. Batch
    BY DEF Advance, Inv, Typed, Locals
  <2>2. Unsealed(w) = 0 /\ Sealed(w) = total[w]
    BY <2>1 DEF Unsealed, Sealed
  <2> QED BY <2>1, <2>2, NextSlotType DEF Inv
<1>2. head'[w] = NextSlot(w) /\ cursor'[w] = loc[w].len
  BY DEF Advance, Inv, Typed
<1>3. CASE loc[w].then = "append"
  <2>1. pc'[w] = "idle" /\ total'[w] = total[w] + loc[w].len
    BY <1>3 DEF Advance, Write, Goto, Inv, Typed
  <2>2. Unsealed(w)' = loc[w].len
    BY <1>2, <2>1 DEF Unsealed
  <2>3. Sealed(w)' = (total[w] + loc[w].len) - loc[w].len
    BY <2>1, <2>2 DEF Sealed
  <2>4. Sealed(w)' = total[w]
    BY <1>1, <2>3
  <2>5. \A b \in 0 .. Batch - 1 : mem'[w][NextSlot(w)][b] =
          IF b \in 0 .. 0 + loc[w].len - 1 THEN total[w] + (b - 0)
                                           ELSE mem[w][NextSlot(w)][b]
    BY <1>1, <1>3 DEF Advance, Write, Inv, Typed
  <2>6. ASSUME NEW a \in 0 .. loc[w].len - 1
        PROVE  mem'[w][NextSlot(w)][a] = total[w] + a
    BY <1>1, <2>5
  <2>7. Unsealed(w)' \in 0 .. total'[w]
    BY <1>1, <2>1, <2>2
  <2>8. \A a \in 0 .. Unsealed(w)' - 1 : mem'[w][head'[w]][a] = Sealed(w)' + a
    BY <1>2, <2>2, <2>4, <2>6
  <2> QED BY <1>1, <2>4, <2>7, <2>8 DEF HeadHolds
<1>4. CASE loc[w].then # "append"
  <2>1. loc[w].then \in {"idle", "drain"} /\ loc[w].len = 0
    BY <1>1, <1>4 DEF Inv, WriterInv, LocalsOK, Typed, Locals
  <2>2. pc'[w] = loc[w].then /\ total' = total
    BY <1>4 DEF Advance, Goto, Inv, Typed
  <2>3. Unsealed(w)' = 0
    BY <1>2, <2>1, <2>2 DEF Unsealed
  <2>4. Sealed(w)' = total[w]
    BY <1>1, <2>2, <2>3 DEF Sealed
  <2> QED BY <1>1, <2>2, <2>3, <2>4 DEF HeadHolds
<1> QED BY <1>3, <1>4

\* The steps that leave the head slot and the stream alone.
LEMMA StreamIdle ==
  ASSUME Inv, NEW w \in Writers, HeadHolds(w),
         SubmitAndWait(w) \/ Reap(w) \/ NothingPending(w)
         \/ KernelComplete(w) \/ KernelFail(w)
  PROVE  HeadHolds(w)' /\ Sealed(w)' = Sealed(w)
<1>1. mem' = mem /\ total' = total /\ head' = head /\ cursor' = cursor
  BY DEF SubmitAndWait, Reap, NothingPending, KernelComplete, KernelFail,
         KernelTakes, writerVars, clientVars
<1>2. Unsealed(w)' = Unsealed(w)
  <2>1. CASE KernelComplete(w) \/ KernelFail(w)
    BY <1>1, <2>1 DEF KernelComplete, KernelFail, KernelTakes, Unsealed
  <2>2. CASE SubmitAndWait(w) \/ Reap(w) \/ NothingPending(w)
    <3>1. pc[w] \in {"advance", "drain", "wait"}
      BY <2>2 DEF SubmitAndWait, Reap, NothingPending
    <3>2. pc'[w] \in {"wait", "failed", "done", "advance"}
      BY <2>2 DEF SubmitAndWait, Enter, EnterFails, Reap, NothingPending, Goto,
                  Inv, Typed
    <3> QED BY <3>1, <3>2 DEF Unsealed
  <2> QED BY <2>1, <2>2
<1> QED BY <1>1, <1>2 DEF HeadHolds, Sealed

\* submit_slot gives the bytes of the head slot the next places of the file.
LEMMA StreamSubmitSlot ==
  ASSUME Inv, RangesApart, NEW w \in Writers, SubmitSlot(w), HeadHolds(w), Laid(w)
  PROVE  HeadHolds(w)' /\ Laid(w)'
<1> DEFINE L == loc[w].valid_len
           n == Sealed(w)
           h == head[w]
<1>1. /\ pc[w] = "seal" /\ h \in Slots /\ L \in 1 .. Batch
      /\ slots'[w][h] = [state |-> "InFlight", disk_offset |-> file_offset,
                         sealed_len |-> L]
      /\ file_offset' = file_offset + L
      /\ cq' = cq /\ mem' = mem /\ total' = total /\ head' = head
      /\ pc'[w] \in {"advance", "failed"}
  BY SubmitSlotEffect DEF Inv
<1>2. total[w] \in Nat /\ file_offset \in Nat
  BY DEF Inv, Typed
<1>3. /\ Unsealed(w) = L /\ n = total[w] - L /\ L <= total[w]
      /\ \A a \in 0 .. L - 1 : mem[w][h][a] = n + a
  BY <1>1, <1>2 DEF HeadHolds, Unsealed, Sealed
<1>4. Unsealed(w)' = 0 /\ Sealed(w)' = total[w] - 0
  BY <1>1 DEF Unsealed, Sealed
<1>5. HeadHolds(w)' /\ Sealed(w)' = total[w]
  BY <1>1, <1>2, <1>4 DEF HeadHolds
<1>6. PICK at \in [0 .. n - 1 -> 0 .. file_offset - 1] :
        /\ \A p, q \in 0 .. n - 1 : p < q => at[p] < at[q]
        /\ \A p \in 0 .. n - 1 : Placed(w, p, at[p])
  BY DEF Laid
<1> HIDE DEF L, n, h
<1>7. PICK at2 : at2 = [p \in 0 .. total[w] - 1 |->
                          IF p < n THEN at[p] ELSE file_offset + (p - n)]
  OBVIOUS
<1>8. ASSUME NEW p \in 0 .. total[w] - 1
      PROVE  /\ p < n => p \in 0 .. n - 1 /\ at2[p] = at[p] /\ at[p] \in 0 .. file_offset - 1
             /\ p >= n => at2[p] = file_offset + (p - n) /\ p - n \in 0 .. L - 1
             /\ at2[p] \in 0 .. file_offset + L - 1
  <2>1. n \in Nat /\ L \in Nat /\ total[w] = n + L
    <3>1. L \in Nat
      BY <1>1
    <3>2. n = total[w] - L /\ L <= total[w]
      BY <1>3
    <3>3. PICK s \in Nat : s = total[w]
      BY <1>2
    <3>4. n \in Nat /\ s = n + L
      BY <3>1, <3>2, <3>3
    <3> QED BY <3>1, <3>3, <3>4
  <2>2. CASE p < n
    <3>1. p \in 0 .. n - 1 /\ at2[p] = at[p]
      BY <1>7, <2>1, <2>2
    <3>2. at[p] \in 0 .. file_offset - 1
      BY <3>1
    <3> QED BY <1>2, <2>1, <2>2, <3>1, <3>2
  <2>3. CASE p >= n
    <3>1. at2[p] = file_offset + (p - n)
      BY <1>7, <2>1, <2>3
    <3>2. p - n \in 0 .. L - 1
      BY <2>1, <2>3
    <3> QED BY <1>2, <2>1, <2>3, <3>1, <3>2
  <2> QED BY <2>1, <2>2, <2>3
<1>9. at2 \in [0 .. total[w] - 1 -> 0 .. file_offset' - 1]
  <2>1. PICK e \in Nat : /\ e = file_offset' /\ e = file_offset + L
                         /\ file_offset \in Nat /\ L \in Nat
    BY <1>1, <1>2
  <2>2. \A p \in 0 .. total[w] - 1 : at2[p] \in 0 .. e - 1
    <3> TAKE p \in 0 .. total[w] - 1
    <3>1. at2[p] \in 0 .. file_offset + L - 1
      BY <1>8, Zenon
    <3> QED BY <2>1, <3>1
  <2>3. DOMAIN at2 = 0 .. total[w] - 1 /\ at2 = [p \in DOMAIN at2 |-> at2[p]]
    BY <1>7
  <2>4. at2 \in [0 .. total[w] - 1 -> 0 .. e - 1]
    BY <2>2, <2>3
  <2> QED BY <2>1, <2>4
<1>10. ASSUME NEW p \in 0 .. total[w] - 1, NEW q \in 0 .. total[w] - 1, p < q
      PROVE  at2[p] < at2[q]
  <2>1. n \in Nat
    BY <1>1, <1>2, <1>3
  <2>2. CASE q < n
    BY <2>1, <2>2, <1>2, <1>6, <1>8, <1>10
  <2>3. CASE p < n /\ q >= n
    BY <2>1, <2>3, <1>2, <1>8
  <2>4. CASE p >= n
    BY <2>1, <2>4, <1>2, <1>8, <1>10
  <2> QED BY <2>1, <2>2, <2>3, <2>4
<1>11. ASSUME NEW p \in 0 .. total[w] - 1
       PROVE  Placed(w, p, at2[p])'
  <2>1. n \in Nat
    BY <1>1, <1>2, <1>3
  <2>2. PICK a : a = at2[p]
    OBVIOUS
  <2>3. CASE p < n
    <3>1. Placed(w, p, a)
      BY <2>2, <2>3, <1>6, <1>8
    <3> QED BY <3>1, <2>2, PlacedSubmitSlot
  <2>4. CASE p >= n
    <3>1. a = file_offset + (p - n) /\ p - n \in 0 .. L - 1
      BY <2>2, <2>4, <1>8
    <3>2. h \in InFlight(w)' /\ \A c \in cq[w] : c.idx # h
      BY SubmitSlotInFlight, EntriesInFlight DEF h, Inv, WriterInv
    <3>3. slots'[w][h].disk_offset = file_offset /\ slots'[w][h].sealed_len = L
      BY <1>1
    <3>4. a \in file_offset .. file_offset + L - 1 /\ a - file_offset = p - n
      BY <3>1, <1>1, <1>2, <2>1
    <3>5. mem[w][h][p - n] = p
      BY <3>1, <1>3, <2>1
    <3>6. Placed(w, p, a)'
      BY <3>2, <3>3, <3>4, <3>5, <1>1 DEF Placed, Bytes
    <3> QED BY <3>6, <2>2
  <2> QED BY <2>1, <2>3, <2>4
<1>12. Laid(w)'
  BY <1>5, <1>9, <1>10, <1>11 DEF Laid
<1> QED BY <1>5, <1>12

LEMMA StreamStep == Inv /\ RangesApart /\ StreamInv /\ [Next]_vars => StreamInv'
<1> SUFFICES ASSUME Inv, RangesApart, StreamInv, [Next]_vars,
                    NEW v \in Writers, pc'[v] # "failed"
             PROVE  HeadHolds(v)' /\ Laid(v)'
    BY DEF StreamInv
<1>1. CASE UNCHANGED vars
  <2>1. Same(v) /\ UNCHANGED <<file_offset, slots, completed, cq, disk, bad>>
    BY <1>1 DEF Same, vars, writerVars, clientVars
  <2>2. Unsealed(v)' = Unsealed(v) /\ Sealed(v)' = Sealed(v)
    BY <2>1 DEF Same, Unsealed, Sealed
  <2>3. HeadHolds(v) /\ Laid(v)
    BY <2>1 DEF StreamInv, Same
  <2>4. HeadHolds(v)'
    BY <2>1, <2>2, <2>3 DEF HeadHolds, Same
  <2>5. \A p, a : Placed(v, p, a) => Placed(v, p, a)'
    BY <2>1, PlacedQuiet DEF Same
  <2>6. Laid(v)'
    <3>1. PICK at \in [0 .. Sealed(v) - 1 -> 0 .. file_offset - 1] :
            /\ \A p, q \in 0 .. Sealed(v) - 1 : p < q => at[p] < at[q]
            /\ \A p \in 0 .. Sealed(v) - 1 : Placed(v, p, at[p])
      BY <2>3 DEF Laid
    <3>2. \A p \in 0 .. Sealed(v) - 1 : Placed(v, p, at[p])'
      BY <3>1, <2>5
    <3> QED BY <2>1, <2>2, <3>1, <3>2 DEF Laid
  <2> QED BY <2>4, <2>6
<1>2. ASSUME NEW w \in Writers, StepOf(w) PROVE HeadHolds(v)' /\ Laid(v)'
  <2>1. pc[v] # "failed" /\ HeadHolds(v) /\ Laid(v)
    BY <1>2, FailedStays DEF StreamInv
  <2>2. file_offset \in Nat
    BY DEF Inv, Typed
  <2>3. file_offset' \in Nat /\ file_offset' >= file_offset
    <3>1. CASE SubmitSlot(w)
      <4>1. file_offset' = file_offset + loc[w].valid_len /\ loc[w].valid_len \in 1 .. Batch
        BY <3>1, SubmitSlotEffect DEF Inv
      <4> QED BY <2>2, <4>1
    <3>2. CASE ~SubmitSlot(w)
      <4>1. file_offset' = file_offset
        BY <1>2, <3>2
           DEF StepOf, Step, Append, Flush, Finish, SealRest, Advance, SubmitAndWait,
               Reap, NothingPending, KernelComplete, KernelFail, KernelTakes
      <4> QED BY <2>2, <4>1
    <3> QED BY <3>1, <3>2
  <2>4. CASE v # w
    <3>1. Same(v)
      BY <1>2, <2>4, OthersSame DEF Inv
    <3>2. Unsealed(v)' = Unsealed(v) /\ Sealed(v)' = Sealed(v)
      BY <3>1 DEF Same, Unsealed, Sealed
    <3>3. HeadHolds(v)'
      BY <2>1, <3>1, <3>2 DEF HeadHolds, Same
    <3> QED BY <1>2, <2>1, <2>3, <3>2, <3>3, LaidKept
  <2>5. CASE v = w /\ SubmitSlot(w)
    BY <2>1, <2>5, StreamSubmitSlot
  <2>6. CASE v = w /\ ~SubmitSlot(w)
    <3>1. HeadHolds(w)' /\ Sealed(w)' = Sealed(w)
      <4>1. CASE Append(w)
        BY <2>1, <2>6, <4>1, StreamAppend
      <4>2. CASE Flush(w) \/ Finish(w)
        BY <2>1, <2>6, <4>2, StreamSealRest DEF Flush, Finish
      <4>3. CASE Advance(w)
        BY <2>1, <2>6, <4>3, StreamAdvance
      <4>4. CASE SubmitAndWait(w) \/ Reap(w) \/ NothingPending(w)
                 \/ KernelComplete(w) \/ KernelFail(w)
        BY <2>1, <2>6, <4>4, StreamIdle
      <4> QED BY <1>2, <2>6, <4>1, <4>2, <4>3, <4>4 DEF StepOf, Step
    <3> QED BY <1>2, <2>1, <2>3, <2>6, <3>1, LaidKept
  <2> QED BY <2>4, <2>5, <2>6
<1> QED BY <1>1, <1>2 DEF Next, StepOf

LEMMA StreamInit == Init => StreamInv
<1> SUFFICES ASSUME Init, NEW w \in Writers PROVE HeadHolds(w) /\ Laid(w)
    BY DEF StreamInv
<1>1. Unsealed(w) = 0 /\ Sealed(w) = 0 /\ total[w] = 0 /\ file_offset = 0
  BY DEF Init, Unsealed, Sealed
<1>2. HeadHolds(w)
  BY <1>1 DEF HeadHolds
<1>3. Laid(w)
  <2> DEFINE at == [p \in 0 .. Sealed(w) - 1 |-> 0]
  <2>1. 0 .. Sealed(w) - 1 = {}
    BY <1>1
  <2>2. at \in [0 .. Sealed(w) - 1 -> 0 .. file_offset - 1]
    BY <2>1
  <2> QED BY <2>1, <2>2 DEF Laid
<1> QED BY <1>2, <1>3

LEMMA StreamCorrect == Spec => []StreamInv
BY StreamInit, StreamStep, InvCorrect, RangesCorrect, PTL DEF Spec

\* When finish has returned, the completed ranges hold the writer's stream in
\* the order of its appends: no byte is lost, repeated, overwritten by another
\* thread or moved, except where the kernel reported an error.
THEOREM FinishedCorrect == Spec => []FinishedStream
<1>1. Inv /\ StreamInv => FinishedStream
  <2> SUFFICES ASSUME Inv, StreamInv, NEW w \in Writers, pc[w] = "done"
               PROVE  \E at \in [0 .. total[w] - 1 -> 0 .. file_offset - 1] :
                 /\ \A p, q \in 0 .. total[w] - 1 : p < q => at[p] < at[q]
                 /\ \A p \in 0 .. total[w] - 1 :
                      /\ \E r \in completed[w] :
                           at[p] \in r.disk_offset .. r.disk_offset + r.sealed_len - 1
                      /\ \/ Failed(at[p])
                         \/ at[p] \in DOMAIN disk /\ disk[at[p]] = <<w, p>>
      BY DEF FinishedStream
  <2>1. InFlight(w) = {}
    BY DEF Inv, WriterInv, AllDone
  <2>2. total[w] \in Nat /\ Unsealed(w) = 0
    BY DEF Unsealed, Inv, Typed
  <2>3. Sealed(w) = total[w]
    BY <2>2 DEF Sealed
  <2>4. PICK at \in [0 .. total[w] - 1 -> 0 .. file_offset - 1] :
          /\ \A p, q \in 0 .. total[w] - 1 : p < q => at[p] < at[q]
          /\ \A p \in 0 .. total[w] - 1 : Placed(w, p, at[p])
    BY <2>3 DEF StreamInv, Laid
  <2>5. \A p \in 0 .. total[w] - 1 :
          /\ \E r \in completed[w] :
               at[p] \in r.disk_offset .. r.disk_offset + r.sealed_len - 1
          /\ Failed(at[p]) \/ (at[p] \in DOMAIN disk /\ disk[at[p]] = <<w, p>>)
    BY <2>1, <2>4 DEF Placed, Stored, Bytes
  <2> QED BY <2>4, <2>5
<1> QED BY <1>1, InvCorrect, StreamCorrect, PTL

=============================================================================
